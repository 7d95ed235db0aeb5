# CloudGuard AI in TLA+

CloudGuard AI takes up a tenant's documents, answers questions and proposes
compliance findings from them, scores assessments, runs agent workflows, and
lets a person decide on the one action a workflow may propose. This directory
holds TLA+ models of the parts of it whose correctness depends on the order of
steps of several processes or on checks made in several places, the TLC
configurations that check them, and proofs.

To check a model: `tlc -config Safety.cfg MCApproval.tla`; the table of runs in
section 3 pairs the configurations with their modules. To check the proofs:
`tlapm M.tla` for each of the eight modules of section 4.

## 1. The system

Paths are relative to the repository root.

| Component | State it keeps | Operations | Hard because of | Model |
|---|---|---|---|---|
| Approval, callback recovery, action execution, the workflow's state machine | a row of `approvals`, the execution and its task token, `security_reviews`, the audit trail | create, decide, list, claim, send, mark, release, execute, replay | five processes, no common transaction, lost answers, dead Lambdas | `Approval` |
| Work admission (`services/work_admission.py`, `adapters/aws/work_lease_store.py`, `rate_limit_store.py`) | slot leases and windowed counters in DynamoDB | acquire a slot, debit, work, release | leases that run out, lost answers, the table's own cleanup, clocks read earlier | `WorkAdmission` |
| Document ingestion (`services/documents.py`, `services/document_processing.py`, both workers, `ingestion_stack.py`) | `documents`, chunks, vectors, the object, events, executions, the dead-letter queue | register, upload, complete, deliver, claim, extract, chunk, embed, index, announce | redelivery, repeated uploads, crashes between transactions, four stores that fail one by one | `Ingestion` |
| Compliance state and scoring (`services/compliance.py`, `compliance_scoring.py`, `compliance_repository.py`) | assessment, controls, evidence, snapshots, overrides | update, admit, compute, override, finalize, read | concurrent requests, `max + 1`, order by transaction start, reads without a snapshot | `Compliance` |
| Retrieval, RAG, candidate extraction, agents, tool registry | none between calls | search, answer, extract, analyze, research, assess risk, review | a model and an index that may answer anything; five implementations of one packing | `Grounding` |
| Identity (`adapters/cognito/identity.py`, `api/deps.py`, `security/authz.py`) | the cached signing keys and their cooldown | verify a token, fetch keys | requests that share a cache over awaits, key rotation | `KeyCache`, `Authorization` |
| Frontend session (`AuthProvider.tsx`, `auth.ts`, `api-client.ts`) | storage, active token, profile, epoch, address bar | load, bootstrap, callback, sign in, sign out, request | answers that arrive after the session they belong to | `Session` |
| Evaluation runs, telemetry, scripts, other stacks | results, measurements | sequential | no shared state | none, see section 5 |

How they interact. A workflow's agents (`Grounding`, kind "deployed") end in
the verdict from which `Approval` starts. `Ingestion` extends `WorkAdmission`:
its worker runs inside an admitted invocation, so a dying Lambda, an expired
lease and a stuck document are one behaviour. What `Ingestion` makes searchable
is what `Grounding` searches. `Session` extends `KeyCache`: every request of
the page is verified against the cache, and what the API answers drives the
page. `Grounding` uses the permission and clearance tables of `Authorization`.

### Approval, recovery and execution

| Part | State it keeps | Operations | Source |
|---|---|---|---|
| Workflow state machine | the state of each execution and its task token | agents, the reviewer's `Choice`, the callback wait, the decision's `Choice`, catches, a 365-day timeout | `infrastructure/stacks/agent_workflow_stack.py` |
| Creation of the approval | one row of `approvals`, `pending` | `create_pending`, run by a Lambda while the state machine waits with a token | `adapters/aws/approval_creation_repository.py`, `deployed_approval_creation_worker.py` |
| Manager's decision | the same row, `decided` | `ApprovalService.decide`: permission, read, compare-and-set | `services/approval.py`, `adapters/local/approval_repository.py` |
| Callback recovery | claim id, claim time and delivery time on the row | every minute: list, claim under a lease, `SendTaskSuccess`, mark or release | `services/approval_callback.py`, `adapters/aws/approval_callback_recovery_repository.py`, `deployed_approval_callback_recovery_worker.py` |
| Action execution | `security_reviews`, the row's terminal status | `execute_for_workflow`: wait for the delivery marker, project, validate, insert, finish | `adapters/aws/approval_execution_repository.py`, `services/approved_action_*.py` |
| Schema | guards and the audit trail | triggers on every UPDATE and INSERT | `migrations/versions/0007`, `0010`, `0011` |

PostgreSQL and Step Functions share no transaction. The row decides what the
workflow may do, but a worker carries the decision from one to the other by a
remote call that can be lost on the way there or on the way back, the Lambda
that made it may die at any point, and a second run of the same Lambda may be
under way. What makes this correct is spread over five processes:

- the compare-and-set makes the first decision the last;
- the lease outlives the Lambda that takes it, so one run at a time sends for
  an approval, and the verdict it read at its claim is still the one on record;
- the delivery marker is written only after Step Functions accepted the call,
  and the executor acts only once it sees the marker;
- the executor writes the review, the terminal status and the audit event in
  one transaction, and replays the outcome to whoever asks again;
- the triggers refuse whatever does not follow that life cycle.


### Work admission and ingestion

An invocation reads the clock once, tries the slots of its organization and
kind with conditional writes, debits a counter, works, and deletes its slot on
condition that it still owns it. Nobody renews a lease; safety rests on the
lease (600 s) being longer than any Lambda that is admitted, and liveness on
nothing but expiry.

In the deployed system the object store's event starts a Step Functions
execution, which invokes the worker. Every database call of the pipeline is a
transaction of its own. The claim (`UPDATE ... WHERE processing_status =
'queued'`) is what keeps two deliveries from processing one document. It is
never undone: a worker that dies leaves the document behind, and the letter
that the execution's catch sends is the only trace. The local worker runs the
same service inside a single transaction.

### Compliance

Every writing request locks the assessment's row and keeps the lock to its
commit. What a score is computed from, the number of the next snapshot and
what an override refers to are all read under that lock. Readers take none.
A change of a control or of its evidence clears the score, so that a score
that is shown is current; `Matches` compares the assessment with its latest
snapshot on every read.

### Model services

Each service retrieves, packs a prefix of the chunks into a bounded prompt
with labels, calls the model, and refuses replies that claim anything beyond
the labels shown. The workflow's risk agent and reviewer pack the same
evidence separately, and the reviewer rejects estimates of chunks it does not
show.

### The session

A page restores what its storage holds, completes a hosted sign-in whose
callback is in the address bar, or is anonymous. Work in flight remembers the
epoch it began in and checks it after every await; a sign-out or a 401
advances the epoch.

## 2. Modules

| Module | What it is |
|---|---|
| `HumanGate` | abstract: a first verdict, one resume, at most the one authorised action |
| `Approval` | the five processes of the approval, their properties, and the mutated operators the properties are tested with |
| `ApprovalGate` | the refinement mapping from `Approval` to `HumanGate` |
| `Semaphore` | abstract: no more workers at work than permits |
| `WorkAdmission` | leases, counter, release, time |
| `DocumentLifecycle` | abstract: the order of a document's statuses, READY only when searchable |
| `Ingestion` | API, events, executions and the pipeline; extends `WorkAdmission` |
| `ScoreRegister` | abstract: scores recorded one after another, made stale by changes, closed once |
| `ComplianceScoring` | the scoring function, in hundredths over weights in tenths |
| `Compliance` | one assessment under concurrent transactions |
| `Authorization` | permissions and clearance of the roles |
| `Grounding` | the model services |
| `KeyCache` | token verification and the cached signing keys |
| `Session` | a browser tab; extends `KeyCache` |
| `MC*` | values and symmetry for TLC |
| `ApprovalProofs`, `ApprovalSafety`, `ApprovalRefinement`, `AdmissionProofs`, `IngestionProofs`, `ComplianceProofs`, `GroundingProofs`, `SessionProofs` | the proofs of section 4 |

The mutated operators stand before the definitions they replace, and
`PROJECT.json` pairs them with the properties. `PROJECT.json` also maps every
definition to its lines of the source.

### Approval

| Variable | Stands for |
|---|---|
| `wf[w]` | the current state of the Step Functions execution `w` |
| `creation[w]` | the approval-creation Lambda: not started, before its commit, after it, ended |
| `row[w]` | the row of `approvals` (`absent` before the insert). `rank` is the place of `decided_at` in the order of decisions, `claim` and `claimAge` are the claim id and the time since `callback_claimed_at`, `delivered` is `callback_delivered_at IS NOT NULL`, `error` is `execution_error_code` |
| `review[w]` | the row of `security_reviews`, or none |
| `audit[w]` | the types in `approval_audit_events` (unique per approval and type) |
| `mgr[m]` | the approval a request has read as pending and not yet decided |
| `run[r]` | one invocation of the recovery Lambda: where it is, the rest of its list, the claim it holds with the verdict it read, its age |
| `ex[w][k]` | an invocation of the executor: the workflow's own task, or a further one |
| `faults` | how many calls have been lost so far, bounded by `MaxFaults` |

Every action is one database transaction or one remote call of the code:

| Action | Code |
|---|---|
| `ReviewerDecision`, `CreatePending`, `CreationReturns`, `CreationFails`, `WorkflowTimesOut` | the reviewer's `Choice`; `create_pending`; the end of the Lambda; `States.ALL` caught at the wait; the state machine's timeout |
| `ReadPending`, `DecidePending` | the read and the compare-and-set of `ApprovalService.decide` |
| `StartRun`, `ListRecoverable`, `FinishRun`, `RunDies` | the schedule; the listing; the end of `_run`; a timeout or a crash |
| `ClaimDecidedCallback`, `ClaimFails` | the claiming UPDATE; the same raising, rolled back or committed with its answer lost |
| `SendDecision`, `SendFails` | `SendTaskSuccess` accepted or refused for a dead token; the same lost before or after it arrived |
| `MarkCallbackDelivered`, `ReleaseCallbackClaim`, `BookkeepingFails` | the two UPDATEs that settle a claim; the same raising |
| `FindsNoDecision`, `PollsUndelivered`, `ExecuteForWorkflow`, `ExecutionFails`, `Replay` | the branches of `_acquire_ready_approval` and `execute_for_workflow`; a rollback or a lost answer; a further invocation |
| `Tick` | time, for claims and runs together |

`WriteRow` is every UPDATE of the row together with the audit trigger.
`GuardAccepts` is what an UPDATE has to pass: the two guard triggers
(`MutationGuardAccepts`, `ExecutionGuardAccepts`) and the CHECK constraints
(`ChecksAccept`); `ReviewGuardAccepts` is the trigger on an INSERT into
`security_reviews`. They are not
conjuncts of the actions, because whether the code ever runs into them is a
question (`TriggersNeverRefuse`), not an assumption.

What is abstracted, and why that is sound here:

- One organization: every query of these components is scoped to one.
- A claim's uuid is the run that took it. A run asks only about claims it took
  itself, and settles one before it takes the next, so two uuids of one run are
  never told apart by the code.
- The claim time is the time of the claiming transaction. The code reads the
  clock just before it, within the same run; the proof uses only that a claim
  is no older than its run.
- Clocks of Lambdas agree; `decided_at` is the order of the decisions' commits.
- An action is its type, its resource and its summary. The resource type is
  folded into the type, because validation gives both one error code. A
  workflow execution id is always a uuid (`States.UUID`), so the error code
  for a malformed one is unreachable.
- Justification, comment, approver, attempt count, execution reference and
  idempotency key are left out. The key is a function of the immutable
  decision and identifies the review, which the model identifies by its
  workflow.
- The upsert's conflict branch in `create_pending` and the insert's conflict
  branch in `execute_for_workflow` are left out. The first needs a second
  creation for one execution, which the retry policy excludes (it retries only
  invocations that never started). The second needs a review without its
  terminal status, which one transaction excludes.
- The state machine's timeout (365 days) is modelled at the callback wait
  (`WorkflowTimesOut`). It covers the execution task as well, which polls for
  seconds; what it would leave there is what `ExecutionFails` leaves.
- A mark or a release that commits and loses its answer leaves the same state
  as one that succeeds, because the run goes on to the next candidate in both
  cases; it is therefore not a separate action.
- The Research, Risk and Reviewer agents are one step with three outcomes.

### WorkAdmission

| Variable | Stands for |
|---|---|
| `slot[k]` | the lease item of a slot: its owner nonce, and `expires_at` minus the present |
| `call[w]` | an invocation: where it is in `admit`, the slot it tries or has, the time since it read the clock, how it ended |
| `hits`, `phase` | the counter of the present window, and the time into it |

| Action | Code |
|---|---|
| `Start` | the floored clock, the nonce |
| `TryAcquire`, `AcquireFails` | one turn of the slot loop; a PutItem that raises, done or not |
| `Debit`, `DebitFails` | the counter's conditional update |
| `FinishWork` | the body returns or raises |
| `Release`, `ReleaseFails` | the conditional DeleteItem in `finally` |
| `Dies` | the Lambda is killed |
| `TimeToLive`, `Tick` | the table's cleanup; time |

Time is relative, so it needs no bound of its own. The clocks of Lambdas are
one clock read at different times; the code's flooring is what one unit of
time stands for. A nonce is the invocation that drew it.

### Ingestion

| Variable | Stands for |
|---|---|
| `doc[d]` | the row and the runs whose chunks it has |
| `body[d]`, `uploads[d]` | the object, and how often it was written |
| `vectors[d]` | none, some or all of the vectors stored |
| `events[d]` | events not yet delivered |
| `task[w]` | a run of `process_document`: the remote call it is before, the row in its open transaction, what it will announce |
| `execution[w]`, `letters`, `unreported` | the Step Functions execution; the dead-letter queue; letters that could not be sent |
| `announced[d]` | domain events published |

`RegisterUpload`, `Upload` and `CompleteUpload` are the API and the presigned
URL. `Deliver`, `DeliveryFails` and `EndExecution` are the rule, its
dead-letter queue and the state machine's catch. `Begin` to `Raise` are the
calls of the pipeline in their order: each step looks at one call, and
`FetchFails`, `EmbedFails`, `UpsertFails` and `DatabaseFails` are the same
calls raising, with or without effect. `WorkerDies` is `Dies` of the admission.
`OneTransaction` selects the local worker, `VectorStore` the store: pgvector
updates committed chunk rows, S3 Vectors writes in batches.

A letter can be lost wherever one is sent (`Report`): by the state machine's
`SendFailureToDLQ`, and by the rule about an event it could not deliver.

Of a document's content only the outcome of its extraction is kept; of an
error only whether it is caught. An invocation is one execution; the retry of
a throttled Lambda is one more delivery.

### Compliance

| Variable | Stands for |
|---|---|
| `db` | the committed tables: the assessment, its controls with weights and evidence, snapshots, overrides |
| `lock` | the holder of the row lock |
| `request[r]` | a request's transaction: kind, argument, `now()`, what it has read and written, its answer |
| `clock` | how many overriding transactions have begun |

`CreateAssessment` is the insert. `Begin` fixes `now()`; `LockAssessment` is
`SELECT ... FOR UPDATE` and the reads under it; `UpdateControlAssessment`,
`AdmitEvidence`, `ComputeScore`, `CreateScoreOverride` and
`FinalizeAssessment` are the services; `ReadAssessment`, `ReadLatestSnapshot`
and `ReadLatestOverride` the three statements of a read; `Commit` and
`Rollback` the end of `tenant_session`. A transaction's inserts join what is
there at its commit and its updates replace, so a lost lock would lose updates
in the model as it would in the database.

Scores are hundredths and a control's weight is tenths, as the columns are
(`Numeric(3,1)` for the weight). A request's weight has its own two decimals
and is rounded by the column when it is written (`Revised`), so a score is
always that of the rounded weight. No request of the runs changes a weight
(`NewWeights` is empty, which keeps the instance small); the proofs cover any.
Only overrides record
their `now()`, so only they advance the clock. One assessment: no statement
reads two. Nobody sets the status ARCHIVED.

### Grounding

| Variable | Stands for |
|---|---|
| `kind`, `caller`, `pc` | the service, the principal, the next step |
| `target`, `todo` | controls under evaluation, and still to be searched for |
| `found`, `prompt` | chunks retrieved in order; blocks and characters of the last prompt |
| `cited`, `judged`, `estimates` | what the result claims |
| `calls`, `outcome` | the tool budget; how the call ended |

`StartSearch` to `StartDeployed` are the six entries with their permission
checks; `GetPolicy`, `PlanAnalysis`, `PlanResearch` the steps before a search;
`SearchDirectly`, `SearchForControl` and `SearchByTool` the three ways to
search; `Answer`, `Extract`, `Analyze`, `Risk`/`RiskTask` and
`Review`/`ReviewTask` the packing, the model's reply and its validation;
`Fails` what the model, the embeddings or the index may do instead; `Return`
the end. The reply is any set of labels, one beyond those there included, so
the validation is what decides.

A chunk is its organization, level and length. A prompt is the number of
blocks and its length; headers have one length.

The two pgvector stores select organization and clearance in SQL and return a
row once, `TopK` at most (`Ranked`). The S3 index is not trusted: it may
answer any items up to `MaxIndex`, more than were asked for, repeated, and of
anybody (`Answers`); the adapter suppresses item by item (`Suppressed`) and
removes no repetition. The agents' requests reject repeated or too many chunks
(`Trusted`). The adapter's checks of malformed items, keys and distances
only shorten an answer further, which `Answers` contains. An extraction whose
control ids are unknown, or whose control headers alone pass their budget,
ends "invalid". Extraction examines labels only until it has kept enough, as
the code does.

### KeyCache and Session

| Variable | Stands for |
|---|---|
| `published`, `keys`, `keyAge`, `cooldown` | the pool's keys, the cache, its age, what is left of the cooldown |
| `refused` | tokens that are expired or whose claims are not accepted |
| `request[r]` | a request in flight: its token, where it is in `verify`, what its fetch will bring, how long it has taken, its answer |
| `provider`, `issued`, `signIns`, `exchanges` | the API's identity provider, tokens issued, hosted sign-ins and how often the code of each was sent |
| `url`, `loads`, `store` | the callback in the address bar, page loads, `sessionStorage` |
| `tab` | status, active token, profile, epoch, known configuration, disabled button |
| `boot`, `login` | the bootstrap and the local sign-in in flight, with the epoch each began in |
| `signedOut` | nothing has signed in or loaded since the session ended |

`Arrive`, `Loaded` and `Reloaded` are the segments of `verify` between awaits;
`Rotate`, `Refuse`, `OtherRefetch`, `OtherFetched` and `Tick` what goes on
around them. A fetch may take any time: httpx's `timeout=5.0` bounds each of
its phases, not the whole, so nothing is assumed of it. Ages count up to
`CacheTime`, beyond which the code asks no further.
`Load`, `ConfigAnswered`, `ExchangeAnswered`, `BootAnswered` are the segments
of the bootstrap effect, `StartLogin`, `TokenAnswered`, `LoginAnswered` of
`loginLocal`; `LoginHosted`, `Logout`, `Ask`, `PageAnswered` and `Leave` are
the rest. `LoginHosted` is the stored transaction only: assigning
`location.href` leaves the page running until the browser has gone, which is
`Leave`, so work in flight may still end the session or clear the transaction
between the two. What a page asked for is dropped with the page; the API goes
on with it, and a fetch it had begun is from then on `OtherFetched`. A token's
user and signing key are constants; the hosted exchange accepts or refuses.

## 3. What is checked

### Runs

| Run | Configuration, module | Instance | Result |
|---|---|---|---|
| `safety` | `Safety.cfg`, `MCApproval` | 1 workflow, 2 workers, 2 managers, 1 further executor invocation, 3 replacement actions, lease 2, Lambda timeout 1, batch 1, 2 polls, 3 faults | holds, 416 553 states |
| `backlog` | `Backlog.cfg`, `MCApproval` | 2 workflows, 2 workers, 1 manager, batch 2, 1 fault | holds, 536 592 states |
| `recovery` | `Recovery.cfg`, `MCApproval` | 2 workflows, 1 worker, 1 manager, lease and timeout 1, batch 2, 2 faults, fair | holds, 181 453 states |
| `starvation` | `Starvation.cfg`, `MCApproval` | the same with batch 1 and 1 fault | `DecisionReachesWorkflow` fails |
| `uncertain` | `Uncertain.cfg`, `MCApproval` | 1 workflow, 1 fault | `FailedMeansUnexecuted` fails |
| `admission` | `Admission.cfg`, `MCWorkAdmission` | 3 invocations, 2 slots, lease 3, timeout 2, 2 debits per window of 2, fair | holds, 316 785 states |
| `ingestion` | `Ingestion.cfg`, `MCIngestion` | 1 document, 2 invocations, 2 uploads, good and encrypted content, S3 Vectors, fair | holds, 1 223 879 states |
| `local_worker` | `LocalWorker.cfg`, `MCIngestion` | 1 document, 1 invocation, one transaction, pgvector, no faults | `FailureIsRecorded` fails |
| `compliance` | `Compliance.cfg`, `MCCompliance` | 5 requests, 1 control, 1 piece of evidence, 2 statuses, 1 override score | holds, 111 222 states |
| `shadowed` | `Shadowed.cfg`, `MCCompliance` | 4 requests | `OverrideIsActive` fails |
| `grounding` | `Grounding.cfg`, `MCGrounding` | 4 callers of 2 organizations, 5 chunks, 3 controls, prompts of 20 characters, 3 results asked for, index answers of up to 4 items | holds, 19 664 states |
| `session` | `Session.cfg`, `MCSession` | 2 users, 2 tokens, 2 keys, cache time and cooldown 2, 4 requests, 2 hosted sign-ins, 3 page loads, user's steps up to epoch 2, fair | holds, 484 619 states |

### Properties

| Property | Says |
|---|---|
| `TypeOK` | the types |
| `WorkflowFollowsDecision` | the branch the workflow took is the persisted decision's |
| `DeliveryFollowsResume` | delivery is recorded only of an accepted callback |
| `HolderKeepsClaim` | a run owns its claim from the claim to its settlement |
| `ReviewIsAuthorised` | a review exists exactly for executed approvals, and is the allowlisted action the delivered decision authorised |
| `AuditMatchesRow` | the audit trail names exactly the transitions made |
| `ExecutedMeansReviewed` | a workflow that reports success has its review on record |
| `TriggersNeverRefuse` | no write of a service is refused by a trigger or a CHECK constraint |
| `ImplementsHumanGate` | the system implements `HumanGate` |
| `DecisionReachesWorkflow` | a decision taken while the workflow waits ends the wait |
| `ClaimsAreReleased` | a claim is given back |
| `ExecutionEnds` | a resumed workflow ends |
| `SlotIsKept` | a running holder owns its slot until it gives it back |
| `ImplementsSemaphore` | no more workers at work than slots |
| `CapacityReturns` | a slot is again and again free to be had |
| `OneRunPerDocument` | one run past the claim of a document, ever; no chunk twice |
| `EventsAreTrue` | what was announced of a document stays what its row says |
| `AbandonedIsReported` | a half-processed document without a run has its execution's letter, or that letter was lost |
| `ImplementsLifecycle` | statuses in order, final ones final, READY only with all chunks and vectors |
| `UploadsAreSettled` | an uploaded object leads to a final status or to a letter, sent or lost |
| `ScoreIsCurrent` | a shown score is the score of the controls as they are, and the last snapshot |
| `ConstraintsHold` | revisions are unique and overrides refer to snapshots that exist |
| `ReadsAgree` | an override is shown only with the score it overrides |
| `ImplementsRegister` | every commit is a step of `ScoreRegister` |
| `OverrideStands` | an override is in force from its commit, but for the case of the finding below |
| `ContextFits` | no prompt passes its budget |
| `EvidenceIsVisible` | a call works only on chunks of its caller's organization and clearance, whatever the index answers |
| `CitationsAreShown` | citations and estimates are of chunks in the last prompt, proposed statuses of controls under evaluation |
| `PassIsGrounded` | a passed review had evidence that was shown, and a caller with the permissions |
| `EstimatesReachReview` | the reviewer's own checks of the estimates never fail a workflow |
| `ProfileIsTheTokens` | the profile shown is that of the token in use and in storage |
| `SignedOutStaysOut` | after a sign-out nothing in flight brings anything back |
| `RejectionsAreJustified` | a token in order is rejected only without any keys, or for a rotated key when a forced fetch was begun within the cooldown, or the request's own took longer |
| `CodeIsSentOnce` | an authorization code is sent once, however often its callback is opened |
| `LoadingEnds` | a page stops loading, unless a local sign-in took the place of its bootstrap |

and one type invariant per state machine.

### Bounds

Approval. Approvals interact only through a worker's list, so
one workflow shows everything about the row and two show the list. Two workers
and two managers are the smallest race. Three replacements are the three ways
validation can end. A lease of 2 and a timeout of 1 let a claim be fresh, old
and stale, and let a run die, be replaced and find its predecessor's claim on
both sides of the line. Three faults allow, in one behaviour, a lost
`SendTaskSuccess` answer, a lost marker and a crash. Two polls give a first, a
repeated and a last attempt (the code has four). `MaxAge` caps claim ages at a
value above which every claim is stale to every run. The proofs of section 4
have no bounds. Symmetry is over workers and over
managers, in the runs without liveness.

Admission. Three invocations over two slots are one too many; a lease one
longer than the timeout is the least the code relies on; two debits in a
window of two let the counter refuse and start afresh.

Ingestion. Two invocations are two deliveries of one event or of two uploads;
two uploads let the object change while it is processed. Documents share
nothing but slots, so one is enough. A second run of an unclaimed document
finds everything the first left. Time is cut to one unit, because the
admission has its own run; any invocation may still die anywhere. The other
vector stores and the single transaction are in `local_worker`.

Compliance. Five requests are the fewest in which two computations, a change
between them, an override and a reader meet. With one control the score is
that of its inputs, and two statuses make two scores and the unscored case.
Requests are symmetric.

Grounding. Callers of every role and of a second organization; chunks at every
level and one of the other organization. The lengths against a budget of 20
let prompts take no block cut, one cut, two whole ones, and drop one. An index
answer of four items is one more than was asked for and than the agents take
(`MaxTrusted`), and has room for a repetition, a chunk of the other
organization and one above the caller's clearance. Replies
have at most two findings of at most two labels, among them labels never shown
and a control that does not exist.

Session. Two pages' requests besides the bootstrap's and the sign-in's let
two answers cross. Two tokens, of two users and signed with the old and the new
key, let a session be replaced by the other user's and its token outlive or
await a rotation; three loads let a callback be opened again after a load
without it. A cooldown of two lets a fetch return within it, at its end and
after it, and the keys be fresh or stale by then. `MaxEpoch` stops only the
user's own steps.

Deadlock is checked in the Approval, Admission, Ingestion and Grounding runs.
In `compliance`, `shadowed` and `local_worker` every request may be over; in
`session` a tab may stay closed.

### Fairness

Approval. `FairSpec` is weakly fair to each process separately: Lambdas that
run take their next step, the schedule starts runs, time passes. It is not
fair to managers (nobody promises a decision), nor to faults. Faults are
finite (`MaxFaults`), which says that an outage ends; a recovery Lambda that
is killed or times out is one of them, so the liveness results assume that
from some time on runs finish within their two minutes. The steps of one
worker are one fairness condition, so a failing candidate does not get its
own; the order in which the loop takes candidates is the code's.

Admission. Weak fairness of each invocation's own steps and of time: a Lambda
that runs goes on or is killed, and clocks run. Nobody has to start.

Ingestion. The same for the pipeline, and for the delivery of events and the
end of executions, which EventBridge and Step Functions promise. Users are
under no obligation.

Grounding has no fairness and no liveness property: its calls are sequential
and its only loop is over a list.

Session. Requests are answered, verification steps are taken and the page
takes the answers. Users and the pool are under no obligation.

### Findings

- **Starvation** (`starvation`). The listing returns the 25 oldest undelivered
  decisions, nothing counts attempts out, and a row whose workflow no longer
  waits fails at each run and remains the oldest. As many such rows as the
  batch holds keep every newer decision from being tried, against
  `docs/THREAT_MODEL.md:149`. Rows get into that state when the creation Lambda
  fails after its commit, when the execution times out, and when the marker is
  lost after an accepted callback. The run `recovery`, whose batch holds
  both workflows and which allows one fault more, shows that this is the only
  obstacle within its bounds.
- **Uncertain outcome** (`uncertain`). The executor can commit and lose its
  answer; the execution then ends in `ApprovedActionExecutionFailed`, whose
  cause says the action "could not be executed", while the review is on
  record. `ExecutedMeansReviewed`, the other direction, holds.
- **Failures of the local worker** (`local_worker`). The service writes FAILED,
  announces it and raises; the local worker's single transaction is rolled back
  by that exception, so the status is lost although it was announced, against
  the comment at `backend/app/services/document_processing.py:109-110`. With
  pgvector it takes no fault: the vector store's session cannot see chunks that
  are not committed, so every local ingestion ends this way.
- **Shadowed override** (`shadowed`). `overridden_at` is the start of the
  transaction; overrides are serialized by a lock that is taken later. The
  override that commits last is then not the active one.
  `OverrideStands`, which excludes just this case, holds.

Met while modelling, without a run of their own (see the hazards in
`PROJECT.json`): the recovery sweep skips the remaining organizations when one
listing raises; candidate extraction does not look at the labels after those
it keeps; a 401 of an older token ends the session that replaced it; requests
with a rotated key that arrive during the fetch which will bring it are
rejected (`RejectionsAreJustified` allows this and bounds how long it lasts;
it does not exclude it); a failed local sign-in can leave a page loading.

## 4. What is proved

### Approval

All for every number of workflows, workers, managers and invocations and every
lease, timeout, batch size, poll limit and fault bound, from these assumptions:

- `FiniteAssumption`: there are finitely many workflows;
- `NullAssumption`, `TaskAssumption`: the null values are not members;
- `ActionAssumption`: a replacement is an action;
- `BoundAssumption`: the bounds are natural numbers;
- `LeaseAssumption`: the recovery Lambda's timeout is at most the lease. The
  deployed values are 2 minutes and 300 seconds.

**Types** (`ApprovalProofs`, theorem `TypeCorrect`). One lemma per group of
actions. `HeldOK` is carried along: a run that holds a claim holds it of a
workflow, without which `row[run[r].held]` has no type.

**Safety** (`ApprovalSafety`, theorem `Inductive`). None of the safety
invariants is inductive by itself. `WorkflowFollowsDecision` needs that the
worker about to resume the workflow carries the verdict on record; that holds
because it still owns the claim; and that holds because no other run may take
the claim, since a claim no older than its run is at most as old as the
timeout, hence at most as old as the lease. This is the conjunct
`HolderIsFresh`. The other auxiliary conjuncts say how a row's columns agree
with its status (`RowShape`), that the creation commits once
(`CreationOrder`), and that the task polls only while the state machine is in
it (`TaskOrder`).

The proof does not go action by action for each conjunct. `StepOfApproval`
shows that a step does one of six things to an approval (keeps it but for its
claim, creates, decides, delivers, executes or fails it), and `StepOfWorkflow`
that it does one of five things to a workflow. The conjuncts are then proved
by cases of those. `HeldRowStays` is the heart of it: nothing but a run's own
bookkeeping and the clock touches the row that run holds.

From the invariant follow `FollowsDecision`, `DeliveryIsTrue`,
`LeaseProtectsHolder`, `ReviewsAreAuthorised`, `AuditIsComplete`,
`SuccessIsTrue` and, as an action property, `TriggersPass`.

**Refinement** (`ApprovalRefinement`, theorem `Implements`). `OneAtATime`: no
step shows in two workflows. `GateStep`: at one workflow a step is a decision,
a resume, an action of the gate, or nothing; two at once are impossible because
the executor acts on a delivered row, whose workflow is already resumed, and
the worker resumes on a decided one.

`IInv` was checked by TLC on the instances of `safety` and `backlog` before it
was proved.

### Work admission (`AdmissionProofs`)

For any number of invocations, slots and debits, and any timeout below the
lease (`LeaseAssumption`; the code has 300 s and 600 s). `SlotIsKept` is not
inductive: that nobody else finds the slot free is a fact about two clocks.
`LeaseRuns` is the strengthening: the lease of a holder has exactly `Lease`
minus the holder's own age left, which the timeout keeps above zero, while
another invocation may take the slot only if what is left is not above the
negative of its own age. From it follow `RunningOwnsItsSlot` and, since working
invocations then own different slots (`HoldersDiffer`, `RoomForOne`),
`AdmissionRefinesSemaphore`.

### Ingestion (`IngestionProofs`)

For any number of documents, invocations and uploads, every vector store, and
both ways of committing unless said otherwise. Assumed are the constants'
kinds (`DocAssumption`, `ModeAssumption`, `ContentAssumption`) and what the
admission assumes. The module extends `AdmissionProofs` and carries its
invariant along, because a run of the pipeline is an admitted invocation.

`OneRunPerDocument` is not inductive: a second run could be past the claim
without having stored a chunk yet. The strengthening follows the claim.

- `OneClaim`: at most one run is past the claim of a document. A document
  leaves "queued" once, and only by its claim. In the local worker the table
  keeps saying "queued" until the run commits; there the claim is the lock of
  the uncommitted update, which a second claim waits for.
- `RunsFit`: the place of a run past its claim determines the status of the
  row it sees, the chunks it has stored and, where operations commit one by
  one, the vectors. Extracting comes without chunks, indexing with none or its
  own, the last step with all vectors.
- `RowsFit`: what a row says without any run. A document that nobody claimed
  has no chunks; one that is half-processed is reported, that is, some
  execution of it still runs without success, or its letter is in the queue or
  was lost; and, where operations commit one by one, what was announced is the
  row's final status.

`Goes` states what a step of the pipeline does to one run and its document, and
one lemma shows that whatever is such a step keeps the invariant; each action is
then shown to be one. The theorems are `IngestionInductive`, `IngestionTypes`,
`OneRunWrites`, `AbandonedAreReported` and `IngestionIsAdmitted` for both
workers. `EventsAreTrueWhenDeployed` and `DeployedImplementsLifecycle` have the
hypothesis `~OneTransaction`: the local worker announces before it commits (the
run `local_worker` shows what comes of it), and its statuses become visible
together, which skips steps of `DocumentLifecycle`.

### Compliance (`ComplianceProofs`)

For any number of concurrent requests (finitely many, `RequestAssumption`),
controls, pieces of evidence, statuses, weights and override scores. The
argument has three parts.

- Scores. `ScoreType` shows that the score of any controls with admissible
  weights lies between 0 and 100.00. It is a quotient of two sums over a set,
  which the community modules define recursively; the proof is an induction
  over the size of the set (below).
- The lock. Whoever is between its lock and its commit has `lock`, and what it
  knows is what is committed (`Fits`): at "works" its copy is the tables, at
  "commits" its copy follows from the tables in one of four ways (`Changes`,
  `Records`, `Overrides`, `Closes`). Nobody else commits in between, so this
  stays true, and each commit is one of those four steps.
- Numbers. Revisions are 1 to n for an n no larger than the requests that are
  over (`Numbered`), so `max + 1` is new; no two overrides begin at once
  (`Ordered`), so the latest is determined.

`ScoreIsCurrent` and `ConstraintsHold` are kept with these. `ReadsAgree`, the
action property `OverrideStands` and the refinement of `ScoreRegister`
(`Implements`) follow. A reader is not protected by a lock; `ReadersAgree`
rests on its last statement seeing at least the snapshots its second one saw,
and on overrides naming their snapshot.

### Grounding (`GroundingProofs`)

For all callers, chunks, controls, budgets and lengths. `ClaimsInOrder` says
what is claimed at which step: nothing before the model answered, and between
risk and review only estimates of the prompt the reviewer will build. From it
follow `ClaimsAreGrounded`, which needs only that labels are checked against the
number of blocks, and `ReviewerSeesTheEstimates`, which needs that the risk
agent and the reviewer use the same packing and take the same evidence.

`EvidenceStaysVisible` holds for every answer of the index, of any length.
`SuppressedVisible` goes over the items by induction: what the adapter keeps of
a prefix is visible to the caller, and one item more is kept only if both its
checks pass. The searches of a call join such results (`FoundTogether`), and
nothing else adds to what was found.

`PromptsFit`, `GroundingTypes` and `PassesAreGrounded` need to know what the
packing computes. `FillExists` shows that its recursive function exists,
`TakenFits` that one more chunk keeps the prompt within the budget and that the
first chunk is always shown, and `PackedFits` concludes by induction over the
chunks. The last part is what makes a pass grounded: a reviewer with any
evidence at all sees some of it, because a header is shorter than the budget
(`BudgetAssumption`; the defaults are 30 000 and 100 000 characters).
`Granted` adds the permissions: a workflow in process asks for both before it
begins, a deployed one is past its search only if the tool found
`document:read`.

### Session (`SessionProofs`)

For any users, tokens, sign-ins, loads and requests in flight (finitely many).
Four invariants, each kept on top of the first:

- `Inv`: work in flight began no later than the present epoch, of the bootstrap
  and the sign-in at most one is of the present one (`LiveWork`), its `/me`
  carries the token in use and in storage, and after a sign-out there is none
  (`OutIsOver`). `ProfileMatchesToken` and `SignOutIsFinal` follow.
- `CodesInv`: a code that was sent is of a sign-in whose transaction is no
  longer in storage, and transactions are numbered upwards. `CodesAreSentOnce`
  follows.
- `KeysInv`: the cache and every fetch in flight hold the old keys or nothing,
  and a forced fetch is as old as the cooldown is short: what is left of the
  cooldown plus the age of the fetch is at least the whole cooldown. So a
  forced fetch that comes back without the key finds the cooldown running, or
  has outlasted it. Nothing is assumed of how long a fetch takes; that ages are
  counted only to `CacheTime` needs the cooldown to be no longer
  (`TimeAssumption`: 30 s and 1 h). `RejectionsAreExplained` follows.
- `EpochsInv`: the epoch exceeds the last one in which the user acts by at most
  the number of idle requests, since only the answer of a request in flight
  moves it from there. With the others it gives `SessionTypes`.

### Induction

No library theorem that takes an operator can be used here, so induction is
stated over sets: `Upwards` says that a set of natural numbers with zero and
the successor of each member is all of them, and follows from the well-founded
order of the numbers (`NatLessThanWellFounded`, `WFMin`), which take none. The
sums of the score (`TotalsExist`, `TotalsCompare`) and the packing of a prompt
(`FillExists`, `PackedFits`) use it: first that the recursive function exists,
then what it is bounded by.

Every invariant above was checked by TLC on the instances of the runs before it
was proved.

### Only model-checked

- Liveness (`DecisionReachesWorkflow`, `ClaimsAreReleased`, `ExecutionEnds`,
  `CapacityReturns`, `UploadsAreSettled`, `LoadingEnds`): fairness
  and `ENABLED` are out of the prover's reach.
- The violated properties of the findings, which are shown by a counterexample.

Every invariant, action property and refinement that a passing run checks is
also a theorem.

## 5. Not modelled

- The sweep over organizations (`deployed_approval_callback_recovery_worker.py`):
  a sequential loop; its one hazard is listed.
- Evaluation runs, telemetry, scripts: sequential, without shared state.
- The text of prompts, extraction, chunking and minimization, the shape of
  JSON, similarity: data the properties do not tell apart.
- Row-level security and the privileges of database roles: enforced by
  PostgreSQL; the models work inside one organization or state the predicate.
- Request ids, size limits, error bodies, settings, resource declarations.
- In the browser: React's double mount in development, a browser that refuses
  storage, and the pages, which only display.
- Compliance: frameworks, the clearance projection and the pages of history.

## 6. Plan

1. The abstract specifications by themselves: what `HumanGate`,
   `DocumentLifecycle` and `ScoreRegister` promise, stated and proved once, so
   that it carries over along the refinements.
2. The steps of the liveness arguments that are safety: that a claim that is
   stale enough may be taken, that an execution's polls have a measure that
   goes down.
3. The hazards without a property: the sweep over organizations, and the
   sign-in that outdates a bootstrap.
