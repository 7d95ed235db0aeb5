------------------------------- MODULE Compliance -------------------------------
(* One compliance assessment under concurrent requests: control updates,       *)
(* admitted evidence, score computations, overrides, finalization and reads.   *)
(*                                                                             *)
(* A request is one transaction, READ COMMITTED, over one ORM session. Writers *)
(* lock the assessment's row FOR UPDATE and keep it to the end; what they      *)
(* write is seen when they commit. Readers take no lock and run several        *)
(* statements, each of which sees what is committed by then.                   *)
EXTENDS ComplianceScoring

CONSTANTS Request,       \* requests, each of which runs once
          NoOne,         \* nobody holds the lock
          Control,       \* the controls of the framework
          Evidence,      \* documents and chunks that may be attached
          NewStatuses,   \* statuses the requests may set
          NewWeights,    \* weights they may set, in hundredths
          OverrideScores \* scores the overrides may set

ASSUME RequestAssumption == IsFiniteSet(Request)
ASSUME NoOneAssumption == NoOne \notin Request
ASSUME ControlAssumption == IsFiniteSet(Control) /\ Control # {}
ASSUME InputAssumption == /\ NewStatuses \subseteq ControlStatuses
                          /\ NewWeights \subseteq Nat
                          /\ OverrideScores \subseteq 0 .. Hundred

VARIABLES db,        \* the tables, as committed
          lock,      \* the request that holds the assessment's row
          request,   \* [Request -> its transaction]
          clock      \* how many overriding transactions have begun

vars == <<db, lock, request, clock>>

Unchanged == "unchanged"

\* A scored assessment carries the version of the engine; `result` is its
\* overall score with the classification.
Assessment == [status : {"absent", "draft", "in_progress", "completed"},
               scored : BOOLEAN, result : [score : -1 .. Hundred, class : Classifications]]
ControlRow == [status : ControlStatuses, weight : Nat, evidence : SUBSET Evidence]

AbsentAssessment == [status |-> "absent", scored |-> FALSE, result |-> NotScored]
DefaultControl == [status |-> "unassessed", weight |-> 30, evidence |-> {}]

EmptyDb == [assessment |-> AbsentAssessment,
            control    |-> [c \in Control |-> DefaultControl],
            snapshots  |-> {},
            overrides  |-> {}]

Kinds == {"update", "admit", "compute", "override", "finalize", "read"}
NoArgument == [control |-> CHOOSE c \in Control : TRUE, status |-> Unchanged,
               weight |-> 0, evidence |-> {}, score |-> 0]

\* What a request of each kind carries; weight 0 and Unchanged leave a column alone.
Arguments(kind) ==
    CASE kind = "update" -> [control : Control, status : NewStatuses \cup {Unchanged},
                             weight : NewWeights \cup {0}, evidence : {{}}, score : {0}]
      [] kind = "admit" -> [control : Control, status : {Unchanged}, weight : {0},
                            evidence : {{e} : e \in Evidence}, score : {0}]
      [] kind = "override" -> {[NoArgument EXCEPT !.score = s] : s \in OverrideScores}
      [] OTHER -> {NoArgument}

NoAnswer == [result |-> NotScored, override |-> {}]
NewRequest == [kind |-> "read", at |-> "new", argument |-> NoArgument, began |-> 0,
               own |-> EmptyDb, answer |-> NoAnswer]

Init ==
    /\ db = EmptyDb
    /\ lock = NoOne
    /\ request = [r \in Request |-> NewRequest]
    /\ clock = 0

------------------------------------------------------------------------------
(* Snapshots, overrides and freshness                                         *)

Latest(snapshots) == {s \in snapshots : \A t \in snapshots : t.revision <= s.revision}

\* A mutation: the first override wins.
LatestOverrideReversed(overrides) == {o \in overrides : \A p \in overrides : o.began <= p.began}

\* The order of overridden_at, which is the start of the transaction.
LatestOverride(overrides) == {o \in overrides : \A p \in overrides : p.began <= o.began}

\* A mutation: the reader trusts the assessment's row.
MatchesAlways(assessment, s) == assessment.scored

\* The assessment carries what the latest snapshot computed.
Matches(assessment, s) == assessment.scored /\ assessment.result = s.result

\* A mutation: revisions are counted from zero.
NextRevisionFromZero(snapshots) == Cardinality(snapshots)

\* max + 1
NextRevision(snapshots) ==
    IF snapshots = {} THEN 1 ELSE Max({s.revision : s \in snapshots}) + 1

\* A mutation: only a status or a weight makes the score stale, not a touch.
InvalidatedLater(assessment) ==
    [assessment EXCEPT !.status = IF @ = "draft" THEN "in_progress" ELSE @]

\* Any change of an input clears the score.
Invalidated(assessment) ==
    [assessment EXCEPT !.status = IF @ = "draft" THEN "in_progress" ELSE @,
                       !.scored = FALSE, !.result = NotScored]

\* A mutation: a completed assessment takes evidence.
OpenForAll(assessment) == assessment.status # "absent"

\* Completed assessments are not modified, recomputed or finalized again.
OpenForChange(assessment) == assessment.status \notin {"absent", "completed"}

------------------------------------------------------------------------------
(* Transactions                                                               *)

NewAssessment == [db EXCEPT !.assessment.status = "draft"]

CreateAssessment ==
    /\ db.assessment.status = "absent"
    /\ db' = NewAssessment
    /\ UNCHANGED <<lock, request, clock>>

\* set_config, the first statement of a tenant's session, fixes now(), which
\* only an override records.
Begin(r) ==
    /\ request[r].at = "new"
    /\ \E kind \in Kinds : \E argument \in Arguments(kind) :
          LET now == IF kind = "override" THEN clock + 1 ELSE clock IN
          /\ request' = [request EXCEPT ![r] =
                [@ EXCEPT !.kind = kind, !.argument = argument,
                          !.began = IF kind = "override" THEN now ELSE 0,
                          !.at = IF kind = "read" THEN "reads" ELSE "locks"]]
          /\ clock' = now
    /\ UNCHANGED <<db, lock>>

\* A mutation: the row is read without FOR UPDATE.
LockIgnored == TRUE

LockIsFree == lock = NoOne

\* lock_assessment. The row is read as the last transaction committed it. An
\* update and an admission read the control first, to know what to lock; the
\* session's identity map is weak, so they load it again under the lock.
LockAssessment(r) ==
    /\ request[r].at = "locks"
    /\ LockIsFree
    /\ lock' = r
    /\ request' = [request EXCEPT ![r] = [@ EXCEPT !.own = db, !.at = "works"]]
    /\ UNCHANGED <<db, clock>>

Works(r, kind) == request[r].at = "works" /\ request[r].kind = kind

\* The transaction has written `own` and goes on to its commit.
Writes(r, own) ==
    /\ request' = [request EXCEPT ![r] = [@ EXCEPT !.own = own, !.at = "commits"]]
    /\ UNCHANGED <<db, lock, clock>>

\* The transaction is over; nothing needs to be known of it but its answer.
Ended(r, answer) ==
    [request EXCEPT ![r] = [NewRequest EXCEPT !.at = "ended", !.answer = answer]]

\* An exception anywhere before the commit, the service's own refusals and the
\* database's failures alike: the transaction rolls back.
Rollback(r) ==
    /\ request[r].at \in {"reads", "reads_snapshot", "reads_override", "locks", "works", "commits"}
    /\ lock' = IF lock = r THEN NoOne ELSE lock
    /\ request' = Ended(r, NoAnswer)
    /\ UNCHANGED <<db, clock>>

\* The commit, whether or not its acknowledgement arrives. Rows that were
\* inserted join those that are there.
Commit(r) ==
    /\ request[r].at = "commits"
    /\ db' = [request[r].own EXCEPT !.snapshots = @ \cup db.snapshots,
                                    !.overrides = @ \cup db.overrides]
    /\ lock' = IF lock = r THEN NoOne ELSE lock
    /\ request' = Ended(r, NoAnswer)
    /\ UNCHANGED clock

------------------------------------------------------------------------------
(* The bodies of the writing requests                                         *)

\* A request's weight lies in the same bounds, before its column rounds it.
Requested(weight) == weight >= 100 /\ weight <= 500

\* A column the request does not name keeps its value.
Revised(row, a) ==
    [row EXCEPT !.status = IF a.status = Unchanged THEN @ ELSE a.status,
                !.weight = IF a.weight = 0 THEN @ ELSE RoundHalfUp(a.weight, 10)]

\* What the repository writes, each with the assessment's stale score cleared
\* where an input of the score changes.
WithControl(own, a) ==
    [own EXCEPT !.assessment = Invalidated(@),
                !.control[a.control] = Revised(@, a)]

WithEvidence(own, a) ==
    [own EXCEPT !.assessment = Invalidated(@),
                !.control[a.control].evidence = @ \cup a.evidence]

WithSnapshot(own, snapshot) ==
    [own EXCEPT !.assessment = [@ EXCEPT !.scored = TRUE, !.result = snapshot.result],
                !.snapshots = @ \cup {snapshot}]

WithOverride(own, override) == [own EXCEPT !.overrides = @ \cup {override}]

Completed(own) == [own EXCEPT !.assessment.status = "completed"]

UpdateControlAssessment(r) ==
    LET own == request[r].own
        a == request[r].argument IN
    /\ Works(r, "update")
    /\ OpenForChange(own.assessment)
    /\ a.weight = 0 \/ Requested(a.weight)
    /\ Writes(r, WithControl(own, a))

\* A reference that is attached already is refused.
AdmitEvidence(r) ==
    LET own == request[r].own
        a == request[r].argument IN
    /\ Works(r, "admit")
    /\ OpenForChange(own.assessment)
    /\ a.evidence \cap own.control[a.control].evidence = {}
    /\ Writes(r, WithEvidence(own, a))

ComputeScore(r) ==
    LET own == request[r].own
        snapshot == [revision |-> NextRevision(own.snapshots), inputs |-> own.control,
                     result |-> Score(own.control), by |-> r] IN
    /\ Works(r, "compute")
    /\ OpenForChange(own.assessment)
    /\ Writes(r, WithSnapshot(own, snapshot))

\* A completed assessment may still be overridden.
CreateScoreOverride(r) ==
    LET own == request[r].own IN
    /\ Works(r, "override")
    /\ own.assessment.status # "absent"
    /\ \E s \in Latest(own.snapshots) :
          /\ Matches(own.assessment, s)
          /\ s.result # NotScored
          /\ Writes(r, WithOverride(own,
                [by |-> r, began |-> request[r].began, snapshot |-> s.by,
                 revision |-> s.revision, original |-> s.result,
                 result |-> [score |-> request[r].argument.score,
                             class |-> Classify(request[r].argument.score)]]))

FinalizeAssessment(r) ==
    LET own == request[r].own IN
    /\ Works(r, "finalize")
    /\ OpenForChange(own.assessment)
    /\ \E s \in Latest(own.snapshots) : Matches(own.assessment, s)
    /\ Writes(r, Completed(own))

------------------------------------------------------------------------------
(* Reads                                                                      *)

\* A read that ends with assessment `a` and overrides `o`.
Answers(r, a, o) == request' = Ended(r, [result |-> a.result, override |-> o])

\* get_assessment reads the assessment, then its latest snapshot, then its
\* latest override.
ReadAssessment(r) ==
    /\ request[r].at = "reads" /\ request[r].kind = "read"
    /\ db.assessment.status # "absent"
    /\ IF db.assessment.scored
       THEN request' = [request EXCEPT ![r] =
                [@ EXCEPT !.own.assessment = db.assessment, !.at = "reads_snapshot"]]
       ELSE Answers(r, db.assessment, {})
    /\ UNCHANGED <<db, lock, clock>>

ReadLatestSnapshot(r) ==
    LET a == request[r].own.assessment
        matching == {s \in Latest(db.snapshots) : Matches(a, s)} IN
    /\ request[r].at = "reads_snapshot"
    /\ IF matching = {} THEN Answers(r, a, {})
       ELSE request' = [request EXCEPT ![r] =
                [@ EXCEPT !.own.snapshots = matching, !.at = "reads_override"]]
    /\ UNCHANGED <<db, lock, clock>>

ReadLatestOverride(r) ==
    LET own == request[r].own IN
    /\ request[r].at = "reads_override"
    /\ Answers(r, own.assessment,
               {o \in LatestOverride(db.overrides) :
                   \E s \in own.snapshots : o.snapshot = s.by /\ o.revision = s.revision})
    /\ UNCHANGED <<db, lock, clock>>

------------------------------------------------------------------------------
(* Specification                                                              *)

Body(r) ==
    \/ UpdateControlAssessment(r) \/ AdmitEvidence(r) \/ ComputeScore(r)
    \/ CreateScoreOverride(r) \/ FinalizeAssessment(r)

Reads(r) == ReadAssessment(r) \/ ReadLatestSnapshot(r) \/ ReadLatestOverride(r)

Next ==
    \/ CreateAssessment
    \/ \E r \in Request :
          \/ Begin(r) \/ LockAssessment(r) \/ Body(r) \/ Reads(r)
          \/ Rollback(r) \/ Commit(r)

Spec == Init /\ [][Next]_vars

------------------------------------------------------------------------------
(* Properties                                                                 *)

Snapshot == [revision : 1 .. Cardinality(Request), inputs : [Control -> ControlRow],
             result : [score : -1 .. Hundred, class : Classifications], by : Request]

ComplianceTypeOK ==
    /\ db.assessment \in Assessment
    /\ db.control \in [Control -> ControlRow]
    /\ db.snapshots \subseteq Snapshot
    /\ \A o \in db.overrides : o.by \in Request /\ o.result.score \in 0 .. Hundred
    /\ lock \in Request \cup {NoOne}
    /\ clock \in 0 .. Cardinality(Request)

\* A score the assessment shows is the score of its controls as they are and
\* the last one on record, however updates and computations interleave.
ScoreIsCurrent ==
    db.assessment.scored =>
        /\ db.assessment.result = Score(db.control)
        /\ \E s \in Latest(db.snapshots) : s.inputs = db.control /\ Matches(db.assessment, s)

\* No commit would hit the constraints on revisions and on the snapshots that
\* overrides refer to: max + 1 is never allocated twice.
ConstraintsHold ==
    /\ \A s, t \in db.snapshots : s.revision = t.revision => s = t
    /\ \A o \in db.overrides : \E s \in db.snapshots :
          o.snapshot = s.by /\ o.revision = s.revision /\ o.original = s.result

\* The transactions implement the register: every commit is one of its steps.
Register == INSTANCE ScoreRegister WITH
    Inputs <- [Control -> ControlRow], Result <- Score,
    inputs <- db.control,
    revisions <- {[revision |-> s.revision, inputs |-> s.inputs, result |-> s.result] :
                    s \in db.snapshots},
    current <- db.assessment.scored,
    overridden <- {o.revision : o \in db.overrides},
    closed <- db.assessment.status = "completed"
ImplementsRegister == Register!Spec

\* An override a reader is shown overrides the very score it is shown with,
\* although the two were read by different statements.
ReadsAgree ==
    \A r \in Request : \A o \in request[r].answer.override :
        o.original = request[r].answer.result

\* The override a reader who began now would be shown.
ActiveOverride ==
    {o \in LatestOverride(db.overrides) : \E s \in Latest(db.snapshots) :
        Matches(db.assessment, s) /\ o.snapshot = s.by /\ o.revision = s.revision}

\* An override that commits is in force, unless one whose transaction began
\* later was there before it.
OverrideStands ==
    [][\A o \in db'.overrides \ db.overrides :
          \/ ActiveOverride' = {o}
          \/ \E p \in db.overrides : p.began > o.began]_vars

\* An override that commits is in force at once.
OverrideIsActive ==
    [][\A o \in db'.overrides \ db.overrides : ActiveOverride' = {o}]_vars
================================================================================
