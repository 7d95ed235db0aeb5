------------------------------- MODULE Ingestion -------------------------------
(* Document ingestion: registration and upload over the API, the delivery of  *)
(* the upload to a worker, and the pipeline that extracts, chunks, embeds and *)
(* indexes a document. The worker is admitted by WorkAdmission, which this    *)
(* module extends; an invocation there is one execution of the pipeline here. *)
(*                                                                            *)
(* The deployed worker runs each database operation in a transaction of its   *)
(* own and is started by the object store's event; the local worker runs all  *)
(* of them in one transaction and is started by the API's event.              *)
EXTENDS WorkAdmission

CONSTANTS Doc,             \* documents
          NoDoc,           \* no document
          OneTransaction,  \* the local worker
          VectorStore,     \* "pgvector", "s3_vectors" or "memory"
          Content,         \* what uploads may contain
          MaxUploads       \* bound on the uploads of a document

ASSUME DocAssumption == NoDoc \notin Doc
ASSUME ModeAssumption == /\ OneTransaction \in BOOLEAN
                         /\ VectorStore \in {"pgvector", "s3_vectors", "memory"}
                         /\ MaxUploads \in Nat
\* Of the content, how its extraction ends.
ASSUME ContentAssumption == Content \subseteq {"good", "encrypted", "unreadable", "oversize"}

VARIABLES doc,         \* [Doc -> the row, with the runs that stored its chunks]
          body,        \* [Doc -> what the object store holds under its key]
          uploads,     \* [Doc -> how often the object was written]
          vectors,     \* [Doc -> how many of its chunks' vectors are stored]
          events,      \* [Doc -> events that wait for delivery]
          task,        \* [Work -> the run of the pipeline]
          execution,   \* [Work -> the Step Functions execution around it]
          letters,     \* the executions and documents in the dead-letter queue
          unreported,  \* those whose letter could not be sent
          announced    \* [Doc -> types of the domain events published for it]

documentVars == <<doc, body, uploads, vectors, events, task, execution, letters,
                  unreported, announced>>
vars == <<admissionVars, documentVars>>

Statuses == {"absent", "queued", "extracting", "indexing", "ready", "failed",
             "quarantined"}
\* Of the declared type, only whether the pipeline supports it.
Row == [status : Statuses, supported : BOOLEAN, chunks : SUBSET Work]
AbsentRow == [status |-> "absent", supported |-> TRUE, chunks |-> {}]

\* The places of process_document: each is before the remote call it is named for.
Places == {"claim", "load", "fetch", "quarantine", "fail", "index", "chunk", "embed",
           "upsert", "finish", "tell", "return", "raise"}
Task == [doc : Doc \cup {NoDoc}, at : Places \cup {"idle", "over"},
         own : Row, tell : {"none", "indexed", "failed", "quarantined"}]
NewTask == [doc |-> NoDoc, at |-> "idle", own |-> AbsentRow, tell |-> "none"]

TypeOK ==
    /\ AdmissionTypeOK
    /\ doc \in [Doc -> Row]
    /\ body \in [Doc -> Content \cup {"none"}]
    /\ uploads \in [Doc -> 0 .. MaxUploads]
    /\ vectors \in [Doc -> {"none", "some", "all"}]
    /\ events \in [Doc -> Nat]
    /\ task \in [Work -> Task]
    /\ execution \in [Work -> {"none", "running", "succeeded", "failed"}]
    /\ letters \subseteq Work \cup Doc
    /\ unreported \subseteq Work \cup Doc
    /\ announced \in [Doc -> SUBSET {"indexed", "failed", "quarantined"}]

Init ==
    /\ AdmissionInit
    /\ doc = [d \in Doc |-> AbsentRow]
    /\ body = [d \in Doc |-> "none"]
    /\ uploads = [d \in Doc |-> 0]
    /\ vectors = [d \in Doc |-> "none"]
    /\ events = [d \in Doc |-> 0]
    /\ task = [w \in Work |-> NewTask]
    /\ execution = [w \in Work |-> "none"]
    /\ letters = {}
    /\ unreported = {}
    /\ announced = [d \in Doc |-> {}]

------------------------------------------------------------------------------
(* The API and the object store                                               *)

RegisterUpload(d, supported) ==
    /\ doc[d].status = "absent"
    /\ doc' = [doc EXCEPT ![d] = [AbsentRow EXCEPT !.status = "queued",
                                                   !.supported = supported]]
    /\ UNCHANGED <<admissionVars, body, uploads, vectors, events, task, execution,
                   letters, unreported, announced>>

\* The presigned URL can be used again while it is valid, whatever became of
\* the document since. The store's event starts the deployed worker.
Upload(d, content) ==
    /\ doc[d].status # "absent"
    /\ uploads[d] < MaxUploads
    /\ body' = [body EXCEPT ![d] = content]
    /\ uploads' = [uploads EXCEPT ![d] = @ + 1]
    /\ events' = [events EXCEPT ![d] = IF OneTransaction THEN @ ELSE @ + 1]
    /\ UNCHANGED <<admissionVars, doc, vectors, task, execution, letters, unreported, announced>>

\* The event of a completed upload starts the local worker; nothing listens to
\* it in the deployed system. The bound is on the events that wait.
CompleteUpload(d) ==
    /\ doc[d].status = "queued"
    /\ body[d] \notin {"none", "oversize"}
    /\ events[d] < MaxUploads
    /\ events' = [events EXCEPT ![d] = IF OneTransaction THEN @ + 1 ELSE @]
    /\ UNCHANGED <<admissionVars, doc, body, uploads, vectors, task, execution, letters,
                   unreported, announced>>

------------------------------------------------------------------------------
(* Delivery and the execution around the worker                               *)

\* A mutation: delivery of an event that is not there.
DeliverUnasked(d, w, again) ==
    /\ doc[d].status # "absent"
    /\ Start(w)
    /\ events' = [events EXCEPT ![d] = IF again THEN @ ELSE @ - 1]
    /\ task' = [task EXCEPT ![w].doc = d]
    /\ execution' = [execution EXCEPT ![w] = "running"]
    /\ UNCHANGED <<doc, body, uploads, vectors, letters, unreported, announced>>

\* At least once: a delivered event may be delivered again.
Deliver(d, w, again) ==
    /\ events[d] > 0
    /\ Start(w)
    /\ events' = [events EXCEPT ![d] = IF again THEN @ ELSE @ - 1]
    /\ task' = [task EXCEPT ![w].doc = d]
    /\ execution' = [execution EXCEPT ![w] = "running"]
    /\ UNCHANGED <<doc, body, uploads, vectors, letters, unreported, announced>>

\* The letter about x is sent, or lost.
Report(x) ==
    \/ letters' = letters \cup {x} /\ UNCHANGED unreported
    \/ unreported' = unreported \cup {x} /\ UNCHANGED letters

\* A mutation: a rule target without a dead-letter queue.
DeliveryFailsSilently(d) ==
    /\ ~OneTransaction
    /\ events[d] > 0
    /\ events' = [events EXCEPT ![d] = @ - 1]
    /\ UNCHANGED <<admissionVars, doc, body, uploads, vectors, task, execution,
                   letters, unreported, announced>>

\* The retries of the target, or those of the throttled Lambda, run out; the
\* rule's own letter about the event may be lost as well.
DeliveryFails(d) ==
    /\ ~OneTransaction
    /\ events[d] > 0
    /\ events' = [events EXCEPT ![d] = @ - 1]
    /\ Report(d)
    /\ UNCHANGED <<admissionVars, doc, body, uploads, vectors, task, execution, announced>>

\* A mutation: the catch names the errors of the handler, not a dead Lambda.
EndExecutionNarrow(w) ==
    /\ execution[w] = "running" /\ call[w].phase = "ended"
    /\ IF call[w].outcome = "ok"
       THEN /\ execution' = [execution EXCEPT ![w] = "succeeded"]
            /\ UNCHANGED <<letters, unreported>>
       ELSE /\ execution' = [execution EXCEPT ![w] = "failed"]
            /\ letters' = IF call[w].outcome = "dead" THEN letters ELSE letters \cup {w}
            /\ UNCHANGED unreported
    /\ UNCHANGED <<admissionVars, doc, body, uploads, vectors, events, task, announced>>

\* The state machine's catch: a letter for whatever went wrong, then Fail.
EndExecution(w) ==
    /\ execution[w] = "running" /\ call[w].phase = "ended"
    /\ IF call[w].outcome = "ok"
       THEN /\ execution' = [execution EXCEPT ![w] = "succeeded"]
            /\ UNCHANGED <<letters, unreported>>
       ELSE /\ execution' = [execution EXCEPT ![w] = "failed"]
            /\ Report(w)
    /\ UNCHANGED <<admissionVars, doc, body, uploads, vectors, events, task, announced>>

------------------------------------------------------------------------------
(* Database operations of the pipeline                                        *)

\* The row as the run sees it.
Seen(w) == IF OneTransaction THEN task[w].own ELSE doc[task[w].doc]

\* An operation of the run writes the row `r` and goes on at `next`: in a
\* transaction of its own, or in the run's.
Write(w, r, next) ==
    IF OneTransaction
    THEN /\ task' = [task EXCEPT ![w] = [@ EXCEPT !.own = r, !.at = next]]
         /\ UNCHANGED doc
    ELSE /\ doc' = [doc EXCEPT ![task[w].doc] = r]
         /\ task' = [task EXCEPT ![w].at = next]

GoTo(w, next) == task' = [task EXCEPT ![w].at = next] /\ UNCHANGED doc

\* The run is at `place`, and its next step changes the row and the run, and
\* perhaps its vectors or its events.
Outside == <<admissionVars, body, uploads, events, execution, letters, unreported>>
AtPlace(w, place) ==
    /\ call[w].phase = "working"
    /\ task[w].at = place
    /\ UNCHANGED Outside
At(w, place) == AtPlace(w, place) /\ UNCHANGED <<vectors, announced>>

\* The pipeline begins when the invocation is admitted.
Begin(w) ==
    /\ At(w, "idle")
    /\ GoTo(w, "claim")

\* In one transaction the claimed row stays locked until the run ends; the
\* UPDATE of another run waits, and then sees what was committed.
RowIsLocked(w) ==
    /\ OneTransaction
    /\ \E v \in Work \ {w} : /\ task[v].doc = task[w].doc
                             /\ task[v].own.status # doc[task[v].doc].status
                             /\ task[v].at \notin {"idle", "claim", "over"}

\* A mutation: the claim does not look at the status.
ClaimableAlways(r) == r.status # "absent"

\* WHERE processing_status = QUEUED
Claimable(r) == r.status = "queued"

ClaimForProcessing(w) ==
    /\ At(w, "claim")
    /\ ~RowIsLocked(w)
    /\ LET r == doc[task[w].doc] IN
       IF Claimable(r)
       THEN Write(w, [r EXCEPT !.status = "extracting"], "load")
       ELSE GoTo(w, "raise")

\* get_document, and the test of the declared type.
LoadDocument(w) ==
    /\ At(w, "load")
    /\ GoTo(w, IF Seen(w).supported THEN "fetch" ELSE "quarantine")

\* Where a fetched body leads.
AfterFetch == [good |-> "index", encrypted |-> "quarantine", unreadable |-> "fail",
               oversize |-> "fail"]

FetchBody(w) ==
    /\ At(w, "fetch")
    /\ body[task[w].doc] # "none"
    /\ GoTo(w, AfterFetch[body[task[w].doc]])

\* The store fails, which is caught, or reports the object missing or anything
\* else, which is not.
FetchFails(w) ==
    /\ At(w, "fetch")
    /\ \/ GoTo(w, "fail")
       \/ GoTo(w, "raise")

\* A mutation: quarantined documents are recorded as failed.
SetAtSwapped == [quarantine |-> "failed", fail |-> "failed", index |-> "indexing",
                 finish |-> "ready"]
\* A mutation: the document is ready before its chunks are stored.
SetAtEarly == [quarantine |-> "quarantined", fail |-> "failed", index |-> "ready",
               finish |-> "ready"]

\* The status the run sets at a place, and what it publishes next.
SetAt == [quarantine |-> "quarantined", fail |-> "failed", index |-> "indexing",
          finish |-> "ready"]
TellAt == [quarantine |-> "quarantined", fail |-> "failed", index |-> "none",
           finish |-> "indexed"]

SetStatus(w) ==
    \E place \in DOMAIN SetAt :
        /\ At(w, place)
        /\ LET r == [Seen(w) EXCEPT !.status = SetAt[place]]
               next == IF place = "index" THEN "chunk" ELSE "tell"
               t == [task[w] EXCEPT !.at = next, !.tell = TellAt[place]] IN
           IF OneTransaction
           THEN task' = [task EXCEPT ![w] = [t EXCEPT !.own = r]] /\ UNCHANGED doc
           ELSE /\ task' = [task EXCEPT ![w] = t]
                /\ doc' = [doc EXCEPT ![task[w].doc] = r]

AddChunks(w) ==
    /\ At(w, "chunk")
    /\ Write(w, [Seen(w) EXCEPT !.chunks = @ \cup {w}], "embed")

Embed(w) == At(w, "embed") /\ GoTo(w, "upsert")
EmbedFails(w) == At(w, "embed") /\ GoTo(w, "fail")

\* A database operation raises, done or undone. Nothing catches that: the
\* exception leaves the service.
DatabaseFails(w) ==
    \E place \in {"claim", "load", "chunk"} \cup DOMAIN SetAt :
        /\ At(w, place)
        /\ \/ GoTo(w, "raise")
           \/ /\ place \in DOMAIN SetAt
              /\ Write(w, [Seen(w) EXCEPT !.status = SetAt[place]], "raise")
           \/ /\ place = "chunk"
              /\ Write(w, [Seen(w) EXCEPT !.chunks = @ \cup {w}], "raise")
           \/ /\ place = "claim" /\ ~RowIsLocked(w)
              /\ Claimable(doc[task[w].doc])
              /\ Write(w, [doc[task[w].doc] EXCEPT !.status = "extracting"], "raise")

------------------------------------------------------------------------------
(* Vectors, events and the end of the run                                     *)

\* pgvector updates the chunk rows, in a session of its own: it finds those that
\* are committed. The other stores take the vectors as they are.
AllUpserted(w) == VectorStore = "pgvector" => w \in doc[task[w].doc].chunks

Upsert(w) ==
    /\ AtPlace(w, "upsert")
    /\ UNCHANGED announced
    /\ IF AllUpserted(w)
       THEN /\ vectors' = [vectors EXCEPT ![task[w].doc] = "all"]
            /\ GoTo(w, "finish")
       ELSE UNCHANGED vectors /\ GoTo(w, "fail")

\* The store raises, done or undone; S3 Vectors takes the records in batches.
UpsertFails(w) ==
    /\ AtPlace(w, "upsert")
    /\ UNCHANGED announced
    /\ \E v \in {vectors[task[w].doc]}
             \cup {x \in {"all"} : AllUpserted(w)}
             \cup {x \in {"some"} : VectorStore = "s3_vectors"} :
          vectors' = [vectors EXCEPT ![task[w].doc] = v]
    /\ GoTo(w, "fail")

\* publish() never raises: an event that cannot be sent is only logged.
Publish(w) ==
    /\ AtPlace(w, "tell")
    /\ UNCHANGED vectors
    /\ \/ announced' = [announced EXCEPT ![task[w].doc] = @ \cup {task[w].tell}]
       \/ UNCHANGED announced
    /\ GoTo(w, IF task[w].tell = "failed" THEN "raise" ELSE "return")

Over(w) == [NewTask EXCEPT !.doc = task[w].doc, !.at = "over"]

\* A session that is open commits; that may raise, done or undone.
Return(w) ==
    /\ task[w].at = "return"
    /\ IF OneTransaction
       THEN \/ /\ doc' = [doc EXCEPT ![task[w].doc] = Seen(w)]
               /\ \E outcome \in {"ok", "error"} : FinishWork(w, outcome)
            \/ UNCHANGED doc /\ FinishWork(w, "error")
       ELSE UNCHANGED doc /\ FinishWork(w, "ok")
    /\ task' = [task EXCEPT ![w] = Over(w)]
    /\ UNCHANGED <<body, uploads, vectors, events, execution, letters, unreported,
                   announced>>

\* The exception leaves the handler; a session that is open rolls back.
Raise(w) ==
    /\ task[w].at = "raise"
    /\ FinishWork(w, "error")
    /\ task' = [task EXCEPT ![w] = Over(w)]
    /\ UNCHANGED <<doc, body, uploads, vectors, events, execution, letters,
                   unreported, announced>>

\* The Lambda is killed wherever it is; an open transaction rolls back.
WorkerDies(w) ==
    /\ Dies(w)
    /\ task' = [task EXCEPT ![w] = Over(w)]
    /\ UNCHANGED <<doc, body, uploads, vectors, events, execution, letters,
                   unreported, announced>>

------------------------------------------------------------------------------
(* Specification                                                              *)

ApiStep(d) ==
    \/ \E supported \in BOOLEAN : RegisterUpload(d, supported)
    \/ \E content \in Content : Upload(d, content)
    \/ CompleteUpload(d)

PipelineStep(w) ==
    \/ Begin(w) \/ ClaimForProcessing(w) \/ LoadDocument(w) \/ FetchBody(w)
    \/ SetStatus(w) \/ AddChunks(w) \/ Embed(w) \/ Upsert(w) \/ Publish(w)
    \/ Return(w) \/ Raise(w)

PipelineFault(w) ==
    \/ FetchFails(w) \/ DatabaseFails(w) \/ EmbedFails(w) \/ UpsertFails(w)
    \/ WorkerDies(w)

\* Admission and time leave the documents alone.
AdmissionOnly ==
    /\ \/ \E w \in Work : AdmissionStep(w)
       \/ \E k \in Slots : TimeToLive(k)
       \/ Tick
    /\ UNCHANGED documentVars

Steps ==
    \/ \E d \in Doc : ApiStep(d) \/ \E w \in Work, again \in BOOLEAN : Deliver(d, w, again)
    \/ \E w \in Work : PipelineStep(w) \/ EndExecution(w)
    \/ AdmissionOnly

Faults ==
    \/ \E d \in Doc : DeliveryFails(d)
    \/ \E w \in Work : PipelineFault(w)
    \/ \E w \in Work : /\ AcquireFails(w) \/ DebitFails(w) \/ ReleaseFails(w)
                      /\ UNCHANGED documentVars

IngestionNext == Steps \/ Faults

IngestionSpec == Init /\ [][IngestionNext]_vars

\* Nothing fails but what must.
FaultlessSpec == Init /\ [][Steps]_vars

Delivered(d) == \E w \in Work : Deliver(d, w, FALSE)

\* Events are delivered while invocations remain (Work is the model's bound),
\* a worker that runs takes its next step, its execution ends with it, and time
\* passes. Uploads are up to the user, and so is a second upload.
IngestionFairSpec ==
    /\ IngestionSpec
    /\ \A d \in Doc : WF_vars(Delivered(d))
    /\ \A w \in Work :
          /\ WF_vars(PipelineStep(w) \/ (AdmissionStep(w) /\ UNCHANGED documentVars))
          /\ WF_vars(EndExecution(w))
    /\ WF_vars(Tick /\ UNCHANGED documentVars)

------------------------------------------------------------------------------
(* Properties                                                                 *)

\* The documents all of whose chunks can be found by a search.
Searchable == {d \in Doc : doc[d].chunks # {} /\ vectors[d] = "all"}

\* The deployed pipeline follows the life cycle: a document is claimed once
\* however often its event arrives or its object is written again, its final
\* statuses are final, and it is READY only when its chunks and all of their
\* vectors are stored.
Lifecycle == INSTANCE DocumentLifecycle WITH
    status <- [d \in Doc |-> doc[d].status], indexed <- Searchable
ImplementsLifecycle == Lifecycle!Spec

\* At most one run ever writes chunks for a document, and no two runs are past
\* the claim of one document: no chunk is stored twice.
OneRunPerDocument ==
    \A d \in Doc :
        /\ \A v, w \in doc[d].chunks : v = w
        /\ \A v, w \in {x \in Work : task[x].doc = d /\
                                   task[x].at \notin {"idle", "claim", "raise", "over"}} :
              v = w

\* What was announced of a document is what its row says, from then on.
AnnouncedAs == [indexed |-> "ready", failed |-> "failed", quarantined |-> "quarantined"]
EventsAreTrue ==
    \A d \in Doc : \A t \in announced[d] : doc[d].status = AnnouncedAs[t]

\* A document that is left half-processed (nothing takes it up again) has its
\* execution in the dead-letter queue, unless the letter itself was lost.
AbandonedIsReported ==
    \A d \in Doc :
        doc[d].status \in {"extracting", "indexing"} =>
            \E w \in Work :
                /\ task[w].doc = d
                /\ execution[w] = "running" \/ w \in letters \cup unreported

\* Whatever is uploaded comes to something: the document gets a final status, or
\* a letter was written to say that its event or an execution of it failed. As
\* the queue may refuse the letter, one that was lost counts.
Settled(d) ==
    \/ doc[d].status \in {"ready", "failed", "quarantined"}
    \/ d \in letters \cup unreported
    \/ \E w \in Work : task[w].doc = d /\ w \in letters \cup unreported
UploadsAreSettled == \A d \in Doc : (events[d] > 0) ~> Settled(d)

\* A failure of the store or of a provider that was caught and announced is on
\* record in the row when its run is over.
FailureIsRecorded ==
    \A d \in Doc :
        /\ "failed" \in announced[d]
        /\ \A w \in Work : task[w].doc = d => task[w].at = "over"
        => doc[d].status = "failed"
================================================================================
