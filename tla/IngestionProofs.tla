--------------------------- MODULE IngestionProofs ---------------------------
(***************************************************************************)
(* Ingestion for any number of documents, invocations and uploads, for the *)
(* deployed worker and the local one.  The argument follows the claim of a *)
(* document: it is taken once, from "queued", and from then on one run     *)
(* alone writes the row, so the place of that run determines the status,   *)
(* the chunks and, where operations commit one by one, the vectors.        *)
(***************************************************************************)
EXTENDS Ingestion, AdmissionProofs

-----------------------------------------------------------------------------
(* The inductive invariant.                                                *)

\* The places past the claim, and the statuses before and after the pipeline's.
Past == {"load", "fetch", "quarantine", "fail", "index", "chunk", "embed", "upsert",
         "finish", "tell", "return"}
Fresh == {"absent", "queued"}
Half == {"extracting", "indexing"}
Final == {"ready", "failed", "quarantined"}

\* The row that a run whose task is `t` sees where the table has `r`.
SeenBy(t, r) == IF OneTransaction THEN t.own ELSE r

\* What the place of the run `w` says of the row it sees.
PlaceFits(w, t, s) ==
    /\ t.at \in {"load", "fetch", "quarantine", "index"} => s.status = "extracting"
    /\ t.at \in {"chunk", "embed", "upsert", "finish"} => s.status = "indexing"
    /\ t.at = "fail" => s.status \in Half
    /\ t.at \in {"tell", "return"} => t.tell # "none" /\ s.status = AnnouncedAs[t.tell]
    /\ t.at \in {"load", "fetch", "quarantine", "index", "chunk"} => s.chunks = {}
    /\ t.at \in {"embed", "upsert", "finish"} => s.chunks = {w}
    /\ s.chunks \subseteq {w}

\* What it says of the vectors, which no rollback takes back.
VectorsFit(t, v) ==
    /\ t.at \in {"load", "fetch", "quarantine", "index", "chunk", "embed", "upsert"} => v = "none"
    /\ t.at = "finish" => v = "all"

RowFits(r, v, a) ==
    /\ \A x, y \in r.chunks : x = y
    /\ r.status \in Fresh => r.chunks = {}
    /\ IF OneTransaction THEN r.status \notin Half
       ELSE /\ r.status \in Fresh => v = "none"
            /\ \A t \in a : r.status = AnnouncedAs[t]

\* A run that claimed its document, with the row the table has.
ClaimFits(w, t, r, v) ==
    t.at \in Past => /\ PlaceFits(w, t, SeenBy(t, r))
                     /\ IF OneTransaction THEN r.status = "queued" ELSE VectorsFit(t, v)

RunsFit ==
    \A w \in Work :
        /\ call[w].phase = "new" <=> task[w].doc = NoDoc
        /\ call[w].phase \notin {"new", "ended"} => execution[w] = "running"
        /\ task[w].at \in Places => call[w].phase = "working"
        /\ call[w].outcome = "ok" =>
              task[w].doc \in Doc /\ doc[task[w].doc].status \in Final
        /\ ClaimFits(w, task[w], doc[task[w].doc], vectors[task[w].doc])

OneClaim ==
    \A v, w \in Work : /\ task[v].at \in Past /\ task[w].at \in Past
                       /\ task[v].doc = task[w].doc
                       => v = w

Reported(d) ==
    \E w \in Work : /\ task[w].doc = d
                    /\ \/ execution[w] = "running" /\ call[w].outcome # "ok"
                       \/ w \in letters \cup unreported

RowsFit ==
    \A d \in Doc : /\ RowFits(doc[d], vectors[d], announced[d])
                   /\ doc[d].status \in Half => Reported(d)

IngestionInv == Inv /\ TypeOK /\ RunsFit /\ OneClaim /\ RowsFit

-----------------------------------------------------------------------------
(* Steps of one run.                                                       *)

\* The document of the run `w` has no other run past the claim.
Alone(w) == \A u \in Work \ {w} : task[u].at \in Past => task[u].doc # task[w].doc

\* The run `w` goes on as `t` and leaves the row `r`, the vectors `v` and the
\* announcements `a`, or ends.
Goes(w, t, r, v, a) ==
    /\ task' = [task EXCEPT ![w] = t]
    /\ doc' = [doc EXCEPT ![task[w].doc] = r]
    /\ vectors' = [vectors EXCEPT ![task[w].doc] = v]
    /\ announced' = [announced EXCEPT ![task[w].doc] = a]
    /\ UNCHANGED <<body, uploads, events, execution, letters, unreported>>

\* What is known of a run that is on its way.
LEMMA RunFacts ==
  ASSUME IngestionInv, NEW w \in Work, Running(w)
  PROVE  /\ task[w] \in Task /\ task[w].doc \in Doc
         /\ doc[task[w].doc] \in Row
         /\ vectors[task[w].doc] \in {"none", "some", "all"}
         /\ announced[task[w].doc] \in SUBSET {"indexed", "failed", "quarantined"}
         /\ RowFits(doc[task[w].doc], vectors[task[w].doc], announced[task[w].doc])
         /\ ClaimFits(w, task[w], doc[task[w].doc], vectors[task[w].doc])
         /\ task[w].at \in Past => Alone(w)
         /\ execution[w] = "running"
         /\ call[w].outcome = "ok" => doc[task[w].doc].status \in Final
<1>1. task[w] \in Task /\ task[w].doc \in Doc
  BY DEF IngestionInv, TypeOK, RunsFit, Running, Task
<1>2. task[w].at \in Past => Alone(w)
  BY DEF IngestionInv, OneClaim, Alone
<1> QED
  BY <1>1, <1>2 DEF IngestionInv, TypeOK, RunsFit, RowsFit, Running

LEMMA RunKeeps ==
  ASSUME IngestionInv, Inv', NEW w \in Work, Running(w),
         NEW t \in Task, NEW r \in Row, NEW v \in {"none", "some", "all"},
         NEW a \in SUBSET {"indexed", "failed", "quarantined"},
         Goes(w, t, r, v, a), t.doc = task[w].doc,
         \/ Alone(w)
         \/ r = doc[task[w].doc] /\ v = vectors[task[w].doc] /\ t.at \notin Past,
         RowFits(r, v, a), ClaimFits(w, t, r, v),
         doc[task[w].doc].status \in Final => r.status \in Final,
         \A u \in Work \ {w} : call'[u] = call[u],
         call'[w].phase # "new", t.at \in Places => call'[w].phase = "working",
         call'[w].outcome = "ok" => r.status \in Final
  PROVE  IngestionInv'
<1> DEFINE d == task[w].doc
<1>1. /\ d \in Doc /\ execution[w] = "running" /\ call[w].phase # "new"
      /\ d # NoDoc
  BY RunFacts, DocAssumption DEF Running
<1>2. \A u \in Work : task'[u] = IF u = w THEN t ELSE task[u]
  BY DEF Goes, IngestionInv, TypeOK
<1>3. \A e \in Doc : /\ doc'[e] = IF e = d THEN r ELSE doc[e]
                     /\ vectors'[e] = IF e = d THEN v ELSE vectors[e]
                     /\ announced'[e] = IF e = d THEN a ELSE announced[e]
  BY <1>1 DEF Goes, IngestionInv, TypeOK
<1>4. UNCHANGED <<body, uploads, events, execution, letters, unreported>>
  BY DEF Goes
<1>5. TypeOK'
  <2>1. /\ task' \in [Work -> Task] /\ doc' \in [Doc -> Row]
        /\ vectors' \in [Doc -> {"none", "some", "all"}]
        /\ announced' \in [Doc -> SUBSET {"indexed", "failed", "quarantined"}]
    BY <1>1 DEF Goes, IngestionInv, TypeOK
  <2>2. AdmissionTypeOK'
    BY DEF Inv
  <2> QED
    BY <1>4, <2>1, <2>2 DEF IngestionInv, TypeOK
<1>6. RunsFit'
  <2>1. ASSUME NEW u \in Work, u # w
        PROVE  /\ call'[u] = call[u] /\ task'[u] = task[u] /\ execution'[u] = execution[u]
               /\ call[u].outcome = "ok" => doc'[task[u].doc].status \in Final
               /\ ClaimFits(u, task[u], doc'[task[u].doc], vectors'[task[u].doc])
    <3>1. /\ call'[u] = call[u] /\ task'[u] = task[u] /\ execution'[u] = execution[u]
      BY <1>2, <1>4, <2>1
    <3>2. /\ call[u].outcome = "ok" => task[u].doc \in Doc /\ doc[task[u].doc].status \in Final
          /\ ClaimFits(u, task[u], doc[task[u].doc], vectors[task[u].doc])
          /\ task[u].at \in Past => task[u].doc \in Doc
      BY DEF IngestionInv, RunsFit, TypeOK, Task, Past, Places
    <3>3. call[u].outcome = "ok" => doc'[task[u].doc].status \in Final
      BY <1>3, <3>2
    <3>4. ClaimFits(u, task[u], doc'[task[u].doc], vectors'[task[u].doc])
      <4>1. CASE task[u].at \in Past /\ task[u].doc = d
        BY <1>3, <2>1, <3>2, <4>1 DEF Alone
      <4>2. CASE task[u].at \in Past /\ task[u].doc # d
        BY <1>3, <3>2, <4>2
      <4>3. CASE task[u].at \notin Past
        BY <4>3 DEF ClaimFits
      <4> QED
        BY <4>1, <4>2, <4>3
    <3> QED
      BY <3>1, <3>3, <3>4
  <2>2. /\ task'[w] = t /\ doc'[t.doc] = r /\ vectors'[t.doc] = v
        /\ t.doc \in Doc /\ t.doc # NoDoc /\ execution'[w] = "running"
    BY <1>1, <1>2, <1>3, <1>4
  <2>3. ASSUME NEW u \in Work
        PROVE  /\ call'[u].phase = "new" <=> task'[u].doc = NoDoc
               /\ call'[u].phase \notin {"new", "ended"} => execution'[u] = "running"
               /\ task'[u].at \in Places => call'[u].phase = "working"
               /\ call'[u].outcome = "ok" =>
                     task'[u].doc \in Doc /\ doc'[task'[u].doc].status \in Final
               /\ ClaimFits(u, task'[u], doc'[task'[u].doc], vectors'[task'[u].doc])
    <3>1. CASE u = w
      BY <2>2, <3>1
    <3>2. CASE u # w
      BY <2>1, <3>2 DEF IngestionInv, RunsFit
    <3> QED
      BY <3>1, <3>2
  <2> QED
    BY <2>3 DEF RunsFit
<1>7. OneClaim'
  BY <1>2 DEF IngestionInv, OneClaim, Alone
<1>8. RowsFit'
  <2>1. ASSUME NEW e \in Doc
        PROVE  /\ RowFits(doc'[e], vectors'[e], announced'[e])
               /\ doc'[e].status \in Half => Reported(e)'
    <3>1. CASE e = d
      <4>1. r.status \in Half => call'[w].outcome # "ok"
        BY DEF Half, Final
      <4>2. r.status \in Half => Reported(e)'
        BY <1>1, <1>2, <1>4, <3>1, <4>1 DEF Reported
      <4> QED
        BY <1>3, <3>1, <4>2
    <3>2. CASE e # d
      <4>1. RowFits(doc'[e], vectors'[e], announced'[e])
        BY <1>3, <3>2 DEF IngestionInv, RowsFit
      <4>2. ASSUME doc'[e].status \in Half PROVE Reported(e)'
        <5>1. PICK u \in Work : /\ task[u].doc = e
                                /\ \/ execution[u] = "running" /\ call[u].outcome # "ok"
                                   \/ u \in letters \cup unreported
          BY <1>3, <3>2, <4>2 DEF IngestionInv, RowsFit, Reported
        <5> QED
          BY <1>2, <1>4, <3>2, <5>1 DEF Reported
      <4> QED
        BY <4>1, <4>2
    <3> QED
      BY <3>1, <3>2
  <2> QED
    BY <2>1 DEF RowsFit
<1> QED
  BY <1>5, <1>6, <1>7, <1>8 DEF IngestionInv

\* A step of the pipeline that leaves the invocation at work.
LEMMA StepKeeps ==
  ASSUME IngestionInv, NEW w \in Work, NEW place, AtPlace(w, place),
         NEW t \in Task, NEW r \in Row, NEW v \in {"none", "some", "all"},
         NEW a \in SUBSET {"indexed", "failed", "quarantined"},
         Goes(w, t, r, v, a), t.doc = task[w].doc, t.at \in Places,
         \/ Alone(w)
         \/ r = doc[task[w].doc] /\ v = vectors[task[w].doc] /\ t.at \notin Past,
         RowFits(r, v, a), ClaimFits(w, t, r, v),
         doc[task[w].doc].status \in Final => r.status \in Final
  PROVE  IngestionInv'
<1>1. /\ call[w].phase = "working" /\ Running(w) /\ UNCHANGED admissionVars /\ call' = call
  BY DEF AtPlace, Running, Outside, admissionVars
<1>2. Inv'
  BY <1>1, StepInv DEF IngestionInv
<1>3. call[w].outcome = "ok" => r.status \in Final
  BY <1>1, RunFacts
<1> QED
  BY <1>1, <1>2, <1>3, RunKeeps

\* Such a step that changes only the place.
LEMMA GoToKeeps ==
  ASSUME IngestionInv, NEW w \in Work, NEW place, At(w, place),
         NEW next \in Places, GoTo(w, next), place \in Past \/ next \notin Past,
         ClaimFits(w, [task[w] EXCEPT !.at = next], doc[task[w].doc], vectors[task[w].doc])
  PROVE  IngestionInv'
<1> DEFINE t == [task[w] EXCEPT !.at = next]
           d == task[w].doc
<1>1. AtPlace(w, place) /\ UNCHANGED <<vectors, announced>> /\ Running(w) /\ task[w].at = place
  BY DEF At, AtPlace, Running
<1>2. /\ t \in Task /\ t.doc = d /\ t.at = next
  BY <1>1, RunFacts DEF Task
<1>3. Goes(w, t, doc[d], vectors[d], announced[d])
  BY <1>1, RunFacts DEF Goes, GoTo, AtPlace, Outside, IngestionInv, TypeOK
<1>4. ClaimFits(w, t, doc[d], vectors[d])
  OBVIOUS
<1> HIDE DEF t
<1>5. /\ doc[d] \in Row /\ vectors[d] \in {"none", "some", "all"}
      /\ announced[d] \in SUBSET {"indexed", "failed", "quarantined"}
      /\ RowFits(doc[d], vectors[d], announced[d])
      /\ Alone(w) \/ t.at \notin Past
  BY <1>1, <1>2, RunFacts
<1> QED
  BY <1>1, <1>2, <1>3, <1>4, <1>5, StepKeeps

\* What is announced is a final status.
LEMMA AnnouncedIsFinal ==
  \A t \in {"indexed", "failed", "quarantined"} : AnnouncedAs[t] \in Final
BY DEF AnnouncedAs, Final

\* A step that writes the row `s` where the run sees it. The row was claimed
\* and is not finished, or the run claims it.
LEMMA WriteKeeps ==
  ASSUME IngestionInv, NEW w \in Work, NEW place, At(w, place), Alone(w),
         NEW s \in Row, NEW t \in Task, t.doc = task[w].doc, t.at \in Places,
         OneTransaction => t.own = s,
         task' = [task EXCEPT ![w] = t],
         doc' = IF OneTransaction THEN doc ELSE [doc EXCEPT ![task[w].doc] = s],
         s.status \notin Fresh, \A x, y \in s.chunks : x = y,
         IF OneTransaction THEN doc[task[w].doc].status = "queued"
         ELSE doc[task[w].doc].status \notin Final,
         t.at \in Past => /\ PlaceFits(w, t, s)
                          /\ ~OneTransaction => VectorsFit(t, vectors[task[w].doc])
  PROVE  IngestionInv'
<1> DEFINE d == task[w].doc
           r == IF OneTransaction THEN doc[d] ELSE s
<1>1. AtPlace(w, place) /\ UNCHANGED <<vectors, announced>> /\ Running(w)
  BY DEF At, AtPlace, Running
<1>2. /\ task[w] \in Task /\ d \in Doc /\ doc[d] \in Row
      /\ RowFits(doc[d], vectors[d], announced[d])
      /\ vectors[d] \in {"none", "some", "all"}
      /\ announced[d] \in SUBSET {"indexed", "failed", "quarantined"}
  BY <1>1, RunFacts
<1>3. ~OneTransaction => announced[d] = {}
  BY <1>2, AnnouncedIsFinal DEF RowFits
<1>4. r \in Row
  BY <1>2
<1>5. Goes(w, t, r, vectors[d], announced[d])
  BY <1>1, <1>2 DEF Goes, AtPlace, Outside, IngestionInv, TypeOK
<1>6. RowFits(r, vectors[d], announced[d])
  BY <1>2, <1>3 DEF RowFits
<1>7. doc[d].status \in Final => r.status \in Final
  OBVIOUS
<1>8. ClaimFits(w, t, r, vectors[d])
  BY DEF SeenBy, ClaimFits
<1> HIDE DEF r
<1> QED
  BY <1>1, <1>2, <1>4, <1>5, <1>6, <1>7, <1>8, StepKeeps

\* How an operation of the run writes a row.
LEMMA Written ==
  ASSUME IngestionInv, NEW w \in Work, Running(w), NEW s \in Row, NEW next \in Places,
         Write(w, s, next)
  PROVE  \E t \in Task : /\ t.doc = task[w].doc /\ t.at = next /\ t.tell = task[w].tell
                         /\ OneTransaction => t.own = s
                         /\ task' = [task EXCEPT ![w] = t]
                         /\ doc' = IF OneTransaction THEN doc
                                   ELSE [doc EXCEPT ![task[w].doc] = s]
<1>1. task[w] \in Task
  BY RunFacts
<1>2. CASE OneTransaction
  <2> DEFINE t == [task[w] EXCEPT !.own = s, !.at = next]
  <2>1. /\ t \in Task /\ t.doc = task[w].doc /\ t.at = next /\ t.tell = task[w].tell
        /\ t.own = s
    BY <1>1 DEF Task
  <2>2. task' = [task EXCEPT ![w] = t] /\ doc' = doc
    BY <1>2 DEF Write
  <2> HIDE DEF t
  <2> QED
    BY <1>2, <2>1, <2>2
<1>3. CASE ~OneTransaction
  <2> DEFINE t == [task[w] EXCEPT !.at = next]
  <2>1. /\ t \in Task /\ t.doc = task[w].doc /\ t.at = next /\ t.tell = task[w].tell
    BY <1>1 DEF Task
  <2>2. task' = [task EXCEPT ![w] = t] /\ doc' = [doc EXCEPT ![task[w].doc] = s]
    BY <1>3 DEF Write
  <2> HIDE DEF t
  <2> QED
    BY <1>3, <2>1, <2>2
<1> QED
  BY <1>2, <1>3

-----------------------------------------------------------------------------
(* The steps of the pipeline.                                              *)

\* A run that gives up, or begins, knows nothing of its document.
LEMMA AsideKeeps ==
  ASSUME IngestionInv, NEW w \in Work, NEW place, At(w, place),
         NEW next \in {"claim", "raise"}, GoTo(w, next)
  PROVE  IngestionInv'
<1>1. task[w] \in Task
  BY DEF IngestionInv, TypeOK
<1>2. [task[w] EXCEPT !.at = next].at = next
  BY <1>1 DEF Task
<1>3. next \in Places /\ next \notin Past
  BY DEF Places, Past
<1>4. ClaimFits(w, [task[w] EXCEPT !.at = next], doc[task[w].doc], vectors[task[w].doc])
  BY <1>2, <1>3 DEF ClaimFits
<1> QED
  BY <1>3, <1>4, GoToKeeps

\* A claim succeeds only where no other run is past it: the row says "queued",
\* and in one transaction nobody has it locked.
LEMMA ClaimIsAlone ==
  ASSUME IngestionInv, NEW w \in Work, Running(w), ~RowIsLocked(w),
         Claimable(doc[task[w].doc])
  PROVE  Alone(w)
<1> SUFFICES ASSUME NEW u \in Work, u # w, task[u].at \in Past, task[u].doc = task[w].doc
             PROVE  FALSE
  BY DEF Alone
<1>1. /\ task[u] \in Task /\ doc[task[u].doc].status = "queued"
      /\ PlaceFits(u, task[u], SeenBy(task[u], doc[task[u].doc]))
  BY DEF IngestionInv, TypeOK, RunsFit, ClaimFits, Claimable
<1>2. SeenBy(task[u], doc[task[u].doc]).status # "queued"
  BY <1>1 DEF PlaceFits, Past, Half, AnnouncedAs, Task
<1>3. CASE OneTransaction
  <2>1. task[u].own.status # doc[task[u].doc].status
    BY <1>1, <1>2, <1>3 DEF SeenBy
  <2>2. task[u].at \notin {"idle", "claim", "over"}
    BY DEF Past
  <2> QED
    BY <1>3, <2>1, <2>2 DEF RowIsLocked
<1>4. CASE ~OneTransaction
  BY <1>1, <1>2, <1>4 DEF SeenBy
<1> QED
  BY <1>3, <1>4

\* The claim, acknowledged or not.
LEMMA ClaimedKeeps ==
  ASSUME IngestionInv, NEW w \in Work, At(w, "claim"), ~RowIsLocked(w),
         Claimable(doc[task[w].doc]), NEW next \in {"load", "raise"},
         Write(w, [doc[task[w].doc] EXCEPT !.status = "extracting"], next)
  PROVE  IngestionInv'
<1> DEFINE d == task[w].doc
           s == [doc[d] EXCEPT !.status = "extracting"]
<1>1. /\ Running(w) /\ next \in Places
      /\ doc[d] \in Row /\ doc[d].status = "queued" /\ RowFits(doc[d], vectors[d], announced[d])
  BY RunFacts DEF At, AtPlace, Running, Places, Claimable
<1>2. s \in Row /\ s.status = "extracting" /\ s.chunks = {}
  BY <1>1 DEF Row, Statuses, RowFits, Fresh
<1>3. ~OneTransaction => vectors[d] = "none"
  BY <1>1 DEF RowFits, Fresh
<1> HIDE DEF s
<1>4. PICK t \in Task : /\ t.doc = d /\ t.at = next /\ t.tell = task[w].tell
                        /\ OneTransaction => t.own = s
                        /\ task' = [task EXCEPT ![w] = t]
                        /\ doc' = IF OneTransaction THEN doc ELSE [doc EXCEPT ![d] = s]
  BY <1>1, <1>2, Written DEF s
<1>5. t.at \in Past => PlaceFits(w, t, s) /\ (~OneTransaction => VectorsFit(t, vectors[d]))
  BY <1>2, <1>3, <1>4 DEF PlaceFits, VectorsFit, Past
<1>6. Alone(w)
  BY <1>1, ClaimIsAlone
<1>7. s.status \notin Fresh /\ doc[d].status \notin Final
  BY <1>1, <1>2 DEF Fresh, Final
<1> QED
  BY <1>1, <1>2, <1>4, <1>5, <1>6, <1>7, WriteKeeps

\* A step from one place to another that knows no more than the first.
LEMMA OnwardKeeps ==
  ASSUME IngestionInv, NEW w \in Work, NEW place, At(w, place), NEW next, GoTo(w, next),
         \/ place = "load" /\ next \in {"fetch", "quarantine"}
         \/ place = "fetch" /\ next \in {"index", "quarantine", "fail"}
         \/ place = "embed" /\ next \in {"upsert", "fail"}
  PROVE  IngestionInv'
<1> DEFINE d == task[w].doc
           t == [task[w] EXCEPT !.at = next]
<1>1. Running(w) /\ task[w].at = place
  BY DEF At, AtPlace, Running
<1>2. task[w] \in Task /\ ClaimFits(w, task[w], doc[d], vectors[d])
  BY <1>1, RunFacts
<1>3. t.at = next /\ SeenBy(t, doc[d]) = SeenBy(task[w], doc[d])
  BY <1>2 DEF Task, SeenBy
<1>4. place \in Past /\ next \in Places
  BY DEF Places, Past
<1>5. /\ PlaceFits(w, task[w], SeenBy(task[w], doc[d]))
      /\ IF OneTransaction THEN doc[d].status = "queued" ELSE VectorsFit(task[w], vectors[d])
  BY <1>1, <1>2, <1>4 DEF ClaimFits
<1> HIDE DEF t
<1>6. PlaceFits(w, t, SeenBy(t, doc[d]))
  BY <1>1, <1>3, <1>5 DEF PlaceFits, Half
<1>7. ~OneTransaction => VectorsFit(t, vectors[d])
  BY <1>1, <1>3, <1>5 DEF VectorsFit
<1>8. ClaimFits(w, t, doc[d], vectors[d])
  BY <1>5, <1>6, <1>7 DEF ClaimFits
<1> QED
  BY <1>4, <1>8, GoToKeeps DEF t

LEMMA FetchKeeps ==
  ASSUME IngestionInv, NEW w \in Work, FetchBody(w)
  PROVE  IngestionInv'
<1>1. At(w, "fetch") /\ GoTo(w, AfterFetch[body[task[w].doc]]) /\ Running(w)
  BY DEF FetchBody, At, AtPlace, Running
<1>2. body[task[w].doc] \in Content
  BY <1>1, RunFacts DEF FetchBody, IngestionInv, TypeOK
<1>3. AfterFetch[body[task[w].doc]] \in {"index", "quarantine", "fail"}
  <2>1. \A b \in {"good", "encrypted", "unreadable", "oversize"} :
           AfterFetch[b] \in {"index", "quarantine", "fail"}
    BY DEF AfterFetch
  <2> QED
    BY <1>2, <2>1, ContentAssumption
<1> QED
  BY <1>1, <1>3, OnwardKeeps

\* What a run that claimed its document may rely on when it writes the row.
LEMMA SeenFacts ==
  ASSUME IngestionInv, NEW w \in Work, NEW place \in Past, At(w, place),
         place \notin {"tell", "return"}
  PROVE  /\ Running(w) /\ Alone(w) /\ Seen(w) \in Row /\ task[w].at = place
         /\ task[w] \in Task
         /\ PlaceFits(w, task[w], Seen(w))
         /\ IF OneTransaction THEN doc[task[w].doc].status = "queued"
            ELSE /\ VectorsFit(task[w], vectors[task[w].doc])
                 /\ doc[task[w].doc].status \notin Final
         /\ Seen(w) = SeenBy(task[w], doc[task[w].doc])
<1>1. Running(w) /\ task[w].at = place
  BY DEF At, AtPlace, Running
<1>2. /\ Alone(w) /\ task[w] \in Task /\ doc[task[w].doc] \in Row
      /\ ClaimFits(w, task[w], doc[task[w].doc], vectors[task[w].doc])
  BY <1>1, RunFacts
<1>3. Seen(w) \in Row /\ Seen(w) = SeenBy(task[w], doc[task[w].doc])
  BY <1>2 DEF Seen, Task, SeenBy
<1>4. /\ PlaceFits(w, task[w], Seen(w))
      /\ IF OneTransaction THEN doc[task[w].doc].status = "queued"
         ELSE VectorsFit(task[w], vectors[task[w].doc])
  BY <1>1, <1>2, <1>3 DEF ClaimFits
<1>5. Seen(w).status \in Half
  BY <1>1, <1>4 DEF PlaceFits, Past, Half
<1>6. ~OneTransaction => doc[task[w].doc].status \notin Final
  BY <1>3, <1>5 DEF SeenBy, Half, Final
<1> QED
  BY <1>1, <1>2, <1>3, <1>4, <1>6

\* The status that a place sets, and the row with it.
LEMMA StatusSet ==
  ASSUME IngestionInv, NEW w \in Work, NEW place \in DOMAIN SetAt, At(w, place)
  PROVE  /\ place \in Past \ {"tell", "return"}
         /\ SetAt[place] \notin Fresh
         /\ [Seen(w) EXCEPT !.status = SetAt[place]] \in Row
         /\ [Seen(w) EXCEPT !.status = SetAt[place]].status = SetAt[place]
         /\ [Seen(w) EXCEPT !.status = SetAt[place]].chunks = Seen(w).chunks
         /\ Seen(w).chunks \subseteq {w}
<1>1. place \in {"quarantine", "fail", "index", "finish"}
  BY DEF SetAt
<1>2. place \in Past \ {"tell", "return"}
  BY <1>1 DEF Past
<1>3. SetAt[place] \in Statuses \ Fresh
  BY <1>1 DEF SetAt, Statuses, Fresh
<1>4. Seen(w) \in Row /\ PlaceFits(w, task[w], Seen(w))
  BY <1>2, SeenFacts
<1> QED
  BY <1>2, <1>3, <1>4 DEF Row, PlaceFits

LEMMA SetStatusKeeps ==
  ASSUME IngestionInv, NEW w \in Work, SetStatus(w)
  PROVE  IngestionInv'
<1>1. PICK place \in DOMAIN SetAt :
        /\ At(w, place)
        /\ LET r == [Seen(w) EXCEPT !.status = SetAt[place]]
               next == IF place = "index" THEN "chunk" ELSE "tell"
               t == [task[w] EXCEPT !.at = next, !.tell = TellAt[place]] IN
           IF OneTransaction
           THEN task' = [task EXCEPT ![w] = [t EXCEPT !.own = r]] /\ UNCHANGED doc
           ELSE /\ task' = [task EXCEPT ![w] = t]
                /\ doc' = [doc EXCEPT ![task[w].doc] = r]
  BY DEF SetStatus
<1> DEFINE d == task[w].doc
           s == [Seen(w) EXCEPT !.status = SetAt[place]]
           next == IF place = "index" THEN "chunk" ELSE "tell"
           t == IF OneTransaction
                THEN [[task[w] EXCEPT !.at = next, !.tell = TellAt[place]] EXCEPT !.own = s]
                ELSE [task[w] EXCEPT !.at = next, !.tell = TellAt[place]]
<1>2. /\ place \in Past /\ place \notin {"tell", "return"}
      /\ s \in Row /\ s.status = SetAt[place] /\ s.status \notin Fresh
      /\ s.chunks = Seen(w).chunks /\ s.chunks \subseteq {w}
  BY <1>1, StatusSet
<1>3. /\ Alone(w) /\ task[w].at = place /\ task[w] \in Task
      /\ PlaceFits(w, task[w], Seen(w))
      /\ IF OneTransaction THEN doc[d].status = "queued"
         ELSE VectorsFit(task[w], vectors[d]) /\ doc[d].status \notin Final
  BY <1>1, <1>2, SeenFacts
<1>4. place \in {"quarantine", "fail", "index", "finish"}
  BY DEF SetAt
<1>5. TellAt[place] \in {"none", "indexed", "failed", "quarantined"} /\ next \in Places
  BY <1>4 DEF TellAt, Places
<1>6. /\ task' = [task EXCEPT ![w] = t]
      /\ doc' = IF OneTransaction THEN doc ELSE [doc EXCEPT ![d] = s]
  BY <1>1
<1> HIDE DEF s
<1>7. /\ t \in Task /\ t.doc = d /\ t.at = next /\ t.tell = TellAt[place]
      /\ OneTransaction => t.own = s
  BY <1>2, <1>3, <1>5 DEF Task
<1> HIDE DEF t
<1>8. PlaceFits(w, t, s)
  <2>1. CASE place = "index"
    BY <1>2, <1>3, <1>7, <2>1 DEF PlaceFits, SetAt
  <2>2. CASE place # "index"
    <3>1. TellAt[place] # "none" /\ SetAt[place] = AnnouncedAs[TellAt[place]]
      BY <1>4, <2>2 DEF TellAt, SetAt, AnnouncedAs
    <3> QED
      BY <1>2, <1>7, <2>2, <3>1 DEF PlaceFits
  <2> QED
    BY <2>1, <2>2
<1>9. ~OneTransaction => VectorsFit(t, vectors[d])
  BY <1>3, <1>7 DEF VectorsFit
<1>10. At(w, place) /\ t.at \in Places /\ \A x, y \in s.chunks : x = y
  BY <1>1, <1>2, <1>5, <1>7
<1> HIDE DEF next
<1> QED
  BY <1>2, <1>3, <1>6, <1>7, <1>8, <1>9, <1>10, WriteKeeps

\* An operation that writes a row and then raises, which is not caught.
LEMMA WriteAndRaiseKeeps ==
  ASSUME IngestionInv, NEW w \in Work, NEW place \in Past, At(w, place),
         place \notin {"tell", "return"}, NEW s \in Row,
         s.status \notin Fresh, s.chunks \subseteq {w}, Write(w, s, "raise")
  PROVE  IngestionInv'
<1>1. /\ Running(w) /\ Alone(w)
      /\ IF OneTransaction THEN doc[task[w].doc].status = "queued"
         ELSE doc[task[w].doc].status \notin Final
  BY SeenFacts
<1>2. "raise" \in Places /\ "raise" \notin Past
  BY DEF Places, Past
<1>3. PICK t \in Task : /\ t.doc = task[w].doc /\ t.at = "raise"
                        /\ OneTransaction => t.own = s
                        /\ task' = [task EXCEPT ![w] = t]
                        /\ doc' = IF OneTransaction THEN doc
                                  ELSE [doc EXCEPT ![task[w].doc] = s]
  BY <1>1, <1>2, Written
<1> QED
  BY <1>1, <1>2, <1>3, WriteKeeps

\* The row with the run's chunks.
LEMMA ChunksAdded ==
  ASSUME IngestionInv, NEW w \in Work, At(w, "chunk")
  PROVE  /\ [Seen(w) EXCEPT !.chunks = @ \cup {w}] \in Row
         /\ [Seen(w) EXCEPT !.chunks = @ \cup {w}].status = "indexing"
         /\ [Seen(w) EXCEPT !.chunks = @ \cup {w}].chunks = {w}
<1>1. /\ Seen(w) \in Row /\ task[w].at = "chunk" /\ PlaceFits(w, task[w], Seen(w))
  BY SeenFacts DEF Past
<1>2. Seen(w).status = "indexing" /\ Seen(w).chunks = {}
  BY <1>1 DEF PlaceFits
<1> QED
  BY <1>1, <1>2 DEF Row

LEMMA AddChunksKeeps ==
  ASSUME IngestionInv, NEW w \in Work, AddChunks(w)
  PROVE  IngestionInv'
<1> DEFINE d == task[w].doc
           s == [Seen(w) EXCEPT !.chunks = @ \cup {w}]
<1>1. /\ At(w, "chunk") /\ Write(w, s, "embed")
  BY DEF AddChunks
<1>2. /\ Running(w) /\ Alone(w) /\ task[w].at = "chunk"
      /\ IF OneTransaction THEN doc[d].status = "queued"
         ELSE VectorsFit(task[w], vectors[d]) /\ doc[d].status \notin Final
  BY <1>1, SeenFacts DEF Past
<1>3. s \in Row /\ s.status = "indexing" /\ s.chunks = {w}
  BY <1>1, ChunksAdded
<1> HIDE DEF s
<1>4. "embed" \in Places /\ s.status \notin Fresh
  BY <1>3 DEF Places, Fresh
<1>5. PICK t \in Task : /\ t.doc = d /\ t.at = "embed"
                        /\ OneTransaction => t.own = s
                        /\ task' = [task EXCEPT ![w] = t]
                        /\ doc' = IF OneTransaction THEN doc ELSE [doc EXCEPT ![d] = s]
  BY <1>1, <1>2, <1>3, <1>4, Written
<1>6. PlaceFits(w, t, s) /\ (~OneTransaction => VectorsFit(t, vectors[d]))
  BY <1>2, <1>3, <1>5 DEF PlaceFits, VectorsFit
<1> QED
  BY <1>1, <1>2, <1>3, <1>4, <1>5, <1>6, WriteKeeps

LEMMA DatabaseFailsKeeps ==
  ASSUME IngestionInv, NEW w \in Work, DatabaseFails(w)
  PROVE  IngestionInv'
<1>1. PICK place \in {"claim", "load", "chunk"} \cup DOMAIN SetAt :
        /\ At(w, place)
        /\ \/ GoTo(w, "raise")
           \/ /\ place \in DOMAIN SetAt
              /\ Write(w, [Seen(w) EXCEPT !.status = SetAt[place]], "raise")
           \/ /\ place = "chunk"
              /\ Write(w, [Seen(w) EXCEPT !.chunks = @ \cup {w}], "raise")
           \/ /\ place = "claim" /\ ~RowIsLocked(w)
              /\ Claimable(doc[task[w].doc])
              /\ Write(w, [doc[task[w].doc] EXCEPT !.status = "extracting"], "raise")
  BY DEF DatabaseFails
<1>2. CASE GoTo(w, "raise")
  BY <1>1, <1>2, AsideKeeps
<1>3. CASE place \in DOMAIN SetAt /\ Write(w, [Seen(w) EXCEPT !.status = SetAt[place]], "raise")
  <2> DEFINE s == [Seen(w) EXCEPT !.status = SetAt[place]]
  <2>1. /\ place \in Past /\ place \notin {"tell", "return"}
        /\ s \in Row /\ s.status \notin Fresh /\ s.chunks \subseteq {w}
    BY <1>1, <1>3, StatusSet
  <2>2. Write(w, s, "raise")
    BY <1>3
  <2> HIDE DEF s
  <2> QED
    BY <1>1, <2>1, <2>2, WriteAndRaiseKeeps
<1>4. CASE place = "chunk" /\ Write(w, [Seen(w) EXCEPT !.chunks = @ \cup {w}], "raise")
  <2> DEFINE s == [Seen(w) EXCEPT !.chunks = @ \cup {w}]
  <2>1. At(w, "chunk") /\ "chunk" \in Past
    BY <1>1, <1>4 DEF Past
  <2>2. s \in Row /\ s.status \notin Fresh /\ s.chunks \subseteq {w}
    BY <2>1, ChunksAdded DEF Fresh
  <2>3. Write(w, s, "raise")
    BY <1>4
  <2> HIDE DEF s
  <2> QED
    BY <2>1, <2>2, <2>3, WriteAndRaiseKeeps
<1>5. CASE /\ place = "claim" /\ ~RowIsLocked(w)
           /\ Claimable(doc[task[w].doc])
           /\ Write(w, [doc[task[w].doc] EXCEPT !.status = "extracting"], "raise")
  BY <1>1, <1>5, ClaimedKeeps
<1> QED
  BY <1>1, <1>2, <1>3, <1>4, <1>5

\* The vectors are stored, all, some or none of them.
LEMMA UpsertedKeeps ==
  ASSUME IngestionInv, NEW w \in Work, AtPlace(w, "upsert"), UNCHANGED announced,
         NEW v \in {"none", "some", "all"},
         vectors' = [vectors EXCEPT ![task[w].doc] = v],
         NEW next, GoTo(w, next), next = "fail" \/ (next = "finish" /\ v = "all")
  PROVE  IngestionInv'
<1> DEFINE d == task[w].doc
           t == [task[w] EXCEPT !.at = next]
<1>1. Running(w) /\ task[w].at = "upsert" /\ "upsert" \in Past
  BY DEF AtPlace, Running, Past
<1>2. /\ task[w] \in Task /\ Alone(w) /\ d \in Doc /\ doc[d] \in Row
      /\ announced[d] \in SUBSET {"indexed", "failed", "quarantined"}
      /\ RowFits(doc[d], vectors[d], announced[d])
      /\ ClaimFits(w, task[w], doc[d], vectors[d])
  BY <1>1, RunFacts
<1>3. /\ t \in Task /\ t.doc = d /\ t.at = next /\ t.own = task[w].own /\ next \in Places
  BY <1>2 DEF Task, Places
<1>4. task' = [task EXCEPT ![w] = t] /\ doc' = doc
  BY DEF GoTo
<1> HIDE DEF t
<1>5. Goes(w, t, doc[d], v, announced[d])
  BY <1>2, <1>4 DEF Goes, AtPlace, Outside, IngestionInv, TypeOK
<1>6. /\ PlaceFits(w, task[w], SeenBy(task[w], doc[d]))
      /\ OneTransaction => doc[d].status = "queued"
  BY <1>1, <1>2 DEF ClaimFits
<1>7. /\ SeenBy(t, doc[d]) = SeenBy(task[w], doc[d])
      /\ SeenBy(task[w], doc[d]).status = "indexing"
  BY <1>1, <1>3, <1>6 DEF SeenBy, PlaceFits
<1>8. PlaceFits(w, t, SeenBy(t, doc[d]))
  BY <1>1, <1>3, <1>6, <1>7 DEF PlaceFits, Half
<1>9. ClaimFits(w, t, doc[d], v)
  BY <1>3, <1>6, <1>8 DEF ClaimFits, VectorsFit
<1>10. RowFits(doc[d], v, announced[d])
  BY <1>2, <1>7 DEF RowFits, SeenBy, Fresh
<1> QED
  BY <1>2, <1>3, <1>5, <1>9, <1>10, StepKeeps

LEMMA UpsertKeeps ==
  ASSUME IngestionInv, NEW w \in Work, Upsert(w) \/ UpsertFails(w)
  PROVE  IngestionInv'
<1> DEFINE d == task[w].doc
<1>1. AtPlace(w, "upsert") /\ UNCHANGED announced /\ Running(w)
  BY DEF Upsert, UpsertFails, AtPlace, Running
<1>2. vectors[d] \in {"none", "some", "all"} /\ vectors = [vectors EXCEPT ![d] = vectors[d]]
  BY <1>1, RunFacts DEF IngestionInv, TypeOK
<1>3. CASE Upsert(w)
  <2>1. CASE vectors' = [vectors EXCEPT ![d] = "all"] /\ GoTo(w, "finish")
    BY <1>1, <2>1, UpsertedKeeps
  <2>2. CASE UNCHANGED vectors /\ GoTo(w, "fail")
    <3>1. vectors' = [vectors EXCEPT ![d] = vectors[d]]
      BY <1>2, <2>2
    <3> QED
      BY <1>1, <1>2, <2>2, <3>1, UpsertedKeeps
  <2> QED
    BY <1>3, <2>1, <2>2 DEF Upsert
<1>4. CASE UpsertFails(w)
  <2>1. PICK v \in {vectors[d]} \cup {x \in {"all"} : AllUpserted(w)}
                       \cup {x \in {"some"} : VectorStore = "s3_vectors"} :
            vectors' = [vectors EXCEPT ![d] = v]
    BY <1>4 DEF UpsertFails
  <2>2. v \in {"none", "some", "all"} /\ GoTo(w, "fail")
    BY <1>2, <1>4 DEF UpsertFails
  <2> QED
    BY <1>1, <2>1, <2>2, UpsertedKeeps
<1> QED
  BY <1>3, <1>4

LEMMA PublishKeeps ==
  ASSUME IngestionInv, NEW w \in Work, Publish(w)
  PROVE  IngestionInv'
<1> DEFINE d == task[w].doc
           next == IF task[w].tell = "failed" THEN "raise" ELSE "return"
           t == [task[w] EXCEPT !.at = next]
<1>1. /\ AtPlace(w, "tell") /\ Running(w) /\ task[w].at = "tell" /\ "tell" \in Past
      /\ UNCHANGED vectors /\ GoTo(w, next)
  BY DEF Publish, AtPlace, Running, Past
<1>2. /\ task[w] \in Task /\ Alone(w) /\ d \in Doc /\ doc[d] \in Row
      /\ announced[d] \in SUBSET {"indexed", "failed", "quarantined"}
      /\ vectors[d] \in {"none", "some", "all"}
      /\ RowFits(doc[d], vectors[d], announced[d])
      /\ ClaimFits(w, task[w], doc[d], vectors[d])
  BY <1>1, RunFacts
<1>3. task' = [task EXCEPT ![w] = t] /\ doc' = doc
  BY <1>1 DEF GoTo
<1>4. next \in {"raise", "return"}
  OBVIOUS
<1> HIDE DEF next
<1>5. /\ t \in Task /\ t.doc = d /\ t.at = next /\ t.own = task[w].own /\ t.tell = task[w].tell
      /\ next \in Places
  BY <1>2, <1>4 DEF Task, Places
<1> HIDE DEF t
<1>6. /\ PlaceFits(w, task[w], SeenBy(task[w], doc[d]))
      /\ OneTransaction => doc[d].status = "queued"
  BY <1>1, <1>2 DEF ClaimFits
<1>7. /\ task[w].tell # "none"
      /\ SeenBy(task[w], doc[d]).status = AnnouncedAs[task[w].tell]
      /\ SeenBy(t, doc[d]) = SeenBy(task[w], doc[d])
  BY <1>1, <1>5, <1>6 DEF PlaceFits, SeenBy
<1>8. PICK a \in {announced[d], announced[d] \cup {task[w].tell}} :
          announced' = [announced EXCEPT ![d] = a]
  BY <1>2 DEF Publish, IngestionInv, TypeOK
<1>9. a \in SUBSET {"indexed", "failed", "quarantined"}
  BY <1>2, <1>7 DEF Task
<1>10. RowFits(doc[d], vectors[d], a)
  BY <1>2, <1>7 DEF RowFits, SeenBy
<1>11. PlaceFits(w, t, SeenBy(t, doc[d]))
  BY <1>4, <1>5, <1>6, <1>7 DEF PlaceFits
<1>12. ClaimFits(w, t, doc[d], vectors[d])
  BY <1>4, <1>5, <1>6, <1>11 DEF ClaimFits, VectorsFit
<1>13. Goes(w, t, doc[d], vectors[d], a)
  BY <1>1, <1>2, <1>3, <1>8 DEF Goes, AtPlace, Outside, IngestionInv, TypeOK
<1> QED
  BY <1>1, <1>2, <1>5, <1>9, <1>10, <1>12, <1>13, StepKeeps

\* A run that ends, and leaves the row as it is or as its place says.
LEMMA OverKeeps ==
  ASSUME IngestionInv, NEW w \in Work, Running(w), NEW r \in Row,
         task' = [task EXCEPT ![w] = Over(w)],
         doc' = [doc EXCEPT ![task[w].doc] = r],
         UNCHANGED <<vectors, announced, body, uploads, events, execution, letters, unreported>>,
         \/ r = doc[task[w].doc]
         \/ /\ Alone(w) /\ OneTransaction /\ r.status \in Final /\ r.chunks \subseteq {w},
         NEW o \in {"ok", "error", "dead"}, o = "ok" => r.status \in Final,
         \/ o # "dead" /\ FinishWork(w, o)
         \/ o = "dead" /\ Dies(w)
  PROVE  IngestionInv'
<1> DEFINE d == task[w].doc
           t == Over(w)
<1>1. Inv'
  BY StepInv DEF Next, AdmissionFault, IngestionInv
<1>2. /\ task[w] \in Task /\ d \in Doc /\ doc[d] \in Row
      /\ announced[d] \in SUBSET {"indexed", "failed", "quarantined"}
      /\ vectors[d] \in {"none", "some", "all"}
      /\ RowFits(doc[d], vectors[d], announced[d])
  BY RunFacts
<1>3. /\ t \in Task /\ t.doc = d /\ t.at = "over"
  BY <1>2 DEF Over, NewTask, Task, AbsentRow, Row, Statuses
<1> HIDE DEF t
<1>4. /\ \A u \in Work \ {w} : call'[u] = call[u]
      /\ call'[w].phase \in {"releasing", "ended"} /\ call'[w].outcome = o
  <2>1. call[w] \in Call /\ call \in [Work -> Call]
    BY DEF IngestionInv, Inv, AdmissionTypeOK
  <2>2. CASE FinishWork(w, o)
    <3>1. call' = [call EXCEPT ![w] = [call[w] EXCEPT !.phase = "releasing", !.outcome = o]]
      BY <2>1, <2>2 DEF FinishWork, Leave
    <3> QED
      BY <2>1, <3>1 DEF Call
  <2>3. CASE o = "dead" /\ Dies(w)
    BY <2>1, <2>3 DEF Dies, End, NewCall
  <2> QED
    BY <2>2, <2>3
<1>5. Goes(w, t, r, vectors[d], announced[d])
  BY <1>2 DEF Goes, IngestionInv, TypeOK, t
<1>6. RowFits(r, vectors[d], announced[d])
  BY <1>2 DEF RowFits, Final, Fresh, Half
<1>7. ClaimFits(w, t, r, vectors[d])
  BY <1>3 DEF ClaimFits, Past
<1>8. t.at \notin Past /\ t.at \notin Places
  BY <1>3 DEF Past, Places
<1>9. doc[d].status \in Final => r.status \in Final
  OBVIOUS
<1> QED
  BY <1>1, <1>2, <1>3, <1>4, <1>5, <1>6, <1>7, <1>8, <1>9, RunKeeps

LEMMA ReturnKeeps ==
  ASSUME IngestionInv, NEW w \in Work, Return(w)
  PROVE  IngestionInv'
<1> DEFINE d == task[w].doc
<1>1. /\ Running(w) /\ task[w].at = "return" /\ "return" \in Past /\ "return" \in Places
      /\ task' = [task EXCEPT ![w] = Over(w)]
      /\ UNCHANGED <<vectors, announced, body, uploads, events, execution, letters, unreported>>
  BY DEF Return, FinishWork, Running, Past, Places
<1>2. /\ task[w] \in Task /\ d \in Doc /\ doc[d] \in Row /\ Alone(w)
      /\ ClaimFits(w, task[w], doc[d], vectors[d])
      /\ doc = [doc EXCEPT ![d] = doc[d]]
  BY <1>1, RunFacts DEF IngestionInv, TypeOK
<1>3. /\ task[w].tell \in {"indexed", "failed", "quarantined"}
      /\ SeenBy(task[w], doc[d]).status = AnnouncedAs[task[w].tell]
      /\ SeenBy(task[w], doc[d]).chunks \subseteq {w}
      /\ SeenBy(task[w], doc[d]) = Seen(w)
      /\ Seen(w) \in Row
  BY <1>1, <1>2 DEF ClaimFits, PlaceFits, Task, SeenBy, Seen
<1>4. Seen(w).status \in Final
  BY <1>3, AnnouncedIsFinal
<1>5. CASE OneTransaction /\ doc' = [doc EXCEPT ![d] = Seen(w)]
           /\ \E outcome \in {"ok", "error"} : FinishWork(w, outcome)
  BY <1>1, <1>2, <1>3, <1>4, <1>5, OverKeeps
<1>6. CASE UNCHANGED doc /\ FinishWork(w, "error")
  <2>1. doc' = [doc EXCEPT ![d] = doc[d]]
    BY <1>2, <1>6
  <2> QED
    BY <1>1, <1>2, <1>6, <2>1, OverKeeps
<1>7. CASE ~OneTransaction /\ UNCHANGED doc /\ FinishWork(w, "ok")
  <2>1. doc' = [doc EXCEPT ![d] = doc[d]]
    BY <1>2, <1>7
  <2>2. doc[d].status \in Final
    BY <1>4, <1>7 DEF Seen
  <2> QED
    BY <1>1, <1>2, <1>7, <2>1, <2>2, OverKeeps
<1> QED
  BY <1>5, <1>6, <1>7 DEF Return

LEMMA RaiseKeeps ==
  ASSUME IngestionInv, NEW w \in Work, Raise(w) \/ WorkerDies(w)
  PROVE  IngestionInv'
<1>1. /\ Running(w) /\ task' = [task EXCEPT ![w] = Over(w)] /\ doc' = doc
      /\ UNCHANGED <<vectors, announced, body, uploads, events, execution, letters, unreported>>
      /\ FinishWork(w, "error") \/ Dies(w)
  BY DEF Raise, WorkerDies, FinishWork, Dies, Running
<1>2. doc[task[w].doc] \in Row /\ doc' = [doc EXCEPT ![task[w].doc] = doc[task[w].doc]]
  BY <1>1, RunFacts DEF IngestionInv, TypeOK
<1> QED
  BY <1>1, <1>2, OverKeeps

-----------------------------------------------------------------------------
(* The steps outside the runs.                                             *)

\* Uploads, events and letters about events leave the runs alone.
LEMMA EventKeeps ==
  ASSUME IngestionInv, TypeOK', letters \subseteq letters', unreported \subseteq unreported',
         UNCHANGED <<admissionVars, doc, vectors, task, execution, announced>>
  PROVE  IngestionInv'
<1>1. Inv'
  BY StepInv DEF IngestionInv
<1>2. call' = call
  BY DEF admissionVars
<1>3. RunsFit' /\ OneClaim'
  BY <1>2 DEF IngestionInv, RunsFit, OneClaim
<1>4. RowsFit'
  BY <1>2 DEF IngestionInv, RowsFit, Reported
<1> QED
  BY <1>1, <1>3, <1>4 DEF IngestionInv

LEMMA UploadKeeps ==
  ASSUME IngestionInv, NEW d \in Doc,
         \/ \E content \in Content : Upload(d, content)
         \/ CompleteUpload(d)
         \/ DeliveryFails(d)
  PROVE  IngestionInv'
<1>1. AdmissionTypeOK'
  BY DEF Upload, CompleteUpload, DeliveryFails, IngestionInv, TypeOK, AdmissionTypeOK,
         admissionVars
<1>2. TypeOK' /\ letters \subseteq letters' /\ unreported \subseteq unreported'
  <2>1. ASSUME NEW content \in Content, Upload(d, content)
        PROVE  TypeOK' /\ letters \subseteq letters' /\ unreported \subseteq unreported'
    <3>1. uploads' \in [Doc -> 0 .. MaxUploads]
      BY <2>1, ModeAssumption DEF Upload, IngestionInv, TypeOK
    <3>2. events' \in [Doc -> Nat]
      BY <2>1 DEF Upload, IngestionInv, TypeOK
    <3>3. body' \in [Doc -> Content \cup {"none"}]
      BY <2>1 DEF Upload, IngestionInv, TypeOK
    <3> QED
      BY <1>1, <2>1, <3>1, <3>2, <3>3 DEF Upload, IngestionInv, TypeOK
  <2>2. CASE CompleteUpload(d)
    <3>1. events' \in [Doc -> Nat]
      BY <2>2 DEF CompleteUpload, IngestionInv, TypeOK
    <3> QED
      BY <1>1, <2>2, <3>1 DEF CompleteUpload, IngestionInv, TypeOK
  <2>3. CASE DeliveryFails(d)
    <3>1. events' \in [Doc -> Nat]
      BY <2>3 DEF DeliveryFails, IngestionInv, TypeOK
    <3> QED
      BY <1>1, <2>3, <3>1 DEF DeliveryFails, Report, IngestionInv, TypeOK
  <2> QED
    BY <2>1, <2>2, <2>3
<1>3. UNCHANGED <<admissionVars, doc, vectors, task, execution, announced>>
  BY DEF Upload, CompleteUpload, DeliveryFails
<1> QED
  BY <1>2, <1>3, EventKeeps

\* A document that is registered is new to every run.
LEMMA RegisterKeeps ==
  ASSUME IngestionInv, NEW d \in Doc, NEW supported \in BOOLEAN,
         RegisterUpload(d, supported)
  PROVE  IngestionInv'
<1> DEFINE r == [AbsentRow EXCEPT !.status = "queued", !.supported = supported]
<1>1. /\ r \in Row /\ r.status = "queued" /\ r.chunks = {}
  BY DEF AbsentRow, Row, Statuses
<1>2. /\ doc[d].status = "absent" /\ doc' = [doc EXCEPT ![d] = r]
      /\ UNCHANGED <<admissionVars, body, uploads, vectors, events, task, execution,
                     letters, unreported, announced>>
  BY DEF RegisterUpload
<1> HIDE DEF r
<1>3. Inv' /\ call' = call
  BY <1>2, StepInv DEF IngestionInv, admissionVars
<1>4. \A e \in Doc : doc'[e] = IF e = d THEN r ELSE doc[e]
  BY <1>2 DEF IngestionInv, TypeOK
<1>5. TypeOK'
  BY <1>1, <1>2, <1>3 DEF IngestionInv, TypeOK, Inv
<1>6. ASSUME NEW w \in Work
      PROVE  /\ call[w].outcome = "ok" => doc'[task[w].doc].status \in Final
             /\ ClaimFits(w, task[w], doc'[task[w].doc], vectors[task[w].doc])
  <2>1. /\ task[w] \in Task
        /\ call[w].outcome = "ok" => task[w].doc \in Doc /\ doc[task[w].doc].status \in Final
        /\ ClaimFits(w, task[w], doc[task[w].doc], vectors[task[w].doc])
        /\ task[w].at \in Past => task[w].doc \in Doc
    BY DEF IngestionInv, RunsFit, TypeOK, Task, Past, Places
  <2>2. CASE task[w].doc = d
    <3>1. task[w].at \notin Past
      BY <1>2, <2>1, <2>2 DEF ClaimFits, PlaceFits, Past, Half, SeenBy, AnnouncedAs, Task
    <3> QED
      BY <1>2, <2>1, <2>2, <3>1 DEF ClaimFits, Final
  <2>3. CASE task[w].doc # d
    BY <1>4, <2>1, <2>3 DEF ClaimFits
  <2> QED
    BY <2>2, <2>3
<1>7. RunsFit' /\ OneClaim'
  BY <1>2, <1>3, <1>6 DEF IngestionInv, RunsFit, OneClaim
<1>8. RowsFit'
  <2>1. ~OneTransaction => vectors[d] = "none" /\ announced[d] = {}
    BY <1>2, AnnouncedIsFinal DEF IngestionInv, RowsFit, RowFits, TypeOK, Fresh, Final
  <2>2. RowFits(r, vectors[d], announced[d])
    BY <1>1, <2>1 DEF RowFits, Half
  <2>3. \A e \in Doc : Reported(e) => Reported(e)'
    BY <1>2, <1>3 DEF Reported
  <2> QED
    BY <1>1, <1>2, <1>4, <2>2, <2>3 DEF IngestionInv, RowsFit, Half
<1> QED
  BY <1>3, <1>5, <1>7, <1>8 DEF IngestionInv

\* A delivery starts an invocation that is new to every document.
LEMMA DeliverKeeps ==
  ASSUME IngestionInv, NEW d \in Doc, NEW w \in Work, NEW again \in BOOLEAN,
         Deliver(d, w, again)
  PROVE  IngestionInv'
<1>1. /\ Start(w) /\ events[d] > 0
      /\ events' = [events EXCEPT ![d] = IF again THEN @ ELSE @ - 1]
      /\ task' = [task EXCEPT ![w] = [task[w] EXCEPT !.doc = d]]
      /\ execution' = [execution EXCEPT ![w] = "running"]
      /\ UNCHANGED <<doc, body, uploads, vectors, letters, unreported, announced>>
  BY DEF Deliver
<1>2. Inv'
  BY <1>1, StepInv DEF Next, IngestionInv
<1>3. /\ call[w].phase = "new" /\ call[w].outcome # "ok" /\ task[w].doc = NoDoc
      /\ task[w] \in Task /\ call[w] \in Call /\ task[w].at \notin Places
  BY <1>1, DocAssumption DEF Start, IngestionInv, RunsFit, TypeOK, AdmissionTypeOK
<1>4. /\ call' = [call EXCEPT ![w] = [call[w] EXCEPT !.phase = "acquiring"]]
  BY <1>1 DEF Start, Move
<1>5. \A u \in Work : /\ call'[u].phase = IF u = w THEN "acquiring" ELSE call[u].phase
                      /\ call'[u].outcome = call[u].outcome
  BY <1>3, <1>4 DEF IngestionInv, Inv, AdmissionTypeOK, Call
<1>6. \A u \in Work : /\ task'[u].doc = IF u = w THEN d ELSE task[u].doc
                      /\ u # w => task'[u] = task[u]
                      /\ task'[u].at = task[u].at
                      /\ execution'[u] = IF u = w THEN "running" ELSE execution[u]
  BY <1>1, <1>3 DEF IngestionInv, TypeOK, Task
<1>7. TypeOK'
  <2>1. events' \in [Doc -> Nat]
    BY <1>1 DEF IngestionInv, TypeOK
  <2>2. [task[w] EXCEPT !.doc = d] \in Task
    BY <1>3 DEF Task
  <2> QED
    BY <1>1, <1>2, <2>1, <2>2 DEF IngestionInv, TypeOK, Inv
<1>8. task[w].at \notin Past
  BY <1>3 DEF Past, Places
<1>9. RunsFit'
  <2>1. ASSUME NEW u \in Work
        PROVE  /\ call'[u].phase = "new" <=> task'[u].doc = NoDoc
               /\ call'[u].phase \notin {"new", "ended"} => execution'[u] = "running"
               /\ task'[u].at \in Places => call'[u].phase = "working"
               /\ call'[u].outcome = "ok" =>
                     task'[u].doc \in Doc /\ doc[task'[u].doc].status \in Final
               /\ ClaimFits(u, task'[u], doc[task'[u].doc], vectors[task'[u].doc])
    <3>1. CASE u = w
      BY <1>3, <1>5, <1>6, <1>8, <3>1, DocAssumption DEF ClaimFits
    <3>2. CASE u # w
      BY <1>5, <1>6, <3>2 DEF IngestionInv, RunsFit
    <3> QED
      BY <3>1, <3>2
  <2> QED
    BY <1>1, <2>1 DEF RunsFit
<1>10. OneClaim'
  BY <1>6, <1>8 DEF IngestionInv, OneClaim
<1>11. RowsFit'
  <2>1. ASSUME NEW e \in Doc, Reported(e) PROVE Reported(e)'
    <3>1. PICK u \in Work : /\ task[u].doc = e
                            /\ \/ execution[u] = "running" /\ call[u].outcome # "ok"
                               \/ u \in letters \cup unreported
      BY <2>1 DEF Reported
    <3>2. u # w
      BY <1>3, <3>1, DocAssumption
    <3> QED
      BY <1>1, <1>5, <1>6, <3>1, <3>2 DEF Reported
  <2> QED
    BY <1>1, <2>1 DEF IngestionInv, RowsFit
<1> QED
  BY <1>2, <1>7, <1>9, <1>10, <1>11 DEF IngestionInv

\* An execution that did not succeed leaves a letter, or is known to have
\* failed to.
LEMMA ExecutionKeeps ==
  ASSUME IngestionInv, NEW w \in Work, EndExecution(w)
  PROVE  IngestionInv'
<1>1. /\ call[w].phase = "ended"
      /\ UNCHANGED <<admissionVars, doc, body, uploads, vectors, events, task, announced>>
  BY DEF EndExecution
<1>2. Inv' /\ call' = call
  BY <1>1, StepInv DEF IngestionInv, admissionVars
<1>3. /\ \A u \in Work \ {w} : execution'[u] = execution[u]
      /\ execution' \in [Work -> {"none", "running", "succeeded", "failed"}]
      /\ letters \subseteq letters' /\ unreported \subseteq unreported'
      /\ letters' \subseteq letters \cup {w} /\ unreported' \subseteq unreported \cup {w}
      /\ call[w].outcome # "ok" => w \in letters' \cup unreported'
  BY DEF EndExecution, Report, IngestionInv, TypeOK
<1>4. TypeOK'
  BY <1>1, <1>2, <1>3 DEF IngestionInv, TypeOK, Inv
<1>5. RunsFit' /\ OneClaim'
  BY <1>1, <1>2, <1>3 DEF IngestionInv, RunsFit, OneClaim
<1>6. ASSUME NEW e \in Doc, doc[e].status \in Half, Reported(e) PROVE Reported(e)'
  <2>1. PICK u \in Work : /\ task[u].doc = e
                          /\ \/ execution[u] = "running" /\ call[u].outcome # "ok"
                             \/ u \in letters \cup unreported
    BY <1>6 DEF Reported
  <2> QED
    BY <1>1, <1>2, <1>3, <2>1 DEF Reported
<1>7. RowsFit'
  BY <1>1, <1>6 DEF IngestionInv, RowsFit
<1> QED
  BY <1>2, <1>4, <1>5, <1>7 DEF IngestionInv

-----------------------------------------------------------------------------
(* Admission and time.                                                     *)

\* Steps of the admission move invocations that are not at work, and never
\* make one succeed that has not.
LEMMA AdmissionMoves ==
  ASSUME IngestionInv,
         \/ \E w \in Work : AdmissionStep(w) \/ AcquireFails(w) \/ DebitFails(w) \/ ReleaseFails(w)
         \/ \E k \in Slots : TimeToLive(k)
         \/ Tick
  PROVE  \A u \in Work :
            /\ call'[u].phase = "new" <=> call[u].phase = "new"
            /\ call[u].phase = "ended" => call'[u].phase = "ended"
            /\ call[u].phase = "working" => call'[u].phase = "working"
            /\ call'[u].outcome = "ok" => call[u].outcome = "ok"
<1>1. call \in [Work -> Call]
  BY DEF IngestionInv, Inv, AdmissionTypeOK
<1>2. ASSUME NEW w \in Work, call[w].phase \in {"acquiring", "admitting", "releasing"},
             NEW c, call' = [call EXCEPT ![w] = c], c.phase # "new",
             c.outcome = "ok" => call[w].outcome = "ok"
      PROVE  \A u \in Work :
                /\ call'[u].phase = "new" <=> call[u].phase = "new"
                /\ call[u].phase = "ended" => call'[u].phase = "ended"
                /\ call[u].phase = "working" => call'[u].phase = "working"
                /\ call'[u].outcome = "ok" => call[u].outcome = "ok"
  BY <1>1, <1>2
<1>3. ASSUME NEW w \in Work, NEW o, End(w, o), o = "ok" => call[w].outcome = "ok",
             call[w].phase \in {"acquiring", "admitting", "releasing"}
      PROVE  \E c : /\ call' = [call EXCEPT ![w] = c] /\ c.phase # "new"
                    /\ c.outcome = "ok" => call[w].outcome = "ok"
  <2> DEFINE c == [NewCall EXCEPT !.phase = "ended", !.outcome = o]
  <2>1. call' = [call EXCEPT ![w] = c] /\ c.phase = "ended" /\ c.outcome = o
    BY <1>3 DEF End, NewCall
  <2> HIDE DEF c
  <2> QED
    BY <1>3, <2>1
<1>4. ASSUME NEW w \in Work, NEW p, Move(w, p), p # "new"
      PROVE  \E c : /\ call' = [call EXCEPT ![w] = c] /\ c.phase # "new"
                    /\ c.outcome = "ok" => call[w].outcome = "ok"
  <2> DEFINE c == [call[w] EXCEPT !.phase = p]
  <2>1. call' = [call EXCEPT ![w] = c] /\ c.phase = p /\ c.outcome = call[w].outcome
    BY <1>1, <1>4 DEF Move, Call
  <2> HIDE DEF c
  <2> QED
    BY <1>4, <2>1
<1>5. ASSUME NEW w \in Work, NEW o, Leave(w, o), o # "ok"
      PROVE  \E c : /\ call' = [call EXCEPT ![w] = c] /\ c.phase # "new"
                    /\ c.outcome = "ok" => call[w].outcome = "ok"
  <2> DEFINE c == [call[w] EXCEPT !.phase = "releasing", !.outcome = o]
  <2>1. call' = [call EXCEPT ![w] = c] /\ c.phase = "releasing" /\ c.outcome = o
    BY <1>1, <1>5 DEF Leave, Call
  <2> HIDE DEF c
  <2> QED
    BY <1>5, <2>1
<1>6. ASSUME NEW w \in Work, call' = [call EXCEPT ![w].key = @ + 1]
      PROVE  \A u \in Work : /\ call'[u].phase = call[u].phase
                             /\ call'[u].outcome = call[u].outcome
  BY <1>1, <1>6 DEF Call
<1>7. ASSUME NEW w \in Work, TryAcquire(w) \/ AcquireFails(w)
      PROVE  \/ \E c : /\ call' = [call EXCEPT ![w] = c] /\ c.phase # "new"
                       /\ c.outcome = "ok" => call[w].outcome = "ok"
             \/ call' = [call EXCEPT ![w].key = @ + 1]
  BY <1>3, <1>4, <1>7 DEF TryAcquire, AcquireFails
<1>8. ASSUME NEW w \in Work, Debit(w) \/ DebitFails(w)
      PROVE  \E c : /\ call' = [call EXCEPT ![w] = c] /\ c.phase # "new"
                    /\ c.outcome = "ok" => call[w].outcome = "ok"
  BY <1>4, <1>5, <1>8 DEF Debit, DebitFails
<1>9. ASSUME NEW w \in Work, Release(w) \/ ReleaseFails(w)
      PROVE  \E c : /\ call' = [call EXCEPT ![w] = c] /\ c.phase # "new"
                    /\ c.outcome = "ok" => call[w].outcome = "ok"
  BY <1>3, <1>9 DEF Release, ReleaseFails
<1>10. \A w \in Work :
          /\ TryAcquire(w) \/ AcquireFails(w) => call[w].phase = "acquiring"
          /\ Debit(w) \/ DebitFails(w) => call[w].phase = "admitting"
          /\ Release(w) \/ ReleaseFails(w) => call[w].phase = "releasing"
  BY DEF TryAcquire, AcquireFails, Debit, DebitFails, Release, ReleaseFails
<1>11. ASSUME \/ \E k \in Slots : TimeToLive(k)
              \/ Tick
       PROVE  \A u \in Work : /\ call'[u].phase = call[u].phase
                              /\ call'[u].outcome = call[u].outcome
  BY <1>1, <1>11 DEF TimeToLive, Tick, Call
<1>12. ASSUME NEW w \in Work,
              AdmissionStep(w) \/ AcquireFails(w) \/ DebitFails(w) \/ ReleaseFails(w)
       PROVE  \A u \in Work :
                 /\ call'[u].phase = "new" <=> call[u].phase = "new"
                 /\ call[u].phase = "ended" => call'[u].phase = "ended"
                 /\ call[u].phase = "working" => call'[u].phase = "working"
                 /\ call'[u].outcome = "ok" => call[u].outcome = "ok"
  <2>1. CASE call' = [call EXCEPT ![w].key = @ + 1]
    BY <1>6, <2>1
  <2>2. CASE \E c : /\ call' = [call EXCEPT ![w] = c] /\ c.phase # "new"
                    /\ c.outcome = "ok" => call[w].outcome = "ok"
    BY <1>2, <1>10, <1>12, <2>2 DEF AdmissionStep
  <2> QED
    BY <1>7, <1>8, <1>9, <1>12, <2>1, <2>2 DEF AdmissionStep
<1> QED
  BY <1>11, <1>12

LEMMA AdmissionKeeps ==
  ASSUME IngestionInv, UNCHANGED documentVars,
         \/ \E w \in Work : AdmissionStep(w) \/ AcquireFails(w) \/ DebitFails(w) \/ ReleaseFails(w)
         \/ \E k \in Slots : TimeToLive(k)
         \/ Tick
  PROVE  IngestionInv'
<1>1. Inv'
  BY StepInv DEF Next, AdmissionFault, IngestionInv
<1>2. UNCHANGED <<doc, body, uploads, vectors, events, task, execution, letters,
                  unreported, announced>>
  BY DEF documentVars
<1>3. \A u \in Work : /\ call[u].phase \in Phases /\ call'[u].phase \in Phases
                      /\ call'[u].phase = "new" <=> call[u].phase = "new"
                      /\ call[u].phase = "ended" => call'[u].phase = "ended"
                      /\ call[u].phase = "working" => call'[u].phase = "working"
                      /\ call'[u].outcome = "ok" => call[u].outcome = "ok"
  BY <1>1, AdmissionMoves DEF IngestionInv, Inv, AdmissionTypeOK, Call
<1>4. TypeOK'
  BY <1>1, <1>2 DEF IngestionInv, TypeOK, Inv
<1>5. RunsFit' /\ OneClaim'
  BY <1>2, <1>3 DEF IngestionInv, RunsFit, OneClaim
<1>6. RowsFit'
  BY <1>2, <1>3 DEF IngestionInv, RowsFit, Reported
<1> QED
  BY <1>1, <1>4, <1>5, <1>6 DEF IngestionInv

LEMMA IngestionInit == Init => IngestionInv
<1> SUFFICES ASSUME Init PROVE IngestionInv
  OBVIOUS
<1>1. Inv /\ AdmissionTypeOK /\ call = [w \in Work |-> NewCall]
  BY InitInv DEF Init, Inv, AdmissionInit
<1>2. /\ AbsentRow \in Row /\ AbsentRow.status = "absent" /\ AbsentRow.chunks = {}
      /\ NewTask.doc = NoDoc /\ NewTask.at = "idle" /\ NewTask \in Task
      /\ NewCall.phase = "new" /\ NewCall.outcome = "none"
  BY DEF AbsentRow, Row, Statuses, NewTask, Task, NewCall
<1>3. TypeOK
  BY <1>1, <1>2, ModeAssumption DEF Init, TypeOK
<1>4. RunsFit /\ OneClaim
  BY <1>1, <1>2 DEF Init, RunsFit, OneClaim, ClaimFits, Past, Places
<1>5. RowsFit
  BY <1>2 DEF Init, RowsFit, RowFits, Half
<1> QED
  BY <1>1, <1>3, <1>4, <1>5 DEF IngestionInv

\* Every step keeps the invariant.
LEMMA IngestionKeeps == IngestionInv /\ [IngestionNext]_vars => IngestionInv'
<1> SUFFICES ASSUME IngestionInv, [IngestionNext]_vars PROVE IngestionInv'
  OBVIOUS
<1>1. ASSUME NEW d \in Doc, ApiStep(d) \/ DeliveryFails(d) PROVE IngestionInv'
  BY <1>1, RegisterKeeps, UploadKeeps DEF ApiStep
<1>2. ASSUME NEW d \in Doc, NEW w \in Work, NEW again \in BOOLEAN, Deliver(d, w, again)
      PROVE  IngestionInv'
  BY <1>2, DeliverKeeps
<1>3. ASSUME NEW w \in Work, PipelineStep(w) PROVE IngestionInv'
  <2>1. CASE Begin(w)
    BY <2>1, AsideKeeps DEF Begin
  <2>2. CASE ClaimForProcessing(w)
    BY <2>2, AsideKeeps, ClaimedKeeps DEF ClaimForProcessing
  <2>3. CASE LoadDocument(w)
    BY <2>3, OnwardKeeps DEF LoadDocument
  <2>4. CASE FetchBody(w)
    BY <2>4, FetchKeeps
  <2>5. CASE SetStatus(w)
    BY <2>5, SetStatusKeeps
  <2>6. CASE AddChunks(w)
    BY <2>6, AddChunksKeeps
  <2>7. CASE Embed(w)
    BY <2>7, OnwardKeeps DEF Embed
  <2>8. CASE Upsert(w)
    BY <2>8, UpsertKeeps
  <2>9. CASE Publish(w)
    BY <2>9, PublishKeeps
  <2>10. CASE Return(w)
    BY <2>10, ReturnKeeps
  <2>11. CASE Raise(w)
    BY <2>11, RaiseKeeps
  <2> QED
    BY <1>3, <2>1, <2>2, <2>3, <2>4, <2>5, <2>6, <2>7, <2>8, <2>9, <2>10, <2>11
    DEF PipelineStep
<1>4. ASSUME NEW w \in Work, PipelineFault(w) PROVE IngestionInv'
  <2>1. CASE FetchFails(w)
    BY <2>1, AsideKeeps, OnwardKeeps DEF FetchFails
  <2>2. CASE DatabaseFails(w)
    BY <2>2, DatabaseFailsKeeps
  <2>3. CASE EmbedFails(w)
    BY <2>3, OnwardKeeps DEF EmbedFails
  <2>4. CASE UpsertFails(w)
    BY <2>4, UpsertKeeps
  <2>5. CASE WorkerDies(w)
    BY <2>5, RaiseKeeps
  <2> QED
    BY <1>4, <2>1, <2>2, <2>3, <2>4, <2>5 DEF PipelineFault
<1>5. ASSUME NEW w \in Work, EndExecution(w) PROVE IngestionInv'
  BY <1>5, ExecutionKeeps
<1>6. CASE AdmissionOnly
  BY <1>6, AdmissionKeeps DEF AdmissionOnly
<1>7. CASE \E w \in Work : /\ AcquireFails(w) \/ DebitFails(w) \/ ReleaseFails(w)
                           /\ UNCHANGED documentVars
  BY <1>7, AdmissionKeeps
<1>8. CASE UNCHANGED vars
  <2>1. /\ UNCHANGED admissionVars
        /\ UNCHANGED <<doc, body, uploads, vectors, events, task, execution, letters,
                       unreported, announced>>
    BY <1>8 DEF vars, documentVars
  <2>2. TypeOK'
    BY <2>1 DEF IngestionInv, TypeOK, AdmissionTypeOK, admissionVars
  <2> QED
    BY <2>1, <2>2, EventKeeps
<1>9. CASE IngestionNext
  BY <1>1, <1>2, <1>3, <1>4, <1>5, <1>6, <1>7, <1>9 DEF IngestionNext, Steps, Faults
<1> QED
  BY <1>8, <1>9

-----------------------------------------------------------------------------
(* The theorems.                                                           *)

\* The invariant the other results rest on. One run at most is past the claim
\* of a document, and the place it is at determines the row it sees.
THEOREM IngestionInductive == IngestionSpec => []IngestionInv
BY IngestionInit, IngestionKeeps, PTL DEF IngestionSpec

\* Rows, objects, runs and executions keep their types.
THEOREM IngestionTypes == IngestionSpec => []TypeOK
<1>1. IngestionInv => TypeOK
  BY DEF IngestionInv
<1> QED
  BY <1>1, IngestionInductive, PTL

\* A document's chunks are written by one run, however often its event arrives
\* or its object is written again, for the deployed worker (claim_for_processing
\* in a transaction of its own) and for the local one, whose claim stays
\* uncommitted until its run ends.
THEOREM OneRunWrites == IngestionSpec => []OneRunPerDocument
<1>1. IngestionInv => OneRunPerDocument
  <2>1. Places \ {"claim", "raise"} \subseteq Past
    BY DEF Places, Past
  <2> QED
    BY <2>1 DEF IngestionInv, TypeOK, Task, OneClaim, RowsFit, RowFits, OneRunPerDocument
<1> QED
  BY <1>1, IngestionInductive, PTL

\* What the deployed worker announces of a document is what its row says, then
\* and later: its status is committed before the event is sent, and final. The
\* local worker sends its events before its commit, and they may be untrue.
THEOREM EventsAreTrueWhenDeployed == ~OneTransaction /\ IngestionSpec => []EventsAreTrue
<1>1. ~OneTransaction /\ IngestionInv => EventsAreTrue
  BY DEF IngestionInv, RowsFit, RowFits, EventsAreTrue
<1>2. ~OneTransaction => [](~OneTransaction)
  OBVIOUS
<1> QED
  BY <1>1, <1>2, IngestionInductive, PTL

\* A document left half-processed has an execution that still runs, has its
\* letter in the queue or has lost it: no fault leaves one behind in silence
\* (the Catch and the dead-letter queue of ingestion_stack.py).
THEOREM AbandonedAreReported == IngestionSpec => []AbandonedIsReported
<1>1. IngestionInv => AbandonedIsReported
  BY DEF IngestionInv, RowsFit, Reported, Half, AbandonedIsReported
<1> QED
  BY <1>1, IngestionInductive, PTL

-----------------------------------------------------------------------------
(* The deployed pipeline implements the life cycle.                        *)

LifecycleStep == [Lifecycle!Next]_<<[d \in Doc |-> doc[d].status], Searchable>>

\* A row whose status advances, with its chunks and vectors as they were.
LEMMA RowAdvances ==
  ASSUME IngestionInv, NEW d \in Doc, NEW r \in Row,
         doc' = [doc EXCEPT ![d] = r], vectors' = vectors, r.chunks = doc[d].chunks,
         r.status \in Lifecycle!Follows[doc[d].status],
         r.status = "ready" => d \in Searchable
  PROVE  LifecycleStep
<1>1. doc \in [Doc -> Row]
  BY DEF IngestionInv, TypeOK
<1>2. \A e \in Doc : doc'[e].chunks = doc[e].chunks
  BY <1>1
<1>3. Searchable' = Searchable
  BY <1>2 DEF Searchable
<1>4. [e \in Doc |-> doc'[e].status] = [[e \in Doc |-> doc[e].status] EXCEPT ![d] = r.status]
  BY <1>1
<1>5. r.status \in Lifecycle!Status
  BY DEF Row, Statuses, Lifecycle!Status
<1>6. Lifecycle!Advance(d, r.status)
  BY <1>3, <1>4 DEF Lifecycle!Advance
<1> QED
  BY <1>5, <1>6 DEF Lifecycle!Next, LifecycleStep

\* A row that keeps its status while its chunks or vectors are stored, and
\* could not be found before.
LEMMA RowIndexes ==
  ASSUME IngestionInv, NEW d \in Doc, NEW r \in Row, NEW v,
         doc' = [doc EXCEPT ![d] = r], vectors' = [vectors EXCEPT ![d] = v],
         doc[d].status = "indexing", r.status = "indexing", vectors[d] = "none"
  PROVE  LifecycleStep
<1>1. doc \in [Doc -> Row] /\ vectors \in [Doc -> {"none", "some", "all"}]
  BY DEF IngestionInv, TypeOK
<1>2. [e \in Doc |-> doc'[e].status] = [e \in Doc |-> doc[e].status]
  BY <1>1
<1>3. Searchable' = Searchable \/ Searchable' = Searchable \cup {d}
  BY <1>1 DEF Searchable
<1>4. CASE Searchable' = Searchable
  BY <1>2, <1>4 DEF LifecycleStep
<1>5. CASE Searchable' = Searchable \cup {d}
  BY <1>2, <1>5 DEF LifecycleStep, Lifecycle!Next, Lifecycle!Index
<1> QED
  BY <1>3, <1>4, <1>5

LEMMA RegisterAdvances ==
  ASSUME IngestionInv, NEW d \in Doc, NEW supported \in BOOLEAN,
         RegisterUpload(d, supported)
  PROVE  LifecycleStep
<1> DEFINE r == [AbsentRow EXCEPT !.status = "queued", !.supported = supported]
<1>1. /\ r \in Row /\ r.status = "queued" /\ r.chunks = {}
  BY DEF AbsentRow, Row, Statuses
<1>2. /\ doc[d].status = "absent" /\ doc' = [doc EXCEPT ![d] = r] /\ vectors' = vectors
  BY DEF RegisterUpload
<1> HIDE DEF r
<1>3. doc[d].chunks = {}
  BY <1>2 DEF IngestionInv, RowsFit, RowFits, Fresh
<1>4. "queued" \in Lifecycle!Follows["absent"]
  BY DEF Lifecycle!Follows
<1> QED
  BY <1>1, <1>2, <1>3, <1>4, RowAdvances

LEMMA ClaimAdvances ==
  ASSUME IngestionInv, ~OneTransaction, NEW w \in Work, At(w, "claim"), NEW next,
         Claimable(doc[task[w].doc]),
         Write(w, [doc[task[w].doc] EXCEPT !.status = "extracting"], next)
  PROVE  LifecycleStep
<1> DEFINE d == task[w].doc
           r == [doc[d] EXCEPT !.status = "extracting"]
<1>1. d \in Doc /\ doc[d] \in Row /\ doc[d].status = "queued"
  BY RunFacts DEF At, AtPlace, Running, Claimable
<1>2. r \in Row /\ r.status = "extracting" /\ r.chunks = doc[d].chunks
  BY <1>1 DEF Row, Statuses
<1>3. doc' = [doc EXCEPT ![d] = r] /\ vectors' = vectors
  BY DEF Write, At
<1> HIDE DEF r
<1>4. "extracting" \in Lifecycle!Follows["queued"]
  BY DEF Lifecycle!Follows
<1> QED
  BY <1>1, <1>2, <1>3, <1>4, RowAdvances

\* The statuses that places set follow those their runs see; only a document
\* whose chunks and vectors are all stored becomes ready.
LEMMA StatusAdvances ==
  ASSUME IngestionInv, ~OneTransaction, NEW w \in Work, NEW place \in DOMAIN SetAt,
         At(w, place),
         doc' = [doc EXCEPT ![task[w].doc] = [Seen(w) EXCEPT !.status = SetAt[place]]]
  PROVE  LifecycleStep
<1> DEFINE d == task[w].doc
           r == [Seen(w) EXCEPT !.status = SetAt[place]]
<1>1. /\ place \in Past /\ place \notin {"tell", "return"}
      /\ r \in Row /\ r.status = SetAt[place] /\ r.chunks = Seen(w).chunks
  BY StatusSet
<1>2. /\ Running(w) /\ task[w].at = place /\ PlaceFits(w, task[w], Seen(w))
      /\ VectorsFit(task[w], vectors[d]) /\ Seen(w) = doc[d]
  BY <1>1, SeenFacts DEF SeenBy
<1>3. d \in Doc
  BY <1>2, RunFacts
<1>4. doc' = [doc EXCEPT ![d] = r] /\ vectors' = vectors
  BY DEF At
<1> HIDE DEF r
<1>5. place \in {"quarantine", "fail", "index", "finish"}
  BY DEF SetAt
<1>6. SetAt[place] \in Lifecycle!Follows[doc[d].status]
  BY <1>2, <1>5 DEF PlaceFits, Half, SetAt, Lifecycle!Follows
<1>7. SetAt[place] = "ready" => d \in Searchable
  <2>1. SetAt[place] = "ready" => place = "finish"
    BY <1>5 DEF SetAt
  <2> QED
    BY <1>2, <1>3, <2>1 DEF PlaceFits, VectorsFit, Searchable
<1>8. /\ r.chunks = doc[d].chunks /\ r.status \in Lifecycle!Follows[doc[d].status]
      /\ r.status = "ready" => d \in Searchable
  BY <1>1, <1>2, <1>6, <1>7
<1> QED
  BY <1>1, <1>3, <1>4, <1>8, RowAdvances

\* The chunks are stored before any vector is.
LEMMA ChunksIndex ==
  ASSUME IngestionInv, ~OneTransaction, NEW w \in Work, NEW next, At(w, "chunk"),
         Write(w, [Seen(w) EXCEPT !.chunks = @ \cup {w}], next)
  PROVE  LifecycleStep
<1> DEFINE d == task[w].doc
           r == [Seen(w) EXCEPT !.chunks = @ \cup {w}]
<1>1. r \in Row /\ r.status = "indexing"
  BY ChunksAdded
<1>2. /\ Running(w) /\ task[w].at = "chunk" /\ PlaceFits(w, task[w], Seen(w))
      /\ VectorsFit(task[w], vectors[d]) /\ Seen(w) = doc[d]
  BY SeenFacts DEF SeenBy, Past
<1>3. doc[d].status = "indexing" /\ vectors[d] = "none" /\ d \in Doc
  BY <1>2, RunFacts DEF PlaceFits, VectorsFit
<1>4. doc' = [doc EXCEPT ![d] = r] /\ vectors' = vectors
  BY DEF Write, At
<1> HIDE DEF r
<1>5. vectors' = [vectors EXCEPT ![d] = "none"]
  BY <1>3, <1>4 DEF IngestionInv, TypeOK
<1> QED
  BY <1>1, <1>3, <1>4, <1>5, RowIndexes

\* The vectors make a document searchable while it is being indexed.
LEMMA UpsertIndexes ==
  ASSUME IngestionInv, ~OneTransaction, NEW w \in Work, Upsert(w) \/ UpsertFails(w)
  PROVE  LifecycleStep
<1> DEFINE d == task[w].doc
<1>1. /\ Running(w) /\ task[w].at = "upsert" /\ doc' = doc
  BY DEF Upsert, UpsertFails, AtPlace, Running, GoTo
<1>2. /\ d \in Doc /\ doc[d] \in Row /\ doc = [doc EXCEPT ![d] = doc[d]]
      /\ ClaimFits(w, task[w], doc[d], vectors[d])
  BY <1>1, RunFacts DEF IngestionInv, TypeOK
<1>3. doc[d].status = "indexing" /\ vectors[d] = "none"
  BY <1>1, <1>2 DEF ClaimFits, PlaceFits, VectorsFit, SeenBy, Past
<1>4. vectors = [vectors EXCEPT ![d] = vectors[d]]
  BY <1>2 DEF IngestionInv, TypeOK
<1>5. \E v : vectors' = [vectors EXCEPT ![d] = v]
  BY <1>4 DEF Upsert, UpsertFails
<1> QED
  BY <1>1, <1>2, <1>3, <1>5, RowIndexes

LEMMA NextAdvances ==
  ASSUME IngestionInv, ~OneTransaction, [IngestionNext]_vars
  PROVE  LifecycleStep
<1>0. ASSUME doc' = doc, vectors' = vectors PROVE LifecycleStep
  BY <1>0 DEF LifecycleStep, Searchable
<1>1. ASSUME NEW d \in Doc, ApiStep(d) \/ DeliveryFails(d) PROVE LifecycleStep
  BY <1>0, <1>1, RegisterAdvances DEF ApiStep, Upload, CompleteUpload, DeliveryFails
<1>2. ASSUME NEW d \in Doc, NEW w \in Work, NEW again \in BOOLEAN, Deliver(d, w, again)
      PROVE  LifecycleStep
  BY <1>0, <1>2 DEF Deliver
<1>3. ASSUME NEW w \in Work, PipelineStep(w) PROVE LifecycleStep
  <2>1. CASE Begin(w) \/ LoadDocument(w) \/ FetchBody(w) \/ Embed(w)
    BY <1>0, <2>1 DEF Begin, LoadDocument, FetchBody, Embed, GoTo, At
  <2>2. CASE ClaimForProcessing(w)
    BY <1>0, <2>2, ClaimAdvances DEF ClaimForProcessing, GoTo, At
  <2>3. CASE SetStatus(w)
    BY <2>3, StatusAdvances DEF SetStatus
  <2>4. CASE AddChunks(w)
    BY <2>4, ChunksIndex DEF AddChunks
  <2>5. CASE Upsert(w)
    BY <2>5, UpsertIndexes
  <2>6. CASE Publish(w) \/ Return(w) \/ Raise(w)
    BY <1>0, <2>6 DEF Publish, Return, Raise, GoTo
  <2> QED
    BY <1>3, <2>1, <2>2, <2>3, <2>4, <2>5, <2>6 DEF PipelineStep
<1>4. ASSUME NEW w \in Work, PipelineFault(w) PROVE LifecycleStep
  <2>1. CASE FetchFails(w) \/ EmbedFails(w) \/ WorkerDies(w)
    BY <1>0, <2>1 DEF FetchFails, EmbedFails, WorkerDies, GoTo, At
  <2>2. CASE DatabaseFails(w)
    <3>1. PICK place \in {"claim", "load", "chunk"} \cup DOMAIN SetAt :
            /\ At(w, place)
            /\ \/ GoTo(w, "raise")
               \/ /\ place \in DOMAIN SetAt
                  /\ Write(w, [Seen(w) EXCEPT !.status = SetAt[place]], "raise")
               \/ /\ place = "chunk"
                  /\ Write(w, [Seen(w) EXCEPT !.chunks = @ \cup {w}], "raise")
               \/ /\ place = "claim" /\ ~RowIsLocked(w)
                  /\ Claimable(doc[task[w].doc])
                  /\ Write(w, [doc[task[w].doc] EXCEPT !.status = "extracting"], "raise")
      BY <2>2 DEF DatabaseFails
    <3>2. CASE GoTo(w, "raise")
      BY <1>0, <3>1, <3>2 DEF GoTo, At
    <3>3. CASE /\ place \in DOMAIN SetAt
               /\ Write(w, [Seen(w) EXCEPT !.status = SetAt[place]], "raise")
      BY <3>1, <3>3, StatusAdvances DEF Write
    <3>4. CASE place = "chunk" /\ Write(w, [Seen(w) EXCEPT !.chunks = @ \cup {w}], "raise")
      BY <3>1, <3>4, ChunksIndex
    <3>5. CASE /\ place = "claim" /\ Claimable(doc[task[w].doc])
               /\ Write(w, [doc[task[w].doc] EXCEPT !.status = "extracting"], "raise")
      BY <3>1, <3>5, ClaimAdvances
    <3> QED
      BY <3>1, <3>2, <3>3, <3>4, <3>5
  <2>3. CASE UpsertFails(w)
    BY <2>3, UpsertIndexes
  <2> QED
    BY <1>4, <2>1, <2>2, <2>3 DEF PipelineFault
<1>5. ASSUME NEW w \in Work, EndExecution(w) PROVE LifecycleStep
  BY <1>0, <1>5 DEF EndExecution
<1>6. ASSUME UNCHANGED documentVars PROVE LifecycleStep
  BY <1>0, <1>6 DEF documentVars
<1>7. CASE UNCHANGED vars
  BY <1>6, <1>7 DEF vars
<1>8. CASE IngestionNext
  BY <1>1, <1>2, <1>3, <1>4, <1>5, <1>6, <1>8 DEF IngestionNext, Steps, Faults, AdmissionOnly
<1> QED
  BY <1>7, <1>8

\* The deployed pipeline implements DocumentLifecycle: a document is taken up
\* once, its final statuses are final, and it is ready only when its chunks
\* and all of their vectors are stored. (A local run's statuses are seen only
\* when it commits, and skip those between.)
THEOREM DeployedImplementsLifecycle ==
  ~OneTransaction /\ IngestionSpec => ImplementsLifecycle
<1>1. Init => Lifecycle!Init
  BY DEF Init, Lifecycle!Init, Searchable, AbsentRow
<1>2. ~OneTransaction /\ IngestionInv /\ [IngestionNext]_vars =>
        [Lifecycle!Next]_<<[d \in Doc |-> doc[d].status], Searchable>>
  BY NextAdvances DEF LifecycleStep
<1>3. ~OneTransaction => [](~OneTransaction)
  OBVIOUS
<1> QED
  BY <1>1, <1>2, <1>3, IngestionInductive, PTL
  DEF IngestionSpec, ImplementsLifecycle, Lifecycle!Spec

\* Ingestion admits its runs as WorkAdmission does: every run that is at work
\* holds a slot of its own, and no more are at work than there are slots.
THEOREM IngestionIsAdmitted ==
  IngestionSpec => []SlotIsKept /\ ImplementsSemaphore
<1>1. IngestionInv => SlotIsKept
  BY DEF IngestionInv, Inv, LeaseRuns, Holds, SlotIsKept
<1>2. Init => Permit!Init
  BY DEF Init, AdmissionInit, Permit!Init, Working, NewCall
<1>3. IngestionInv /\ [IngestionNext]_vars => [Permit!Next]_Working
  <2> SUFFICES ASSUME IngestionInv, [IngestionNext]_vars PROVE [Permit!Next]_Working
    OBVIOUS
  <2>1. [Next]_admissionVars
    <3>1. ASSUME NEW w \in Work, PipelineStep(w) PROVE [Next]_admissionVars
      BY <3>1 DEF PipelineStep, Begin, ClaimForProcessing, LoadDocument, FetchBody,
         SetStatus, AddChunks, Embed, Upsert, Publish, Return, Raise, At, AtPlace, Outside, Next
    <3>2. ASSUME NEW w \in Work, PipelineFault(w) PROVE [Next]_admissionVars
      BY <3>2 DEF PipelineFault, FetchFails, DatabaseFails, EmbedFails, UpsertFails,
         WorkerDies, At, AtPlace, Outside, Next, AdmissionFault
    <3>3. ASSUME NEW d \in Doc, ApiStep(d) \/ DeliveryFails(d) PROVE [Next]_admissionVars
      BY <3>3 DEF ApiStep, RegisterUpload, Upload, CompleteUpload, DeliveryFails
    <3>4. ASSUME NEW d \in Doc, NEW w \in Work, NEW again \in BOOLEAN, Deliver(d, w, again)
          PROVE  [Next]_admissionVars
      BY <3>4 DEF Deliver, Next
    <3>5. ASSUME NEW w \in Work, EndExecution(w) PROVE [Next]_admissionVars
      BY <3>5 DEF EndExecution
    <3>6. CASE AdmissionOnly
      BY <3>6 DEF AdmissionOnly, Next
    <3>7. CASE \E w \in Work : AcquireFails(w) \/ DebitFails(w) \/ ReleaseFails(w)
      BY <3>7 DEF Next, AdmissionFault
    <3>8. CASE UNCHANGED vars
      BY <3>8 DEF vars
    <3>9. CASE IngestionNext
      BY <3>1, <3>2, <3>3, <3>4, <3>5, <3>6, <3>7, <3>9 DEF IngestionNext, Steps, Faults
    <3> QED
      BY <3>8, <3>9
  <2> QED
    BY <2>1, StepRefines DEF IngestionInv
<1> QED
  BY <1>1, <1>2, <1>3, IngestionInductive, PTL
  DEF IngestionSpec, ImplementsSemaphore, Permit!Spec
===============================================================================
