--------------------------- MODULE DocumentLifecycle ---------------------------
(* What ingestion promises about a document: it is taken up once, goes        *)
(* through its statuses in order, is announced as what it became, and is      *)
(* ready only when every chunk of it can be searched.                         *)
CONSTANT Doc

VARIABLES status,     \* [Doc -> Status]
          indexed     \* the documents all of whose chunks are searchable

Status == {"absent", "queued", "extracting", "indexing", "ready", "failed", "quarantined"}

Init == status = [d \in Doc |-> "absent"] /\ indexed = {}

\* The order of the statuses; "ready", "failed" and "quarantined" are final.
Follows == [absent      |-> {"queued"},
            queued      |-> {"extracting"},
            extracting  |-> {"indexing", "failed", "quarantined"},
            indexing    |-> {"ready", "failed"},
            ready       |-> {},
            failed      |-> {},
            quarantined |-> {}]

Advance(d, to) ==
    /\ to \in Follows[status[d]]
    /\ to = "ready" => d \in indexed
    /\ status' = [status EXCEPT ![d] = to]
    /\ UNCHANGED indexed

Index(d) ==
    /\ status[d] = "indexing"
    /\ indexed' = indexed \cup {d}
    /\ UNCHANGED status

Next == \E d \in Doc : Index(d) \/ \E to \in Status : Advance(d, to)

Spec == Init /\ [][Next]_<<status, indexed>>
================================================================================
