\* One workflow, two overlapping recovery runs, two managers racing to decide,
\* a second invocation of the executor, up to three faults.
SPECIFICATION Spec
CONSTANTS
    w1 = w1  w2 = w2  r1 = r1  r2 = r2  m1 = m1  m2 = m2  k1 = k1
    Workflows = {w1}
    Workers = {r1, r2}
    Managers = {m1, m2}
    Replays = {k1}
    Replacements <- ThreeReplacements
    Elsewhere = Elsewhere
    NoAction = NoAction
    NoWorker = NoWorker
    NoWorkflow = NoWorkflow
    Lease = 2
    RunLimit = 1
    BatchSize = 1
    MaxPolls = 2
    MaxFaults = 3
SYMMETRY Symmetry
INVARIANTS
    TypeOK
    WorkflowFollowsDecision
    DeliveryFollowsResume
    ReviewIsAuthorised
    AuditMatchesRow
    ExecutedMeansReviewed
PROPERTIES
    TriggersNeverRefuse
    ImplementsHumanGate
