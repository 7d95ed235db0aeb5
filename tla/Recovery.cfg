\* Two workflows and batches that hold both: decisions reach their workflows,
\* claims are released and executions end under two faults.
SPECIFICATION FairSpec
CONSTANTS
    w1 = w1  w2 = w2  r1 = r1  r2 = r2  m1 = m1  m2 = m2  k1 = k1
    Workflows = {w1, w2}
    Workers = {r1}
    Managers = {m1}
    Replays = {}
    Replacements = {}
    Elsewhere = Elsewhere
    NoAction = NoAction
    NoWorker = NoWorker
    NoWorkflow = NoWorkflow
    Lease = 1
    RunLimit = 1
    BatchSize = 2
    MaxPolls = 2
    MaxFaults = 2
PROPERTIES
    DecisionReachesWorkflow
    ClaimsAreReleased
    ExecutionEnds
