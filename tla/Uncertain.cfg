\* One fault is enough: the executor commits and its answer is lost.
SPECIFICATION Spec
CONSTANTS
    w1 = w1  w2 = w2  r1 = r1  r2 = r2  m1 = m1  m2 = m2  k1 = k1
    Workflows = {w1}
    Workers = {r1}
    Managers = {m1}
    Replays = {}
    Replacements <- OneReplacement
    Elsewhere = Elsewhere
    NoAction = NoAction
    NoWorker = NoWorker
    NoWorkflow = NoWorkflow
    Lease = 2
    RunLimit = 1
    BatchSize = 1
    MaxPolls = 2
    MaxFaults = 1
INVARIANTS
    FailedMeansUnexecuted
