\* Two workflows and two overlapping recovery runs, whose batches go stale
\* while they work through them.
SPECIFICATION Spec
CONSTANTS
    w1 = w1  w2 = w2  r1 = r1  r2 = r2  m1 = m1  m2 = m2  k1 = k1
    Workflows = {w1, w2}
    Workers = {r1, r2}
    Managers = {m1}
    Replays = {}
    Replacements = {}
    Elsewhere = Elsewhere
    NoAction = NoAction
    NoWorker = NoWorker
    NoWorkflow = NoWorkflow
    Lease = 2
    RunLimit = 1
    BatchSize = 2
    MaxPolls = 2
    MaxFaults = 1
INVARIANTS
    HolderKeepsClaim
SYMMETRY Symmetry
