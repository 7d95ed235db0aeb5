SPECIFICATION Spec
CONSTANTS
    Request = {r1, r2, r3, r4}
    NoOne = NoOne
    Control = {c1}
    Evidence = {e1}
    NewStatuses = {"satisfied"}
    NewWeights = {}
    OverrideScores = {8000}
PROPERTY
    OverrideIsActive
SYMMETRY RequestSymmetry
CHECK_DEADLOCK FALSE
