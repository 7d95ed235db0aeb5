SPECIFICATION Spec
CONSTANTS
    Request = {r1, r2, r3, r4, r5}
    NoOne = NoOne
    Control = {c1}
    Evidence = {e1}
    NewStatuses = {"satisfied", "not_applicable"}
    NewWeights = {}
    OverrideScores = {8000}
INVARIANTS
    ComplianceTypeOK
    ScoreIsCurrent
    ConstraintsHold
    ReadsAgree
PROPERTIES
    ImplementsRegister
    OverrideStands
SYMMETRY RequestSymmetry
CHECK_DEADLOCK FALSE
