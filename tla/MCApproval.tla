----------------------------- MODULE MCApproval -----------------------------
(* Small instances of Approval for TLC.                                    *)
EXTENDS ApprovalGate, TLC

CONSTANTS w1, w2, r1, r2, m1, m2, k1

\* One replacement the allowlist accepts for its workflow, one it refuses for
\* its type and one that names a resource of nobody.
ThreeReplacements ==
    {[type |-> "create_security_review", resource |-> w1, summary |-> "edited"],
     [type |-> "other", resource |-> w1, summary |-> "edited"],
     [type |-> "create_security_review", resource |-> Elsewhere, summary |-> "edited"]}

OneReplacement == {[type |-> "create_security_review", resource |-> w1, summary |-> "edited"]}

Symmetry == Permutations({r1, r2}) \cup Permutations({m1, m2})
=============================================================================
