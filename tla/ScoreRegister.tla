----------------------------- MODULE ScoreRegister -----------------------------
(* What the compliance service promises of an assessment: scores are recorded  *)
(* one revision after another, each of the inputs it was computed from; a      *)
(* change of the inputs makes the last one stale; only a current score is      *)
(* overridden or closes the assessment, and nothing changes a closed one.      *)
EXTENDS Integers

CONSTANTS Inputs,      \* what an assessment may be scored from
          Result(_)    \* the score of inputs

VARIABLES inputs,      \* the inputs as they are
          revisions,   \* the scores recorded
          current,     \* the last of them is that of the inputs
          overridden,  \* revisions a manager has overridden
          closed       \* the assessment is completed

registerVars == <<inputs, revisions, current, overridden, closed>>

Init ==
    /\ inputs \in Inputs
    /\ revisions = {}
    /\ current = FALSE
    /\ overridden = {}
    /\ closed = FALSE

IsLast(n) == \E s \in revisions : s.revision = n /\ \A t \in revisions : t.revision <= n

Change ==
    /\ ~closed
    /\ inputs' \in Inputs
    /\ current' = FALSE
    /\ UNCHANGED <<revisions, overridden, closed>>

Record ==
    /\ ~closed
    /\ \E s \in revisions' :
          /\ revisions' = revisions \cup {s}
          /\ IF revisions = {} THEN s.revision = 1 ELSE IsLast(s.revision - 1)
          /\ s.inputs = inputs /\ s.result = Result(inputs)
    /\ current' = TRUE
    /\ UNCHANGED <<inputs, overridden, closed>>

Override ==
    /\ current
    /\ \E s \in revisions : IsLast(s.revision) /\ overridden' = overridden \cup {s.revision}
    /\ UNCHANGED <<inputs, revisions, current, closed>>

Close ==
    /\ ~closed /\ current
    /\ closed' = TRUE
    /\ UNCHANGED <<inputs, revisions, current, overridden>>

Next == Change \/ Record \/ Override \/ Close

Spec == Init /\ [][Next]_registerVars
================================================================================
