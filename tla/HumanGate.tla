----------------------------- MODULE HumanGate ------------------------------
(***************************************************************************)
(* What the approval subsystem promises, with no row, lease, callback or   *)
(* Lambda in sight: a workflow that waits for a person moves on only after *)
(* that person's first verdict, moves on once, and performs at most one    *)
(* action, the one that verdict authorises.                                *)
(***************************************************************************)
CONSTANTS Workflows,
          Verdicts,
          NoVerdict,
          NoAction,
          Authorised      \* Authorised[w][v]: the action verdict v authorises for
                          \* workflow w, NoAction if it authorises none

VARIABLES verdict,    \* the verdict recorded for each workflow
          resumed,    \* the workflows whose wait has ended with their verdict
          performed   \* the action performed for each workflow

vars == <<verdict, resumed, performed>>

Init ==
    /\ verdict   = [w \in Workflows |-> NoVerdict]
    /\ resumed   = {}
    /\ performed = [w \in Workflows |-> NoAction]

\* The first verdict is the last.
Decide(w, v) ==
    /\ verdict[w] = NoVerdict
    /\ verdict' = [verdict EXCEPT ![w] = v]
    /\ UNCHANGED <<resumed, performed>>

\* The wait ends once, with a verdict on record.
Resume(w) ==
    /\ verdict[w] # NoVerdict
    /\ w \notin resumed
    /\ resumed' = resumed \cup {w}
    /\ UNCHANGED <<verdict, performed>>

\* The authorised action, once, after the wait has ended.
Perform(w) ==
    /\ w \in resumed
    /\ performed[w] = NoAction
    /\ Authorised[w][verdict[w]] # NoAction
    /\ performed' = [performed EXCEPT ![w] = Authorised[w][verdict[w]]]
    /\ UNCHANGED <<verdict, resumed>>

Next == \E w \in Workflows : (\E v \in Verdicts : Decide(w, v)) \/ Resume(w) \/ Perform(w)

Spec == Init /\ [][Next]_vars
=============================================================================
