---------------------------- MODULE ApprovalGate ----------------------------
(***************************************************************************)
(* Approval implements HumanGate.  The verdict is the decision on the row  *)
(* with its replacement action, the wait has ended when the execution left *)
(* it through the callback, and the action performed is the review on      *)
(* record.  Claims, leases, delivery markers, audit events, polls and      *)
(* faults are all invisible.                                               *)
(***************************************************************************)
EXTENDS Approval

Verdict == [decision : {"none"} \cup Verdicts, modified : Action \cup {NoAction}]

VerdictOf(rw) == [decision |-> rw.decision, modified |-> rw.modified]

\* A verdict other than a rejection authorises its action if that is the one
\* kind of action allowed, on its own workflow.
AuthorisedAction(w, v) ==
    IF v.decision \in {"approved", "modified"} /\ Allowed(w, EffectiveAction(w, v))
    THEN EffectiveAction(w, v) ELSE NoAction

Gate == INSTANCE HumanGate
          WITH Verdicts   <- Verdict,
               NoVerdict  <- VerdictOf(AbsentRow),
               Authorised <- [w \in Workflows |-> [v \in Verdict |-> AuthorisedAction(w, v)]],
               verdict    <- [w \in Workflows |-> VerdictOf(row[w])],
               resumed    <- {w \in Workflows : wf[w] \in ResumedStates},
               performed  <- review

\* However calls interleave and fail, the observable course of every workflow
\* is one the human gate allows: first verdict, one resume, at most the one
\* authorised action.
ImplementsHumanGate == Gate!Spec
=============================================================================
