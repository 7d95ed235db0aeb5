---------------------------- MODULE WorkAdmission ----------------------------
(* The admission of background work: fixed slots leased in a shared table and *)
(* a windowed counter, for the workers of one organization and one kind.      *)
(*                                                                            *)
(* An invocation reads the clock once, tries the slots in order, debits the   *)
(* counter of the current window, works, and gives its slot back. Any of its  *)
(* remote calls may be lost before or after it took effect, and the Lambda    *)
(* may die anywhere; then the slot stays taken until its lease runs out.      *)
(*                                                                            *)
(* Time is relative: `left` is expires_at minus the present, and the clock a  *)
(* worker read at its start lies `age` in the past.                           *)
EXTENDS Integers, FiniteSets

CONSTANTS Work,        \* invocations; each draws an owner nonce of its own
          NoOne,       \* the owner of a free slot
          NumSlots,    \* slots of the kind of work
          Lease,       \* LEASE_SECONDS
          Timeout,     \* the longest run of an invocation
          RateLimit,   \* debits of a window
          Window       \* the length of a window

ASSUME NoOneAssumption == NoOne \notin Work
ASSUME SlotAssumption == NumSlots \in Nat /\ RateLimit \in Nat /\ Window \in Nat \ {0}
\* LEASE_SECONDS exceeds the runtime of every Lambda that is admitted.
ASSUME LeaseAssumption == Lease \in Nat /\ Timeout \in Nat /\ Timeout < Lease

VARIABLES slot,        \* [1..NumSlots -> the lease on it]
          call,        \* [Work -> where the invocation is]
          hits,        \* the counter of the current window
          phase        \* the place in the current window

admissionVars == <<slot, call, hits, phase>>

Slots == 1 .. NumSlots

Phases == {"new", "acquiring", "admitting", "working", "releasing", "ended"}
Outcomes == {"none", "ok", "error", "denied", "dead"}
Call == [phase : Phases, key : Slots \cup {NumSlots + 1}, age : 0 .. Timeout,
         outcome : Outcomes]
NewCall == [phase |-> "new", key |-> 1, age |-> 0, outcome |-> "none"]

Free == [owner |-> NoOne, left |-> 0]

AdmissionTypeOK ==
    /\ slot \in [Slots -> [owner : Work \cup {NoOne}, left : -Timeout .. Lease]]
    /\ call \in [Work -> Call]
    /\ hits \in 0 .. RateLimit
    /\ phase \in 0 .. Window - 1

AdmissionInit ==
    /\ slot = [k \in Slots |-> Free]
    /\ call = [w \in Work |-> NewCall]
    /\ hits = 0
    /\ phase = 0

Running(w) == call[w].phase \notin {"new", "ended"}

Move(w, to) == call' = [call EXCEPT ![w].phase = to]
End(w, outcome) ==
    call' = [call EXCEPT ![w] = [NewCall EXCEPT !.phase = "ended", !.outcome = outcome]]
\* What the body and the debit raised is kept until the slot is given back.
Leave(w, outcome) ==
    call' = [call EXCEPT ![w].phase = "releasing", ![w].outcome = outcome]

------------------------------------------------------------------------------
(* Acquisition                                                                *)

\* The invocation reads the clock, floored, and draws its nonce.
Start(w) ==
    /\ call[w].phase = "new"
    /\ Move(w, "acquiring")
    /\ UNCHANGED <<slot, hits, phase>>

\* Mutations: the worker trusts a lease shorter than its own; a lease that does
\* not expire.
AcquirableEarly(k, age) == slot[k].owner = NoOne \/ slot[k].left <= 1 - age
AcquirableNever(k, age) == slot[k].owner = NoOne

\* attribute_not_exists(key) OR expires_at <= now, with the worker's own now.
Acquirable(k, age) == slot[k].owner = NoOne \/ slot[k].left <= -age

\* The lease runs from the worker's now.
Taken(w) == [owner |-> w, left |-> Lease - call[w].age]

\* The conditional PutItem on the slot the loop is at. Past the last slot the
\* invocation is refused with a RateLimitError.
TryAcquire(w) ==
    /\ call[w].phase = "acquiring"
    /\ IF call[w].key \in Slots
       THEN IF Acquirable(call[w].key, call[w].age)
            THEN /\ slot' = [slot EXCEPT ![call[w].key] = Taken(w)]
                 /\ Move(w, "admitting")
            ELSE /\ call' = [call EXCEPT ![w].key = @ + 1]
                 /\ UNCHANGED slot
       ELSE End(w, "denied") /\ UNCHANGED slot
    /\ UNCHANGED <<hits, phase>>

\* The PutItem raises: it may have taken the slot, and nobody gives it back.
AcquireFails(w) ==
    /\ call[w].phase = "acquiring" /\ call[w].key \in Slots
    /\ \/ UNCHANGED slot
       \/ /\ Acquirable(call[w].key, call[w].age)
          /\ slot' = [slot EXCEPT ![call[w].key] = Taken(w)]
    /\ End(w, "error")
    /\ UNCHANGED <<hits, phase>>

------------------------------------------------------------------------------
(* The debit, the work and the release                                        *)

\* The conditional UpdateItem on the counter of the window.
Debit(w) ==
    /\ call[w].phase = "admitting"
    /\ IF hits < RateLimit
       THEN hits' = hits + 1 /\ Move(w, "working")
       ELSE UNCHANGED hits /\ Leave(w, "denied")
    /\ UNCHANGED <<slot, phase>>

\* The debit raises; it may have been counted.
DebitFails(w) ==
    /\ call[w].phase = "admitting"
    /\ hits' \in {hits} \cup {h \in {hits + 1} : hits < RateLimit}
    /\ Leave(w, "error")
    /\ UNCHANGED <<slot, phase>>

\* The body returns or raises.
FinishWork(w, outcome) ==
    /\ call[w].phase = "working"
    /\ Leave(w, outcome)
    /\ UNCHANGED <<slot, hits, phase>>

Released(w) ==
    IF slot[call[w].key].owner = w THEN [slot EXCEPT ![call[w].key] = Free] ELSE slot

\* The conditional DeleteItem. A stale slot is only logged.
Release(w) ==
    /\ call[w].phase = "releasing"
    /\ slot' = Released(w)
    /\ End(w, call[w].outcome)
    /\ UNCHANGED <<hits, phase>>

\* The DeleteItem raises, which is only logged too; it may have taken effect.
ReleaseFails(w) ==
    /\ call[w].phase = "releasing"
    /\ slot' \in {slot, Released(w)}
    /\ End(w, call[w].outcome)
    /\ UNCHANGED <<hits, phase>>

\* The Lambda is killed.
Dies(w) ==
    /\ Running(w)
    /\ End(w, "dead")
    /\ UNCHANGED <<slot, hits, phase>>

------------------------------------------------------------------------------
(* Time                                                                       *)

\* The table's time-to-live removes a slot that has expired, some day.
TimeToLive(k) ==
    /\ slot[k].owner # NoOne /\ slot[k].left <= 0
    /\ slot' = [slot EXCEPT ![k] = Free]
    /\ UNCHANGED <<call, hits, phase>>

\* A mutation: a runtime that does not enforce the timeout.
TickUnbounded ==
    /\ slot' = [k \in Slots |->
          IF slot[k].owner = NoOne \/ slot[k].left = -Timeout THEN slot[k]
          ELSE [slot[k] EXCEPT !.left = @ - 1]]
    /\ call' = [w \in Work |->
          IF Running(w) THEN [call[w] EXCEPT !.age = @ + 1] ELSE call[w]]
    /\ phase' = (phase + 1) % Window
    /\ hits' = IF phase' = 0 THEN 0 ELSE hits

\* No invocation outlives its timeout. -Timeout is as far as `left` has to be
\* followed: a lease that old is over by every clock.
Tick ==
    /\ \A w \in Work : Running(w) => call[w].age < Timeout
    /\ slot' = [k \in Slots |->
          IF slot[k].owner = NoOne \/ slot[k].left = -Timeout THEN slot[k]
          ELSE [slot[k] EXCEPT !.left = @ - 1]]
    /\ call' = [w \in Work |->
          IF Running(w) THEN [call[w] EXCEPT !.age = @ + 1] ELSE call[w]]
    /\ phase' = (phase + 1) % Window
    /\ hits' = IF phase' = 0 THEN 0 ELSE hits

------------------------------------------------------------------------------
(* Specification                                                              *)

\* The steps of one invocation apart from its work.
AdmissionStep(w) == TryAcquire(w) \/ Debit(w) \/ Release(w)
AdmissionFault(w) == AcquireFails(w) \/ DebitFails(w) \/ ReleaseFails(w) \/ Dies(w)

Next ==
    \/ \E w \in Work :
          \/ Start(w) \/ AdmissionStep(w) \/ AdmissionFault(w)
          \/ \E outcome \in {"ok", "error"} : FinishWork(w, outcome)
    \/ \E k \in Slots : TimeToLive(k)
    \/ Tick

Spec == AdmissionInit /\ [][Next]_admissionVars

\* A started invocation goes on, and time passes. Nobody has to start one.
FairSpec ==
    /\ Spec
    /\ \A w \in Work :
          WF_admissionVars(AdmissionStep(w) \/ FinishWork(w, "ok"))
    /\ WF_admissionVars(Tick)

------------------------------------------------------------------------------
(* Properties                                                                 *)

\* The invocations that hold a slot while they are counted or at work.
InSlot == {w \in Work : call[w].phase \in {"admitting", "working"}}
Working == {w \in Work : call[w].phase = "working"}

\* The slot of an invocation that has one is still its own when it works and
\* when it gives it back: neither expiry nor the table's cleanup takes the slot
\* from a Lambda that runs, although another may have read the clock later.
SlotIsKept ==
    \A w \in Work :
        call[w].phase \in {"admitting", "working", "releasing"} =>
            /\ call[w].key \in Slots
            /\ slot[call[w].key].owner = w

\* WorkAdmission implements a semaphore with as many permits as slots: at most
\* NumSlots workers are at work together, whatever is lost or dies.
Permit == INSTANCE Semaphore WITH Permits <- NumSlots, inside <- Working
ImplementsSemaphore == Permit!Spec

\* A slot whose holder died, or whose PutItem was taken for lost, comes back: an
\* invocation that starts now could have it.
CapacityReturns == \A k \in Slots : []<>Acquirable(k, 0)
==============================================================================
