--------------------------- MODULE AdmissionProofs ---------------------------
(***************************************************************************)
(* Work admission for any number of invocations, slots and debits, any     *)
(* lease and any timeout shorter than it.  That a running invocation keeps *)
(* its slot is a fact about two clocks: its lease always has Lease minus   *)
(* the invocation's own age left, which the timeout keeps above zero, and  *)
(* nobody takes or removes a slot with time left.                          *)
(***************************************************************************)
EXTENDS WorkAdmission, FiniteSetTheorems, TLAPS

-----------------------------------------------------------------------------
(* The inductive invariant.                                                *)

Holds(w) == call[w].phase \in {"admitting", "working", "releasing"}

\* The lease runs with the clock its holder read.
LeaseRuns ==
    \A w \in Work : Holds(w) =>
        /\ call[w].key \in Slots
        /\ slot[call[w].key].owner = w
        /\ slot[call[w].key].left = Lease - call[w].age

Inv == AdmissionTypeOK /\ LeaseRuns

\* A new invocation and a free slot have their types.
LEMMA BlankTypes ==
  /\ NewCall \in Call
  /\ Free \in [owner : Work \cup {NoOne}, left : -Timeout .. Lease]
BY SlotAssumption, LeaseAssumption
DEF NewCall, Call, Phases, Outcomes, Slots, Free

\* An invocation that ends keeps the types and drops its hold.
LEMMA EndKeeps ==
  ASSUME AdmissionTypeOK, NEW w \in Work, NEW o \in Outcomes, End(w, o)
  PROVE  /\ call' \in [Work -> Call]
         /\ call'[w].phase = "ended"
         /\ \A v \in Work \ {w} : call'[v] = call[v]
<1>1. [NewCall EXCEPT !.phase = "ended", !.outcome = o] \in Call
  BY BlankTypes DEF Call, Phases
<1>2. call'[w] = [NewCall EXCEPT !.phase = "ended", !.outcome = o]
  BY DEF End, AdmissionTypeOK
<1> QED
  BY <1>1, <1>2 DEF End, AdmissionTypeOK, NewCall

\* One that moves on keeps the types, its key and its age.
LEMMA MoveKeeps ==
  ASSUME AdmissionTypeOK, NEW w \in Work, NEW p \in Phases, NEW o \in Outcomes,
         Move(w, p) \/ Leave(w, o)
  PROVE  /\ call' \in [Work -> Call]
         /\ call'[w].key = call[w].key /\ call'[w].age = call[w].age
         /\ call'[w].phase \in {p, "releasing"}
         /\ \A v \in Work \ {w} : call'[v] = call[v]
<1>1. call[w] \in Call
  BY DEF AdmissionTypeOK
<1>2. CASE Move(w, p)
  <2>1. call' = [call EXCEPT ![w] = [call[w] EXCEPT !.phase = p]]
    BY <1>2 DEF Move
  <2>2. [call[w] EXCEPT !.phase = p] \in Call
    BY <1>1 DEF Call
  <2> QED
    BY <1>1, <2>1, <2>2 DEF AdmissionTypeOK, Call
<1>3. CASE Leave(w, o)
  <2>1. call' = [call EXCEPT ![w] = [call[w] EXCEPT !.phase = "releasing", !.outcome = o]]
    BY <1>3 DEF Leave, AdmissionTypeOK
  <2>2. [call[w] EXCEPT !.phase = "releasing", !.outcome = o] \in Call
    BY <1>1 DEF Call, Phases
  <2> QED
    BY <1>1, <2>1, <2>2 DEF AdmissionTypeOK, Call
<1> QED
  BY <1>2, <1>3

\* A slot somebody holds is neither acquirable nor expired.
LEMMA HeldSlotsAreTaken ==
  ASSUME Inv, NEW v \in Work, Holds(v)
  PROVE  /\ slot[call[v].key].left > 0
         /\ \A w \in Work : ~ Acquirable(call[v].key, call[w].age)
<1>1. /\ call[v].key \in Slots /\ slot[call[v].key].owner = v
      /\ slot[call[v].key].left = Lease - call[v].age
  BY DEF Inv, LeaseRuns
<1>2. \A w \in Work : call[w].age \in 0 .. Timeout
  BY DEF Inv, AdmissionTypeOK, Call
<1> QED
  BY <1>1, <1>2, LeaseAssumption, NoOneAssumption DEF Acquirable

\* Two invocations do not hold one slot.
LEMMA HoldersDiffer ==
  ASSUME Inv, NEW v \in Work, NEW w \in Work, v # w, Holds(v), Holds(w)
  PROVE  call[v].key # call[w].key
BY DEF Inv, LeaseRuns

-----------------------------------------------------------------------------
(* Every step keeps the invariant.                                         *)

\* Slots that are held keep their lease when other slots change.
LEMMA OthersKeep ==
  ASSUME Inv, NEW w \in Work,
         \A v \in Work \ {w} : call'[v] = call[v],
         \A v \in Work \ {w} : Holds(v) => slot'[call[v].key] = slot[call[v].key],
         Holds(w)' => /\ call'[w].key \in Slots
                      /\ slot'[call'[w].key].owner = w
                      /\ slot'[call'[w].key].left = Lease - call'[w].age
  PROVE  LeaseRuns'
BY DEF Inv, LeaseRuns, Holds

\* A PutItem on the slot the loop is at, whether or not its answer comes back.
LEMMA TakenType ==
  ASSUME Inv, NEW w \in Work
  PROVE  Taken(w) \in [owner : Work \cup {NoOne}, left : -Timeout .. Lease]
<1>1. call[w].age \in 0 .. Timeout
  BY DEF Inv, AdmissionTypeOK, Call
<1> QED
  BY <1>1, LeaseAssumption DEF Taken

\* Only the holder's own slot is released.
LEMMA ReleasedKeeps ==
  ASSUME Inv, NEW w \in Work
  PROVE  /\ Released(w) \in [Slots -> [owner : Work \cup {NoOne}, left : -Timeout .. Lease]]
         /\ \A k \in Slots : slot[k].owner # w => Released(w)[k] = slot[k]
BY BlankTypes DEF Released, Inv, AdmissionTypeOK

LEMMA TickKeeps ==
  ASSUME Inv, Tick
  PROVE  Inv'
<1>1. \A k \in Slots : slot'[k] \in [owner : Work \cup {NoOne}, left : -Timeout .. Lease]
  <2> SUFFICES ASSUME NEW k \in Slots
               PROVE  slot'[k] \in [owner : Work \cup {NoOne}, left : -Timeout .. Lease]
    OBVIOUS
  <2>1. slot[k] \in [owner : Work \cup {NoOne}, left : -Timeout .. Lease]
    BY DEF Inv, AdmissionTypeOK
  <2>2. slot'[k] = IF slot[k].owner = NoOne \/ slot[k].left = -Timeout THEN slot[k]
                   ELSE [slot[k] EXCEPT !.left = slot[k].left - 1]
    BY DEF Tick
  <2> QED
    BY <2>1, <2>2, LeaseAssumption
<1>2. \A w \in Work : /\ call'[w] \in Call
                      /\ call'[w].phase = call[w].phase /\ call'[w].key = call[w].key
                      /\ call'[w].age = IF Running(w) THEN call[w].age + 1 ELSE call[w].age
  <2> SUFFICES ASSUME NEW w \in Work
               PROVE  /\ call'[w] \in Call
                      /\ call'[w].phase = call[w].phase /\ call'[w].key = call[w].key
                      /\ call'[w].age = IF Running(w) THEN call[w].age + 1 ELSE call[w].age
    OBVIOUS
  <2>1. call[w] \in Call /\ (Running(w) => call[w].age < Timeout)
    BY DEF Inv, AdmissionTypeOK, Tick
  <2>2. call'[w] = IF Running(w) THEN [call[w] EXCEPT !.age = call[w].age + 1] ELSE call[w]
    BY DEF Tick
  <2> QED
    BY <2>1, <2>2, LeaseAssumption DEF Call
<1>3. hits' \in 0 .. RateLimit /\ phase' \in 0 .. Window - 1
  BY SlotAssumption DEF Tick, Inv, AdmissionTypeOK
<1>4. AdmissionTypeOK'
  <2>1. slot' \in [Slots -> [owner : Work \cup {NoOne}, left : -Timeout .. Lease]]
    BY <1>1 DEF Tick
  <2>2. call' \in [Work -> Call]
    BY <1>2 DEF Tick
  <2> QED
    BY <1>3, <2>1, <2>2 DEF AdmissionTypeOK, Call
<1>5. LeaseRuns'
  <2> SUFFICES ASSUME NEW w \in Work, Holds(w)'
               PROVE  /\ call'[w].key \in Slots
                      /\ slot'[call'[w].key].owner = w
                      /\ slot'[call'[w].key].left = Lease - call'[w].age
    BY DEF LeaseRuns
  <2>1. Holds(w) /\ Running(w)
    BY <1>2 DEF Holds, Running
  <2>2. /\ call[w].key \in Slots /\ slot[call[w].key].owner = w
        /\ slot[call[w].key].left = Lease - call[w].age
    BY <2>1 DEF Inv, LeaseRuns
  <2>3. slot[call[w].key].left > 0
    BY <2>1, HeldSlotsAreTaken
  <2>4. slot[call[w].key] \in [owner : Work \cup {NoOne}, left : -Timeout .. Lease]
    BY <2>2 DEF Inv, AdmissionTypeOK
  <2>5. slot'[call[w].key] = [slot[call[w].key] EXCEPT !.left = slot[call[w].key].left - 1]
    BY <2>2, <2>3, NoOneAssumption, LeaseAssumption DEF Tick
  <2>6. call[w].age \in 0 .. Timeout
    BY DEF Inv, AdmissionTypeOK, Call
  <2> QED
    BY <1>2, <2>1, <2>2, <2>4, <2>5, <2>6, LeaseAssumption
<1> QED
  BY <1>4, <1>5 DEF Inv

\* One step of acquisition: the slot is free for the worker's clock, so nobody
\* holds it.
LEMMA AcquireKeeps ==
  ASSUME Inv, NEW w \in Work, TryAcquire(w) \/ AcquireFails(w)
  PROVE  Inv'
<1> DEFINE k == call[w].key
<1>1. call[w] \in Call /\ call[w].phase = "acquiring" /\ ~ Holds(w)
  BY DEF Inv, AdmissionTypeOK, TryAcquire, AcquireFails, Holds
<1>2. hits' \in 0 .. RateLimit /\ phase' \in 0 .. Window - 1
  BY DEF Inv, AdmissionTypeOK, TryAcquire, AcquireFails
<1>3. CASE /\ k \in Slots /\ Acquirable(k, call[w].age)
           /\ slot' = [slot EXCEPT ![k] = Taken(w)]
           /\ Move(w, "admitting") \/ End(w, "error")
  <2>1. slot' \in [Slots -> [owner : Work \cup {NoOne}, left : -Timeout .. Lease]]
    BY <1>3, TakenType DEF Inv, AdmissionTypeOK
  <2>2. \A v \in Work \ {w} : Holds(v) => slot'[call[v].key] = slot[call[v].key]
    BY <1>3, HeldSlotsAreTaken DEF Inv, AdmissionTypeOK, LeaseRuns
  <2>3. slot'[k].owner = w /\ slot'[k].left = Lease - call[w].age
    BY <1>3 DEF Inv, AdmissionTypeOK, Taken
  <2>4. CASE Move(w, "admitting")
    <3>1. /\ call' \in [Work -> Call]
          /\ call'[w].key = call[w].key /\ call'[w].age = call[w].age
          /\ \A v \in Work \ {w} : call'[v] = call[v]
      BY <2>4, MoveKeeps DEF Inv, Phases, Outcomes
    <3>2. LeaseRuns'
      BY <1>3, <2>2, <2>3, <3>1, OthersKeep
    <3> QED
      BY <1>2, <2>1, <3>1, <3>2 DEF Inv, AdmissionTypeOK
  <2>5. CASE End(w, "error")
    <3>1. /\ call' \in [Work -> Call] /\ ~ Holds(w)'
          /\ \A v \in Work \ {w} : call'[v] = call[v]
      BY <2>5, EndKeeps DEF Inv, Outcomes, Holds
    <3>2. LeaseRuns'
      BY <2>2, <3>1, OthersKeep
    <3> QED
      BY <1>2, <2>1, <3>1, <3>2 DEF Inv, AdmissionTypeOK
  <2> QED
    BY <1>3, <2>4, <2>5
<1>4. CASE /\ k \in Slots /\ UNCHANGED slot
           /\ call' = [call EXCEPT ![w].key = @ + 1]
  <2>1. call' = [call EXCEPT ![w] = [call[w] EXCEPT !.key = call[w].key + 1]]
    BY <1>4
  <2>2. [call[w] EXCEPT !.key = call[w].key + 1] \in Call
    BY <1>1, <1>4, SlotAssumption DEF Call, Slots
  <2>3. /\ call' \in [Work -> Call] /\ call'[w].phase = "acquiring"
        /\ \A v \in Work \ {w} : call'[v] = call[v]
    BY <1>1, <2>1, <2>2 DEF Inv, AdmissionTypeOK, Call
  <2>4. LeaseRuns'
    BY <1>4, <2>3, OthersKeep DEF Holds
  <2> QED
    BY <1>2, <1>4, <2>3, <2>4 DEF Inv, AdmissionTypeOK
<1>5. CASE UNCHANGED slot /\ (End(w, "denied") \/ End(w, "error"))
  <2>1. /\ call' \in [Work -> Call] /\ ~ Holds(w)'
        /\ \A v \in Work \ {w} : call'[v] = call[v]
    BY <1>5, EndKeeps DEF Inv, Outcomes, Holds
  <2>2. LeaseRuns'
    BY <1>5, <2>1, OthersKeep
  <2> QED
    BY <1>2, <1>5, <2>1, <2>2 DEF Inv, AdmissionTypeOK
<1> QED
  BY <1>3, <1>4, <1>5 DEF TryAcquire, AcquireFails

\* The debit and the work leave the slots alone.
LEMMA HolderMoves ==
  ASSUME Inv, NEW w \in Work, Holds(w), UNCHANGED slot,
         hits' \in 0 .. RateLimit, UNCHANGED phase,
         \/ Move(w, "working")
         \/ \E o \in Outcomes : Leave(w, o)
  PROVE  Inv'
<1>1. /\ call' \in [Work -> Call]
      /\ call'[w].key = call[w].key /\ call'[w].age = call[w].age
      /\ \A v \in Work \ {w} : call'[v] = call[v]
  BY MoveKeeps DEF Inv, Phases, Outcomes
<1>2. /\ call[w].key \in Slots /\ slot[call[w].key].owner = w
      /\ slot[call[w].key].left = Lease - call[w].age
  BY DEF Inv, LeaseRuns
<1>3. LeaseRuns'
  BY <1>1, <1>2, OthersKeep
<1> QED
  BY <1>1, <1>3 DEF Inv, AdmissionTypeOK

LEMMA DebitKeeps ==
  ASSUME Inv, NEW w \in Work, Debit(w) \/ DebitFails(w)
  PROVE  Inv'
<1>1. Holds(w) /\ UNCHANGED slot /\ UNCHANGED phase
  BY DEF Debit, DebitFails, Holds
<1>2. hits' \in 0 .. RateLimit
  BY SlotAssumption DEF Debit, DebitFails, Inv, AdmissionTypeOK
<1>3. Move(w, "working") \/ \E o \in Outcomes : Leave(w, o)
  BY DEF Debit, DebitFails, Outcomes
<1> QED
  BY <1>1, <1>2, <1>3, HolderMoves

LEMMA FinishKeeps ==
  ASSUME Inv, NEW w \in Work, NEW o \in {"ok", "error"}, FinishWork(w, o)
  PROVE  Inv'
<1>1. Holds(w) /\ UNCHANGED slot /\ UNCHANGED phase /\ hits' \in 0 .. RateLimit
  BY DEF FinishWork, Holds, Inv, AdmissionTypeOK
<1>2. \E q \in Outcomes : Leave(w, q)
  BY DEF FinishWork, Outcomes
<1> QED
  BY <1>1, <1>2, HolderMoves

\* An invocation that ends, released or not, disturbs no other.
LEMMA EndsKeep ==
  ASSUME Inv, NEW w \in Work, NEW o \in Outcomes, End(w, o),
         slot' \in {slot, Released(w)}, UNCHANGED <<hits, phase>>
  PROVE  Inv'
<1>1. /\ call' \in [Work -> Call] /\ ~ Holds(w)'
      /\ \A v \in Work \ {w} : call'[v] = call[v]
  BY EndKeeps DEF Inv, Holds
<1>2. slot' \in [Slots -> [owner : Work \cup {NoOne}, left : -Timeout .. Lease]]
  BY ReleasedKeeps DEF Inv, AdmissionTypeOK
<1>3. \A v \in Work \ {w} : Holds(v) => slot'[call[v].key] = slot[call[v].key]
  <2> SUFFICES ASSUME NEW v \in Work \ {w}, Holds(v)
               PROVE  slot'[call[v].key] = slot[call[v].key]
    OBVIOUS
  <2>1. call[v].key \in Slots /\ slot[call[v].key].owner = v
    BY DEF Inv, LeaseRuns
  <2> QED
    BY <2>1, ReleasedKeeps
<1>4. LeaseRuns'
  BY <1>1, <1>3, OthersKeep
<1> QED
  BY <1>1, <1>2, <1>4 DEF Inv, AdmissionTypeOK

\* The table's cleanup takes no slot that is held.
LEMMA TimeToLiveKeeps ==
  ASSUME Inv, NEW k \in Slots, TimeToLive(k)
  PROVE  Inv'
<1>1. slot' \in [Slots -> [owner : Work \cup {NoOne}, left : -Timeout .. Lease]]
  BY BlankTypes DEF TimeToLive, Inv, AdmissionTypeOK
<1>2. \A v \in Work : Holds(v) => call[v].key # k
  BY HeldSlotsAreTaken, LeaseAssumption DEF TimeToLive, Inv, AdmissionTypeOK
<1>3. LeaseRuns'
  BY <1>2 DEF TimeToLive, Inv, AdmissionTypeOK, LeaseRuns, Holds
<1> QED
  BY <1>1, <1>3 DEF TimeToLive, Inv, AdmissionTypeOK

\* The invariant holds at the start and is kept by every step.
LEMMA InitInv == AdmissionInit => Inv
<1> SUFFICES ASSUME AdmissionInit PROVE Inv
  OBVIOUS
<1>1. AdmissionTypeOK
  BY BlankTypes, SlotAssumption DEF AdmissionInit, AdmissionTypeOK
<1>2. LeaseRuns
  BY DEF AdmissionInit, LeaseRuns, Holds, NewCall
<1> QED
  BY <1>1, <1>2 DEF Inv

LEMMA StepInv == Inv /\ [Next]_admissionVars => Inv'
<1> SUFFICES ASSUME Inv, [Next]_admissionVars PROVE Inv'
  OBVIOUS
<1>1. ASSUME NEW w \in Work, Start(w) PROVE Inv'
  <2>1. /\ call' \in [Work -> Call] /\ call'[w].phase \in {"acquiring", "releasing"}
        /\ call[w].phase = "new"
        /\ \A v \in Work \ {w} : call'[v] = call[v]
    BY <1>1, MoveKeeps DEF Start, Inv, Phases, Outcomes
  <2>2. call'[w].phase = "acquiring"
    BY <1>1 DEF Start, Move, Inv, AdmissionTypeOK, Call
  <2>3. LeaseRuns'
    BY <1>1, <2>1, <2>2, OthersKeep DEF Start, Holds
  <2> QED
    BY <1>1, <2>1, <2>3 DEF Start, Inv, AdmissionTypeOK
<1>2. ASSUME NEW w \in Work, AdmissionStep(w) PROVE Inv'
  <2>1. CASE TryAcquire(w)
    BY <2>1, AcquireKeeps
  <2>2. CASE Debit(w)
    BY <2>2, DebitKeeps
  <2>3. CASE Release(w)
    <3>1. call[w].outcome \in Outcomes
      BY DEF Inv, AdmissionTypeOK, Call
    <3> QED
      BY <2>3, <3>1, EndsKeep DEF Release
  <2> QED
    BY <1>2, <2>1, <2>2, <2>3 DEF AdmissionStep
<1>3. ASSUME NEW w \in Work, AdmissionFault(w) PROVE Inv'
  <2>1. CASE AcquireFails(w)
    BY <2>1, AcquireKeeps
  <2>2. CASE DebitFails(w)
    BY <2>2, DebitKeeps
  <2>3. CASE ReleaseFails(w)
    <3>1. call[w].outcome \in Outcomes
      BY DEF Inv, AdmissionTypeOK, Call
    <3> QED
      BY <2>3, <3>1, EndsKeep DEF ReleaseFails
  <2>4. CASE Dies(w)
    BY <2>4, EndsKeep DEF Dies, Outcomes
  <2> QED
    BY <1>3, <2>1, <2>2, <2>3, <2>4 DEF AdmissionFault
<1>4. ASSUME NEW w \in Work, NEW o \in {"ok", "error"}, FinishWork(w, o) PROVE Inv'
  BY <1>4, FinishKeeps
<1>5. ASSUME NEW k \in Slots, TimeToLive(k) PROVE Inv'
  BY <1>5, TimeToLiveKeeps
<1>6. CASE Tick
  BY <1>6, TickKeeps
<1>7. CASE UNCHANGED admissionVars
  BY <1>7 DEF admissionVars, Inv, AdmissionTypeOK, LeaseRuns, Holds
<1> QED
  BY <1>1, <1>2, <1>3, <1>4, <1>5, <1>6, <1>7 DEF Next

-----------------------------------------------------------------------------
(* The theorems.                                                           *)

\* The slots, the invocations and the counter keep their types: in particular
\* the counter of a window never passes the rate limit.
THEOREM AdmissionTypes == Spec => []AdmissionTypeOK
<1>1. Inv => AdmissionTypeOK
  BY DEF Inv
<1> QED
  BY <1>1, InitInv, StepInv, PTL DEF Spec

\* An invocation that is counted, works or gives its slot back still owns it.
THEOREM RunningOwnsItsSlot == Spec => []SlotIsKept
<1>1. Inv => SlotIsKept
  BY DEF Inv, LeaseRuns, Holds, SlotIsKept
<1> QED
  BY <1>1, InitInv, StepInv, PTL DEF Spec

-----------------------------------------------------------------------------
(* The refinement.                                                         *)

\* The invocations that hold slots are no more than the slots, so one that is
\* about to work finds a permit.
LEMMA RoomForOne ==
  ASSUME Inv, NEW w \in Work, Holds(w), w \notin Working
  PROVE  Cardinality(Working) < NumSlots
<1> DEFINE S == Working \cup {w}
           f == [v \in S |-> call[v].key]
<1>1. \A v \in S : v \in Work /\ Holds(v)
  BY DEF Working, Holds
<1>2. f \in Injection(S, Slots)
  <2>1. f \in [S -> Slots]
    BY <1>1 DEF Inv, LeaseRuns
  <2>2. \A u, v \in S : f[u] = f[v] => u = v
    BY <1>1, HoldersDiffer
  <2> QED
    BY <2>1, <2>2 DEF Injection, IsInjective
<1>3. IsFiniteSet(Slots) /\ Cardinality(Slots) = NumSlots
  BY SlotAssumption, FS_Interval DEF Slots
<1>4. IsFiniteSet(S) /\ Cardinality(S) <= NumSlots
  BY <1>2, <1>3, FS_Injection
<1>5. IsFiniteSet(Working) /\ Cardinality(Working) \in Nat
  BY <1>4, FS_Subset, FS_CardinalityType
<1>6. Cardinality(S) = Cardinality(Working) + 1
  BY <1>5, FS_AddElement
<1> QED
  BY <1>4, <1>5, <1>6, SlotAssumption

\* A step of one invocation moves only itself in or out of the working ones.
LEMMA OneMoves ==
  ASSUME AdmissionTypeOK, NEW w \in Work,
         \A v \in Work \ {w} : call'[v] = call[v]
  PROVE  \/ Working' = Working
         \/ w \notin Working /\ Working' = Working \cup {w}
         \/ w \in Working /\ Working' = Working \ {w}
<1>1. CASE w \in Working
  BY <1>1 DEF Working
<1>2. CASE w \notin Working
  BY <1>2 DEF Working
<1> QED
  BY <1>1, <1>2

\* Every step is a step of the semaphore, or none.
LEMMA StepRefines ==
  ASSUME Inv, [Next]_admissionVars
  PROVE  [Permit!Next]_Working
<1>1. AdmissionTypeOK
  BY DEF Inv
<1>2. ASSUME NEW w \in Work, NEW o \in Outcomes, End(w, o) \/ Leave(w, o)
      PROVE  [Permit!Next]_Working
  <2>1. /\ call'[w].phase \in {"ended", "releasing"}
        /\ \A v \in Work \ {w} : call'[v] = call[v]
    <3>1. CASE End(w, o)
      BY <1>1, <3>1, EndKeeps
    <3>2. CASE Leave(w, o)
      BY <1>1, <3>2, MoveKeeps DEF Phases
    <3> QED
      BY <1>2, <3>1, <3>2
  <2>2. w \notin Working'
    BY <2>1 DEF Working
  <2>3. Working' = Working \/ (w \in Working /\ Working' = Working \ {w})
    BY <1>1, <2>1, <2>2, OneMoves
  <2> QED
    BY <2>3 DEF Permit!Next, Permit!Leave
<1>3. ASSUME NEW w \in Work, NEW p \in Phases, Move(w, p), p # "working" \/ Holds(w)
      PROVE  [Permit!Next]_Working
  <2>1. \A v \in Work \ {w} : call'[v] = call[v]
    BY <1>1, <1>3, MoveKeeps DEF Outcomes
  <2>2. call'[w].phase = p
    BY <1>1, <1>3 DEF Move, AdmissionTypeOK, Call
  <2>3. CASE p # "working"
    <3>1. Working' = Working \/ (w \in Working /\ Working' = Working \ {w})
      BY <1>1, <2>1, <2>2, <2>3, OneMoves DEF Working
    <3> QED
      BY <3>1 DEF Permit!Next, Permit!Leave
  <2>4. CASE Holds(w)
    <3>1. w \notin Working => Cardinality(Working) < NumSlots
      BY <2>4, RoomForOne
    <3>2. Permit!Cardinality(Working) = Cardinality(Working)
      BY DEF Permit!Cardinality, Cardinality
    <3> QED
      BY <1>1, <2>1, <3>1, <3>2, OneMoves DEF Permit!Next, Permit!Enter, Permit!Leave
  <2> QED
    BY <1>3, <2>3, <2>4
<1>4. ASSUME \A w \in Work : call'[w].phase = call[w].phase
      PROVE  [Permit!Next]_Working
  BY <1>4 DEF Working
<1>5. ASSUME NEW w \in Work, Start(w) PROVE [Permit!Next]_Working
  BY <1>3, <1>5 DEF Start, Phases
<1>6. ASSUME NEW w \in Work, TryAcquire(w) \/ AcquireFails(w)
      PROVE  [Permit!Next]_Working
  <2>1. CASE End(w, "denied") \/ End(w, "error")
    BY <1>2, <2>1 DEF Outcomes
  <2>2. CASE Move(w, "admitting")
    BY <1>3, <2>2 DEF Phases
  <2>3. CASE call' = [call EXCEPT ![w].key = @ + 1]
    <3>1. call' = [call EXCEPT ![w] = [call[w] EXCEPT !.key = call[w].key + 1]]
      BY <2>3
    <3>2. \A v \in Work : call'[v].phase = call[v].phase
      BY <1>1, <3>1 DEF AdmissionTypeOK, Call
    <3> QED
      BY <1>4, <3>2
  <2> QED
    BY <1>6, <2>1, <2>2, <2>3 DEF TryAcquire, AcquireFails
<1>7. ASSUME NEW w \in Work, Debit(w) \/ DebitFails(w)
      PROVE  [Permit!Next]_Working
  <2>1. CASE Leave(w, "denied") \/ Leave(w, "error")
    BY <1>2, <2>1 DEF Outcomes
  <2>2. CASE Debit(w) /\ Move(w, "working")
    BY <1>3, <2>2 DEF Debit, Holds, Phases
  <2> QED
    BY <1>7, <2>1, <2>2 DEF Debit, DebitFails
<1>8. ASSUME NEW w \in Work, Release(w) \/ ReleaseFails(w)
      PROVE  [Permit!Next]_Working
  <2>1. call[w].outcome \in Outcomes
    BY <1>1 DEF AdmissionTypeOK, Call
  <2> QED
    BY <1>2, <1>8, <2>1 DEF Release, ReleaseFails
<1>9. ASSUME NEW w \in Work, Dies(w) PROVE [Permit!Next]_Working
  BY <1>2, <1>9 DEF Dies, Outcomes
<1>10. ASSUME NEW w \in Work, NEW o \in {"ok", "error"}, FinishWork(w, o)
       PROVE  [Permit!Next]_Working
  BY <1>2, <1>10 DEF FinishWork, Outcomes
<1>11. ASSUME NEW k \in Slots, TimeToLive(k) PROVE [Permit!Next]_Working
  BY <1>4, <1>11 DEF TimeToLive
<1>12. CASE Tick
  <2>1. \A w \in Work : call'[w].phase = call[w].phase
    BY <1>1, <1>12 DEF Tick, AdmissionTypeOK, Call
  <2> QED
    BY <1>4, <2>1
<1>13. CASE UNCHANGED admissionVars
  BY <1>4, <1>13 DEF admissionVars
<1> QED
  BY <1>5, <1>6, <1>7, <1>8, <1>9, <1>10, <1>11, <1>12, <1>13
  DEF Next, AdmissionStep, AdmissionFault

\* The leases are a semaphore: no more invocations work together than there are
\* slots, whatever calls are lost and whichever Lambdas die.
THEOREM AdmissionRefinesSemaphore == Spec => ImplementsSemaphore
<1>1. AdmissionInit => Permit!Init
  BY DEF AdmissionInit, Permit!Init, Working, NewCall
<1>2. Inv /\ [Next]_admissionVars => [Permit!Next]_Working
  BY StepRefines
<1> QED
  BY <1>1, <1>2, InitInv, StepInv, PTL DEF Spec, ImplementsSemaphore, Permit!Spec

=============================================================================
