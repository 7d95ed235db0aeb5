--------------------------- MODULE ComplianceProofs ---------------------------
(***************************************************************************)
(* Compliance for any number of requests and controls.  Three arguments:   *)
(*                                                                         *)
(*   - the score of any controls lies between 0 and 100.00, by induction   *)
(*     over the sums it is a quotient of;                                  *)
(*   - what a transaction is about to commit was made under the lock from  *)
(*     the very tables it will replace, so each commit is one step of the  *)
(*     register;                                                           *)
(*   - revisions count the requests that are over, and the beginnings of   *)
(*     overrides the requests that have begun.                             *)
(***************************************************************************)
EXTENDS Compliance, WellFoundedInduction, FiniteSetTheorems, TLAPS

-----------------------------------------------------------------------------
(* Induction over sets of numbers.                                         *)

\* A set of numbers that is not empty has a least one.
LEMMA LeastNumber ==
  ASSUME NEW T \in SUBSET Nat, T # {}
  PROVE  \E n \in T : \A m \in T : n <= m
<1>1. IsWellFoundedOn({ss \in Nat \X Nat : ss[1] < ss[2]}, Nat)
  BY NatLessThanWellFounded DEF OpToRel
<1>2. PICK n \in T : \A m \in T : ~ (<<m, n>> \in {ss \in Nat \X Nat : ss[1] < ss[2]})
  BY <1>1, WFMin
<1>3. ASSUME NEW m \in T
      PROVE  n <= m
  <2>1. <<m, n>> \in Nat \X Nat /\ <<m, n>>[1] = m /\ <<m, n>>[2] = n
    OBVIOUS
  <2>2. ~ (m < n)
    BY <1>2, <2>1
  <2> QED
    BY <2>2
<1> QED
  BY <1>3

\* A set that has zero and the successor of each of its numbers has them all.
LEMMA Upwards ==
  ASSUME NEW T \in SUBSET Nat, 0 \in T, \A n \in T : n + 1 \in T
  PROVE  T = Nat
<1> SUFFICES ASSUME Nat \ T # {}
             PROVE  FALSE
  OBVIOUS
<1>1. PICK n \in Nat \ T : \A m \in Nat \ T : n <= m
  BY LeastNumber
<1>2. n - 1 \in T
  BY <1>1
<1> QED
  BY <1>1, <1>2

-----------------------------------------------------------------------------
(* Sums over a finite set, as the community modules define them.           *)

OneOf(s) == CHOOSE x \in s : TRUE

\* `g` has the sum of `f` over every subset of S, taking one element at a time.
Totals(g, S, f) ==
    g = [s \in SUBSET S |-> IF s = {} THEN 0 ELSE f[OneOf(s)] + g[s \ {OneOf(s)}]]

LEMMA SmallerSet ==
  ASSUME NEW S, IsFiniteSet(S), NEW s \in SUBSET S, s # {}
  PROVE  /\ OneOf(s) \in S /\ s \ {OneOf(s)} \in SUBSET S
         /\ IsFiniteSet(s) /\ Cardinality(s) \in Nat
         /\ Cardinality(s \ {OneOf(s)}) = Cardinality(s) - 1
<1>1. OneOf(s) \in s
  BY DEF OneOf
<1>2. IsFiniteSet(s)
  BY FS_Subset
<1> QED
  BY <1>1, <1>2, FS_RemoveElement, FS_CardinalityType

LEMMA SubsetSizes ==
  ASSUME NEW S, IsFiniteSet(S)
  PROVE  \A s \in SUBSET S : /\ IsFiniteSet(s) /\ Cardinality(s) \in Nat
                             /\ Cardinality(s) = 0 <=> s = {}
BY FS_Subset, FS_CardinalityType, FS_EmptySet

\* The recursion has a solution: one for sets of n elements extends to n + 1.
LEMMA TotalsExist ==
  ASSUME NEW S, IsFiniteSet(S), NEW f \in [S -> Nat]
  PROVE  \E g : Totals(g, S, f)
<1> DEFINE Upto(n) == {s \in SUBSET S : Cardinality(s) <= n}
           Good(n) == \E g \in [Upto(n) -> Nat] : \A s \in Upto(n) :
                         g[s] = IF s = {} THEN 0 ELSE f[OneOf(s)] + g[s \ {OneOf(s)}]
           Sizes == {n \in Nat : Good(n)}
<1>1. \A s \in SUBSET S : /\ IsFiniteSet(s) /\ Cardinality(s) \in Nat
                          /\ Cardinality(s) = 0 <=> s = {}
  BY SubsetSizes
<1>2. Good(0)
  <2>1. Upto(0) = {{}}
    BY <1>1, FS_EmptySet
  <2>2. [s \in {{}} |-> 0] \in [Upto(0) -> Nat]
    BY <2>1
  <2> QED
    BY <2>1, <2>2
<1>3. ASSUME NEW n \in Nat, Good(n)
      PROVE  Good(n + 1)
  <2>1. PICK g \in [Upto(n) -> Nat] : \A s \in Upto(n) :
              g[s] = IF s = {} THEN 0 ELSE f[OneOf(s)] + g[s \ {OneOf(s)}]
    BY <1>3
  <2> DEFINE h == [s \in Upto(n + 1) |-> IF s = {} THEN 0 ELSE f[OneOf(s)] + g[s \ {OneOf(s)}]]
  <2>2. ASSUME NEW s \in Upto(n + 1), s # {}
        PROVE  s \ {OneOf(s)} \in Upto(n) /\ f[OneOf(s)] \in Nat
    BY <2>2, <1>1, SmallerSet
  <2>3. h \in [Upto(n + 1) -> Nat]
    BY <2>2
  <2>4. \A s \in Upto(n) : s \in Upto(n + 1) /\ h[s] = g[s]
    BY <2>1, <1>1
  <2>5. \A s \in Upto(n + 1) :
              h[s] = IF s = {} THEN 0 ELSE f[OneOf(s)] + h[s \ {OneOf(s)}]
    BY <2>2, <2>4
  <2> HIDE DEF h
  <2> QED
    BY <2>3, <2>5
<1>4. Sizes = Nat
  <2> HIDE DEF Good
  <2>1. Sizes \in SUBSET Nat /\ 0 \in Sizes /\ \A n \in Sizes : n + 1 \in Sizes
    BY <1>2, <1>3
  <2> HIDE DEF Sizes
  <2> QED
    BY <2>1, Upwards
<1>5. Good(Cardinality(S))
  <2>1. Cardinality(S) \in Sizes
    BY <1>1, <1>4
  <2> QED
    BY <2>1
<1>6. Upto(Cardinality(S)) = SUBSET S
  BY FS_Subset
<1>7. PICK g \in [SUBSET S -> Nat] : \A s \in SUBSET S :
            g[s] = IF s = {} THEN 0 ELSE f[OneOf(s)] + g[s \ {OneOf(s)}]
  BY <1>5, <1>6
<1>8. Totals(g, S, f)
  BY <1>7 DEF Totals
<1> QED
  BY <1>8

\* A bound on each term is one on the sum.
LEMMA TotalsCompare ==
  ASSUME NEW S, IsFiniteSet(S), NEW f, NEW g, NEW p, NEW q, Totals(p, S, f), Totals(q, S, g),
         \A x \in S : f[x] \in Nat /\ g[x] \in Nat \ {0} /\ f[x] <= 1000 * g[x]
  PROVE  \A s \in SUBSET S : /\ p[s] \in Nat /\ q[s] \in Nat /\ p[s] <= 1000 * q[s]
                             /\ s # {} => q[s] > 0
<1> DEFINE Good(s) == /\ p[s] \in Nat /\ q[s] \in Nat /\ p[s] <= 1000 * q[s]
                      /\ s # {} => q[s] > 0
           Sizes == {n \in Nat : \A s \in SUBSET S : Cardinality(s) = n => Good(s)}
<1>1. \A s \in SUBSET S : /\ IsFiniteSet(s) /\ Cardinality(s) \in Nat
                          /\ Cardinality(s) = 0 <=> s = {}
  BY SubsetSizes
<1>2. ASSUME NEW s \in SUBSET S
      PROVE  /\ s = {} => p[s] = 0 /\ q[s] = 0
             /\ s # {} => /\ p[s] = f[OneOf(s)] + p[s \ {OneOf(s)}]
                          /\ q[s] = g[OneOf(s)] + q[s \ {OneOf(s)}]
  BY DEF Totals
<1>3. Good({})
  <2>1. p[{}] = 0 /\ q[{}] = 0
    BY <1>2
  <2> QED
    BY <2>1
<1>4. ASSUME NEW n \in Sizes, NEW s \in SUBSET S, Cardinality(s) = n + 1
      PROVE  Good(s)
  <2>1. s # {}
    BY <1>1, <1>4
  <2>2. OneOf(s) \in S /\ s \ {OneOf(s)} \in SUBSET S /\ Cardinality(s \ {OneOf(s)}) = n
    BY <1>4, <2>1, SmallerSet
  <2> DEFINE rest == s \ {OneOf(s)}
  <2>3. p[rest] \in Nat /\ q[rest] \in Nat /\ p[rest] <= 1000 * q[rest]
    BY <2>2
  <2>4. /\ f[OneOf(s)] \in Nat /\ g[OneOf(s)] \in Nat \ {0}
        /\ f[OneOf(s)] <= 1000 * g[OneOf(s)]
    BY <2>2
  <2>5. p[s] = f[OneOf(s)] + p[rest] /\ q[s] = g[OneOf(s)] + q[rest]
    BY <1>2, <2>1
  <2> HIDE DEF rest
  <2> QED
    BY <2>3, <2>4, <2>5
<1>5. Sizes = Nat
  <2>1. 0 \in Sizes
    BY <1>1, <1>3
  <2>2. \A n \in Sizes : n + 1 \in Sizes
    BY <1>4
  <2>3. Sizes \in SUBSET Nat
    OBVIOUS
  <2> HIDE DEF Sizes
  <2> QED
    BY <2>1, <2>2, <2>3, Upwards
<1> QED
  BY <1>1, <1>5

-----------------------------------------------------------------------------
(* The engine's score.                                                     *)

\* The quotient of two sums in the ratio of at most a thousand.
LEMMA AverageBound ==
  ASSUME NEW n \in Nat, NEW d \in Nat, d > 0, n <= 1000 * d
  PROVE  RoundHalfUp(10 * n, d) \in 0 .. Hundred
<1>1. (2 * (10 * n) + d) \div (2 * d) \in Nat
  OBVIOUS
<1>2. (2 * (10 * n) + d) \div (2 * d) <= 10000
  OBVIOUS
<1>3. Hundred \in Nat /\ Hundred >= 10000
  BY DEF Hundred
<1> QED
  BY <1>1, <1>2, <1>3 DEF RoundHalfUp

\* A weight that a request may set is one after its column has rounded it.
LEMMA RequestedIsValid ==
  ASSUME NEW w \in Nat, w >= 100, w <= 500
  PROVE  RoundHalfUp(w, 10) \in Nat /\ WeightIsValid(RoundHalfUp(w, 10))
BY DEF RoundHalfUp, WeightIsValid

LEMMA WeightedBound ==
  ASSUME NEW c \in ControlRow, WeightIsValid(c.weight)
  PROVE  /\ c.weight \in Nat /\ c.weight > 0
         /\ WeightedScore(c) \in Nat /\ WeightedScore(c) <= 1000 * c.weight
<1>1. RawScore(c) \in {10000, 7000, 5000, 3500, 0}
  BY DEF RawScore, BaseScore, ControlRow, ControlStatuses, Hundred
<1> QED
  BY <1>1 DEF WeightedScore, RoundHalfUp, WeightIsValid, ControlRow

LEMMA ClassifyType ==
  ASSUME NEW s
  PROVE  Classify(s) \in Classifications
BY DEF Classify, Classifications

Results == [score : -1 .. Hundred, class : Classifications]

\* The score of controls with admissible weights is within its bounds: the
\* sums that the engine divides satisfy the recursion above.
LEMMA ScoreType ==
  ASSUME NEW inputs \in [Control -> ControlRow],
         \A c \in Control : WeightIsValid(inputs[c].weight)
  PROVE  /\ Score(inputs) \in Results
         /\ Score(inputs) # NotScored => Score(inputs).score \in 0 .. Hundred
<1> DEFINE counted == {k \in DOMAIN inputs : Applicable(inputs[k])}
           Weight(k) == inputs[k].weight
           Weighted(k) == WeightedScore(inputs[k])
           f == [k \in counted |-> WeightedScore(inputs[k])]
           g == [k \in counted |-> inputs[k].weight]
           p == CHOOSE t : t = [s \in SUBSET counted |-> IF s = {} THEN 0
                      ELSE Weighted(CHOOSE x \in s : TRUE) + t[s \ {CHOOSE x \in s : TRUE}]]
           q == CHOOSE t : t = [s \in SUBSET counted |-> IF s = {} THEN 0
                      ELSE Weight(CHOOSE x \in s : TRUE) + t[s \ {CHOOSE x \in s : TRUE}]]
<1>1. /\ MapThenSumSet(Weighted, counted) = p[counted]
      /\ MapThenSumSet(Weight, counted) = q[counted]
  BY DEF MapThenSumSet, MapThenFoldSet
<1>2. IsFiniteSet(counted) /\ f \in [counted -> Nat] /\ g \in [counted -> Nat]
  BY ControlAssumption, FS_Subset, WeightedBound
<1>3. Totals(p, counted, f)
  <2>1. PICK t : Totals(t, counted, f)
    BY <1>2, TotalsExist
  <2>2. t = [s \in SUBSET counted |-> IF s = {} THEN 0
                ELSE Weighted(CHOOSE x \in s : TRUE) + t[s \ {CHOOSE x \in s : TRUE}]]
    BY <2>1 DEF Totals, OneOf
  <2>3. p = [s \in SUBSET counted |-> IF s = {} THEN 0
                ELSE Weighted(CHOOSE x \in s : TRUE) + p[s \ {CHOOSE x \in s : TRUE}]]
    BY <2>2
  <2> QED
    BY <2>3 DEF Totals, OneOf
<1>4. Totals(q, counted, g)
  <2>1. PICK t : Totals(t, counted, g)
    BY <1>2, TotalsExist
  <2>2. t = [s \in SUBSET counted |-> IF s = {} THEN 0
                ELSE Weight(CHOOSE x \in s : TRUE) + t[s \ {CHOOSE x \in s : TRUE}]]
    BY <2>1 DEF Totals, OneOf
  <2>3. q = [s \in SUBSET counted |-> IF s = {} THEN 0
                ELSE Weight(CHOOSE x \in s : TRUE) + q[s \ {CHOOSE x \in s : TRUE}]]
    BY <2>2
  <2> QED
    BY <2>3 DEF Totals, OneOf
<1> HIDE DEF p, q
<1>5. \A x \in counted : f[x] \in Nat /\ g[x] \in Nat \ {0} /\ f[x] <= 1000 * g[x]
  BY WeightedBound
<1>6. \A s \in SUBSET counted : /\ p[s] \in Nat /\ q[s] \in Nat /\ p[s] <= 1000 * q[s]
                                /\ s # {} => q[s] > 0
  <2> HIDE DEF f, g, counted
  <2> QED
    BY <1>2, <1>3, <1>4, <1>5, TotalsCompare
<1> DEFINE score == RoundHalfUp(10 * p[counted], q[counted])
<1>7. ASSUME counted # {}
      PROVE  score \in 0 .. Hundred
  <2> HIDE DEF counted
  <2>1. PICK n \in Nat, d \in Nat : n = p[counted] /\ d = q[counted] /\ d > 0 /\ n <= 1000 * d
    BY <1>6, <1>7
  <2> QED
    BY <2>1, AverageBound
<1>8. Score(inputs) =
        IF counted = {} THEN NotScored
        ELSE [score |-> score,
              class |-> IF \E k \in counted : CriticalOverride(inputs[k]) THEN "critical"
                        ELSE Classify(score)]
  BY <1>1 DEF Score
<1>9. Hundred \in Nat
  BY DEF Hundred
<1>10. CASE counted = {}
  BY <1>8, <1>9, <1>10 DEF NotScored, Classifications, Results
<1>11. CASE counted # {}
  <2> HIDE DEF score, counted
  <2>1. PICK class \in Classifications : Score(inputs) = [score |-> score, class |-> class]
    BY <1>8, <1>11, ClassifyType DEF Classifications
  <2> QED
    BY <1>7, <1>9, <1>11, <2>1 DEF Results
<1> QED
  BY <1>10, <1>11

-----------------------------------------------------------------------------
(* The inductive invariant.                                                *)

Places == {"new", "locks", "works", "commits", "reads", "reads_snapshot",
           "reads_override", "ended"}

Argument == [control : Control, status : NewStatuses \cup {Unchanged},
             weight : NewWeights \cup {0}, evidence : SUBSET Evidence,
             score : OverrideScores \cup {0}]

SnapshotRow == [revision : Nat, inputs : [Control -> ControlRow], result : Results,
                by : Request]
OverrideRow == [by : Request, began : Nat, snapshot : Request, revision : Nat,
                original : Results, result : Results]
Tables == [assessment : Assessment, control : [Control -> ControlRow],
           snapshots : SUBSET SnapshotRow, overrides : SUBSET OverrideRow]
Transaction == [kind : Kinds, at : Places, argument : Argument, began : Nat, own : Tables,
                answer : [result : Results, override : SUBSET OverrideRow]]

Admissible(control) == \A k \in Control : WeightIsValid(control[k].weight)

TablesOK ==
    /\ db \in Tables
    /\ Admissible(db.control)
    /\ \A o \in db.overrides : o.result.score >= 0 /\ o.began \in 1 .. clock

\* The four ways in which tables `d` may become tables `e`.
Changes(d, e) ==
    /\ OpenForChange(d.assessment)
    /\ e.assessment = Invalidated(d.assessment)
    /\ Admissible(e.control)
    /\ e.snapshots = d.snapshots /\ e.overrides = d.overrides

Records(r, d, e) ==
    /\ OpenForChange(d.assessment)
    /\ e.assessment = [d.assessment EXCEPT !.scored = TRUE, !.result = Score(d.control)]
    /\ e.control = d.control /\ e.overrides = d.overrides
    /\ e.snapshots = d.snapshots \cup
           {[revision |-> NextRevision(d.snapshots), inputs |-> d.control,
             result |-> Score(d.control), by |-> r]}

Overridden(r, q, s) ==
    [by |-> r, began |-> q.began, snapshot |-> s.by, revision |-> s.revision,
     original |-> s.result,
     result |-> [score |-> q.argument.score, class |-> Classify(q.argument.score)]]

Overrides(r, q, d, e) ==
    /\ d.assessment.status # "absent"
    /\ q.began # 0
    /\ \E s \in Latest(d.snapshots) :
          /\ Matches(d.assessment, s)
          /\ e.overrides = d.overrides \cup {Overridden(r, q, s)}
    /\ e.assessment = d.assessment /\ e.control = d.control /\ e.snapshots = d.snapshots

Closes(d, e) ==
    /\ OpenForChange(d.assessment)
    /\ \E s \in Latest(d.snapshots) : Matches(d.assessment, s)
    /\ e.assessment = [d.assessment EXCEPT !.status = "completed"]
    /\ e.control = d.control /\ e.snapshots = d.snapshots /\ e.overrides = d.overrides

Follows(r, q, d, e) ==
    Changes(d, e) \/ Records(r, d, e) \/ Overrides(r, q, d, e) \/ Closes(d, e)

\* What a transaction knows of the tables `d` where it is.
Fits(r, q, d) ==
    /\ q.at = "works" => q.own = d \/ q.own.assessment.status = "absent"
    /\ q.at = "commits" => Follows(r, q, d, q.own)
    /\ q.at = "reads_override" => /\ q.own.snapshots \subseteq d.snapshots
                                  /\ \A s \in q.own.snapshots : Matches(q.own.assessment, s)
    /\ q.kind = "override" /\ q.at \in {"locks", "works", "commits"} => q.began # 0
    /\ \A o \in q.answer.override : o.original = q.answer.result

RequestsOK ==
    /\ request \in [Request -> Transaction]
    /\ \A r \in Request : /\ Fits(r, request[r], db)
                          /\ request[r].at \in {"works", "commits"} => lock = r
    /\ lock \in Request \cup {NoOne}

\* No two overrides begin at once, in flight or on record.
Ordered ==
    /\ clock \in Nat
    /\ \A r \in Request : request[r].began \in 0 .. clock
    /\ \A r, s \in Request : r # s /\ request[r].began = request[s].began
                                => request[r].began = 0
    /\ \A r \in Request : \A o \in db.overrides : o.began # request[r].began

Begun == {r \in Request : request[r].at # "new"}
Over == {r \in Request : request[r].at = "ended"}

\* Revisions are numbered without gaps, and each took a request.
Numbered ==
    /\ \E n \in 0 .. Cardinality(Over) : {s.revision : s \in db.snapshots} = 1 .. n
    /\ clock <= Cardinality(Begun)

Inv == TablesOK /\ RequestsOK /\ Ordered /\ Numbered /\ ScoreIsCurrent /\ ConstraintsHold

-----------------------------------------------------------------------------
(* Steps of one transaction that leave the tables alone.                   *)

\* How a step of `r` counts.
LEMMA StepCounts ==
  ASSUME Inv, NEW r \in Request, NEW q, q.at # "new", request[r].at # "ended",
         request' = [request EXCEPT ![r] = q]
  PROVE  /\ Cardinality(Over) \in Nat /\ Cardinality(Begun) \in Nat
         /\ Cardinality(Over') =
               IF q.at = "ended" THEN Cardinality(Over) + 1 ELSE Cardinality(Over)
         /\ Cardinality(Begun') =
               IF request[r].at # "new" THEN Cardinality(Begun) ELSE Cardinality(Begun) + 1
<1>1. IsFiniteSet(Over) /\ IsFiniteSet(Begun)
  BY FS_Subset, RequestAssumption DEF Over, Begun
<1>2. \A s \in Request : request'[s] = IF s = r THEN q ELSE request[s]
  BY DEF Inv, RequestsOK
<1>3. Over' = IF q.at = "ended" THEN Over \cup {r} ELSE Over
  BY <1>2 DEF Over
<1>4. Begun' = Begun \cup {r}
  BY <1>2 DEF Begun
<1>5. r \notin Over /\ (r \in Begun <=> request[r].at # "new")
  BY DEF Over, Begun
<1> HIDE DEF Over, Begun
<1>6. Cardinality(Over) \in Nat /\ Cardinality(Begun) \in Nat
  BY <1>1, FS_CardinalityType
<1>7. Cardinality(Over \cup {r}) = Cardinality(Over) + 1
  BY <1>1, <1>5, FS_AddElement
<1>8. Cardinality(Begun \cup {r}) =
          IF request[r].at # "new" THEN Cardinality(Begun) ELSE Cardinality(Begun) + 1
  BY <1>1, <1>5, FS_AddElement
<1> QED
  BY <1>3, <1>4, <1>6, <1>7, <1>8

LEMMA CountsAreBounded ==
  ASSUME Inv
  PROVE  /\ Cardinality(Over) \in 0 .. Cardinality(Request)
         /\ Cardinality(Begun) \in 0 .. Cardinality(Request)
         /\ Cardinality(Request) \in Nat
BY FS_Subset, FS_CardinalityType, RequestAssumption DEF Over, Begun

\* A request that moves on, with the lock taken, kept or given back.
LEMMA MoveKeeps ==
  ASSUME Inv, NEW r \in Request, NEW q,
         request[r].at # "ended", request' = [request EXCEPT ![r] = q],
         UNCHANGED <<db, clock>>,
         q \in Transaction, Fits(r, q, db), q.at # "new", q.began \in {0, request[r].began},
         \/ lock' = lock /\ (q.at \in {"works", "commits"} => lock = r)
         \/ lock = NoOne /\ lock' = r
         \/ lock = r /\ lock' = NoOne /\ q.at \notin {"works", "commits"}
  PROVE  Inv'
<1>1. request' = [s \in Request |-> IF s = r THEN q ELSE request[s]]
  BY DEF Inv, RequestsOK
<1>2. TablesOK' /\ ScoreIsCurrent' /\ ConstraintsHold'
  BY DEF Inv, TablesOK, ScoreIsCurrent, ConstraintsHold, Latest, Matches
<1>3. RequestsOK'
  <2>1. lock' \in Request \cup {NoOne}
    BY DEF Inv, RequestsOK
  <2>2. ASSUME NEW s \in Request
        PROVE  /\ request'[s] \in Transaction
               /\ Fits(s, request'[s], db)
               /\ request'[s].at \in {"works", "commits"} => lock' = s
    <3>1. CASE s = r
      BY <1>1, <3>1
    <3>2. CASE s # r
      BY <1>1, <3>2, NoOneAssumption DEF Inv, RequestsOK
    <3> QED
      BY <3>1, <3>2
  <2> QED
    BY <1>1, <2>1, <2>2 DEF RequestsOK
<1>4. Ordered'
  BY <1>1 DEF Inv, Ordered, TablesOK
<1>5. Numbered'
  <2>1. Cardinality(Over) \in Nat /\ Cardinality(Begun) \in Nat /\ clock \in Nat
    BY CountsAreBounded DEF Inv, Ordered
  <2>2. /\ Cardinality(Over') =
              IF q.at = "ended" THEN Cardinality(Over) + 1 ELSE Cardinality(Over)
        /\ Cardinality(Begun') =
              IF request[r].at # "new" THEN Cardinality(Begun) ELSE Cardinality(Begun) + 1
    BY StepCounts, Zenon
  <2>3. /\ Cardinality(Over') \in Nat /\ Cardinality(Over') >= Cardinality(Over)
        /\ Cardinality(Begun') \in Nat /\ Cardinality(Begun') >= Cardinality(Begun)
    BY <2>1, <2>2
  <2> QED
    BY <2>1, <2>3 DEF Inv, Numbered
<1> QED
  BY <1>2, <1>3, <1>4, <1>5 DEF Inv

\* What the requests carry has its type.
LEMMA ArgumentTypes ==
  /\ NoArgument \in Argument
  /\ \A kind \in Kinds : Arguments(kind) \subseteq Argument
<1>1. NoArgument \in Argument
  BY ControlAssumption DEF NoArgument, Argument
<1>2. Arguments("update") \subseteq Argument
  BY DEF Arguments, Argument
<1>3. Arguments("admit") \subseteq Argument
  BY DEF Arguments, Argument
<1>4. Arguments("override") \subseteq Argument
  <2>1. \A s \in OverrideScores : [NoArgument EXCEPT !.score = s] \in Argument
    BY <1>1 DEF Argument
  <2> QED
    BY <2>1 DEF Arguments
<1>5. \A kind \in {"compute", "finalize", "read"} : Arguments(kind) = {NoArgument}
  BY DEF Arguments
<1> QED
  BY <1>1, <1>2, <1>3, <1>4, <1>5 DEF Kinds

LEMMA NotScoredType == NotScored \in Results
<1>1. Hundred \in Nat
  BY DEF Hundred
<1> QED
  BY <1>1 DEF NotScored, Results, Classifications

\* A request as it is before it begins.
LEMMA NewRequestType == NewRequest \in Transaction
<1>3. DefaultControl \in ControlRow
  BY DEF DefaultControl, ControlRow, ControlStatuses
<1>4. AbsentAssessment \in Assessment
  BY NotScoredType DEF AbsentAssessment, Assessment, Results
<1>5. EmptyDb \in Tables
  BY <1>3, <1>4 DEF EmptyDb, Tables
<1> QED
  BY <1>5, NotScoredType, ArgumentTypes
  DEF NewRequest, Transaction, NoAnswer, Kinds, Places

\* A request that ends without a write.
LEMMA EndKeeps ==
  ASSUME Inv, NEW r \in Request, request[r].at # "ended",
         NEW answer \in [result : Results, override : SUBSET OverrideRow],
         \A o \in answer.override : o.original = answer.result,
         request' = Ended(r, answer), UNCHANGED <<db, clock>>,
         \/ lock' = IF lock = r THEN NoOne ELSE lock
         \/ lock' = lock
  PROVE  Inv'
<1> DEFINE q == [NewRequest EXCEPT !.at = "ended", !.answer = answer]
<1>1. q.at = "ended" /\ q.began = 0 /\ q.answer = answer /\ q.kind = "read"
  BY DEF NewRequest
<1>2. q \in Transaction
  BY NewRequestType DEF Transaction, Places
<1>3. request' = [request EXCEPT ![r] = q]
  BY DEF Ended
<1> HIDE DEF q
<1>4. Fits(r, q, db)
  BY <1>1 DEF Fits
<1> QED
  BY <1>1, <1>2, <1>3, <1>4, MoveKeeps

LEMMA LockKeeps ==
  ASSUME Inv, NEW r \in Request, LockAssessment(r)
  PROVE  Inv'
<1> DEFINE q == [request[r] EXCEPT !.own = db, !.at = "works"]
<1>1. request[r] \in Transaction /\ Fits(r, request[r], db) /\ db \in Tables
  BY DEF Inv, RequestsOK, TablesOK
<1>2. q \in Transaction
  BY <1>1 DEF Transaction, Places
<1>3. /\ q.at = "works" /\ q.own = db /\ q.kind = request[r].kind
      /\ q.began = request[r].began /\ q.answer = request[r].answer
  BY <1>1 DEF Transaction
<1>4. /\ request' = [request EXCEPT ![r] = q] /\ UNCHANGED <<db, clock>>
      /\ request[r].at = "locks" /\ lock = NoOne /\ lock' = r
  BY DEF LockAssessment, LockIsFree
<1> HIDE DEF q
<1>5. Fits(r, q, db)
  BY <1>1, <1>3, <1>4 DEF Fits
<1> QED
  BY <1>2, <1>3, <1>4, <1>5, MoveKeeps

LEMMA NoAnswerType ==
  /\ NoAnswer \in [result : Results, override : SUBSET OverrideRow]
  /\ NoAnswer.override = {}
BY NotScoredType DEF NoAnswer

LEMMA RollbackKeeps ==
  ASSUME Inv, NEW r \in Request, Rollback(r)
  PROVE  Inv'
BY EndKeeps, NoAnswerType DEF Rollback

\* A beginning: the only step that moves the clock.
LEMMA BeginKeeps ==
  ASSUME Inv, NEW r \in Request, Begin(r)
  PROVE  Inv'
<1>1. PICK kind \in Kinds : \E argument \in Arguments(kind) :
         LET now == IF kind = "override" THEN clock + 1 ELSE clock IN
         /\ request' = [request EXCEPT ![r] =
               [@ EXCEPT !.kind = kind, !.argument = argument,
                         !.began = IF kind = "override" THEN now ELSE 0,
                         !.at = IF kind = "read" THEN "reads" ELSE "locks"]]
         /\ clock' = now
  BY DEF Begin
<1>0. PICK argument \in Arguments(kind) :
         /\ request' = [request EXCEPT ![r] =
               [request[r] EXCEPT !.kind = kind, !.argument = argument,
                         !.began = IF kind = "override" THEN clock + 1 ELSE 0,
                         !.at = IF kind = "read" THEN "reads" ELSE "locks"]]
         /\ clock' = IF kind = "override" THEN clock + 1 ELSE clock
  BY <1>1
<1> DEFINE began == IF kind = "override" THEN clock + 1 ELSE 0
           at == IF kind = "read" THEN "reads" ELSE "locks"
           q == [request[r] EXCEPT !.kind = kind, !.argument = argument,
                                   !.began = began, !.at = at]
<1>2. /\ request[r] \in Transaction /\ Fits(r, request[r], db) /\ request[r].at = "new"
      /\ UNCHANGED <<db, lock>> /\ clock \in Nat
  BY DEF Inv, RequestsOK, Begin, Ordered
<1>3. began \in Nat /\ at \in {"reads", "locks"} /\ argument \in Argument
  BY <1>2, ArgumentTypes
<1>4. q \in Transaction
  BY <1>2, <1>3 DEF Transaction, Places
<1>5. q.kind = kind /\ q.began = began /\ q.at = at /\ q.answer = request[r].answer
  BY <1>2 DEF Transaction
<1>6. request' = [request EXCEPT ![r] = q]
  BY <1>0
<1>7. clock' = IF kind = "override" THEN clock + 1 ELSE clock
  BY <1>0
<1> HIDE DEF q
<1>8. \A s \in Request : request'[s] = IF s = r THEN q ELSE request[s]
  BY <1>6 DEF Inv, RequestsOK
<1>9. TablesOK' /\ ScoreIsCurrent' /\ ConstraintsHold'
  BY <1>2, <1>7 DEF Inv, TablesOK, ScoreIsCurrent, ConstraintsHold, Latest, Matches
<1>10. RequestsOK'
  <2>1. Fits(r, q, db)
    BY <1>2, <1>3, <1>5 DEF Fits
  <2>2. request' \in [Request -> Transaction]
    BY <1>4, <1>6 DEF Inv, RequestsOK
  <2> HIDE DEF at, began
  <2> QED
    BY <1>2, <1>3, <1>5, <1>8, <2>1, <2>2 DEF Inv, RequestsOK
<1>11. Ordered'
  BY <1>2, <1>5, <1>7, <1>8 DEF Inv, Ordered, TablesOK
<1>12. Numbered'
  <2>1. q.at # "new" /\ q.at # "ended" /\ request[r].at # "ended"
    BY <1>2, <1>3, <1>5
  <2>2. /\ Cardinality(Over) \in Nat /\ Cardinality(Begun) \in Nat
        /\ Cardinality(Over') =
              IF q.at = "ended" THEN Cardinality(Over) + 1 ELSE Cardinality(Over)
        /\ Cardinality(Begun') =
              IF request[r].at # "new" THEN Cardinality(Begun) ELSE Cardinality(Begun) + 1
    BY <1>6, <2>1, StepCounts, Zenon
  <2> QED
    BY <1>2, <1>7, <2>1, <2>2 DEF Inv, Numbered
<1> QED
  BY <1>9, <1>10, <1>11, <1>12 DEF Inv

-----------------------------------------------------------------------------
(* The bodies of the writing requests: what they are about to commit       *)
(* follows from the tables they hold the lock of.                          *)

LEMMA WriteKeeps ==
  ASSUME Inv, NEW r \in Request, request[r].at = "works",
         NEW own \in Tables, Writes(r, own), Follows(r, request[r], db, own)
  PROVE  Inv'
<1> DEFINE q == [request[r] EXCEPT !.own = own, !.at = "commits"]
<1>1. request[r] \in Transaction /\ Fits(r, request[r], db) /\ lock = r
  BY DEF Inv, RequestsOK
<1>2. q \in Transaction
  BY <1>1 DEF Transaction, Places
<1>3. /\ q.at = "commits" /\ q.own = own /\ q.kind = request[r].kind
      /\ q.argument = request[r].argument
      /\ q.began = request[r].began /\ q.answer = request[r].answer
  BY <1>1 DEF Transaction
<1>4. request' = [request EXCEPT ![r] = q] /\ UNCHANGED <<db, lock, clock>>
  BY DEF Writes
<1> HIDE DEF q
<1>5. Follows(r, q, db, own)
  BY <1>3 DEF Follows, Overrides, Overridden
<1>6. Fits(r, q, db)
  BY <1>1, <1>3, <1>5 DEF Fits
<1> QED
  BY <1>1, <1>2, <1>3, <1>4, <1>6, MoveKeeps

\* Under the lock, with an assessment that is there, a transaction works on
\* the tables as they are.
LEMMA WorksOnTables ==
  ASSUME Inv, NEW r \in Request, request[r].at = "works",
         request[r].own.assessment.status # "absent"
  PROVE  /\ request[r].own = db /\ db \in Tables /\ Admissible(db.control)
         /\ request[r] \in Transaction /\ request[r].argument \in Argument
BY DEF Inv, RequestsOK, Fits, TablesOK, Transaction

LEMMA InvalidatedType ==
  ASSUME NEW a \in Assessment
  PROVE  /\ Invalidated(a) \in Assessment /\ Invalidated(a).scored = FALSE
         /\ Invalidated(a).status = IF a.status = "draft" THEN "in_progress" ELSE a.status
<1> DEFINE status == IF a.status = "draft" THEN "in_progress" ELSE a.status
<1>1. status \in {"absent", "draft", "in_progress", "completed"}
  BY DEF Assessment
<1>2. Invalidated(a) = [a EXCEPT !.status = status, !.scored = FALSE, !.result = NotScored]
  BY DEF Invalidated
<1> HIDE DEF status
<1>3. /\ Invalidated(a) \in Assessment
      /\ Invalidated(a).scored = FALSE /\ Invalidated(a).status = status
  BY <1>1, <1>2, NotScoredType DEF Assessment, Results
<1> QED
  BY <1>3 DEF status

LEMMA UpdateKeeps ==
  ASSUME Inv, NEW r \in Request, UpdateControlAssessment(r)
  PROVE  Inv'
<1> DEFINE a == request[r].argument
           own == WithControl(db, a)
<1>1. /\ request[r].own = db /\ db \in Tables /\ Admissible(db.control) /\ a \in Argument
      /\ request[r].at = "works" /\ OpenForChange(db.assessment)
      /\ a.weight = 0 \/ Requested(a.weight)
      /\ Writes(r, own)
  BY WorksOnTables DEF UpdateControlAssessment, Works, OpenForChange
<1> DEFINE c == Revised(db.control[a.control], a)
<1>2. /\ db.control \in [Control -> ControlRow] /\ a.control \in Control
      /\ db.control[a.control] \in ControlRow
  BY <1>1 DEF Tables, Argument
<1>3. c.status \in ControlStatuses
  BY <1>1, <1>2, InputAssumption DEF Revised, Argument, ControlRow
<1>4. c.weight \in Nat /\ WeightIsValid(c.weight)
  <2>1. CASE a.weight = 0
    BY <1>1, <1>2, <2>1 DEF Revised, ControlRow, Admissible
  <2>2. CASE a.weight # 0
    <3>1. a.weight \in Nat /\ a.weight >= 100 /\ a.weight <= 500
      BY <1>1, <2>2, InputAssumption DEF Argument, Requested
    <3>2. c.weight = RoundHalfUp(a.weight, 10)
      BY <1>2, <2>2 DEF Revised, ControlRow
    <3> QED
      BY <3>1, <3>2, RequestedIsValid
  <2> QED
    BY <2>1, <2>2
<1>5. c \in ControlRow /\ WeightIsValid(c.weight)
  BY <1>2, <1>3, <1>4 DEF ControlRow, Revised
<1>6. WithControl(db, a) =
        [db EXCEPT !.assessment = Invalidated(db.assessment),
                   !.control = [db.control EXCEPT ![a.control] = c]]
  BY DEF WithControl
<1> HIDE DEF c
<1>7. own \in Tables
  <2>1. [db.control EXCEPT ![a.control] = c] \in [Control -> ControlRow]
    BY <1>2, <1>5
  <2>2. Invalidated(db.assessment) \in Assessment
    BY <1>1, InvalidatedType DEF Tables
  <2> QED
    BY <1>1, <1>6, <2>1, <2>2 DEF Tables
<1>8. /\ own.assessment = Invalidated(db.assessment)
      /\ own.control = [db.control EXCEPT ![a.control] = c]
      /\ own.snapshots = db.snapshots /\ own.overrides = db.overrides
  BY <1>1, <1>6 DEF Tables
<1>9. Changes(db, own)
  BY <1>1, <1>2, <1>5, <1>8 DEF Changes, Admissible
<1> HIDE DEF own
<1> QED
  BY <1>1, <1>7, <1>9, WriteKeeps DEF Follows

LEMMA AdmitKeeps ==
  ASSUME Inv, NEW r \in Request, AdmitEvidence(r)
  PROVE  Inv'
<1> DEFINE a == request[r].argument
           own == WithEvidence(db, a)
<1>1. /\ request[r].own = db /\ db \in Tables /\ Admissible(db.control) /\ a \in Argument
      /\ request[r].at = "works" /\ OpenForChange(db.assessment)
      /\ Writes(r, own)
  BY WorksOnTables DEF AdmitEvidence, Works, OpenForChange
<1>2. /\ db.control \in [Control -> ControlRow] /\ a.control \in Control
      /\ db.control[a.control] \in ControlRow /\ a.evidence \subseteq Evidence
  BY <1>1 DEF Tables, Argument
<1> DEFINE c == [db.control[a.control] EXCEPT !.evidence = db.control[a.control].evidence \cup a.evidence]
<1>3. c \in ControlRow /\ c.weight = db.control[a.control].weight
  BY <1>2 DEF ControlRow
<1>4. own = [db EXCEPT !.assessment = Invalidated(db.assessment),
                       !.control = [db.control EXCEPT ![a.control] = c]]
  BY DEF WithEvidence
<1> HIDE DEF c
<1>5. [db.control EXCEPT ![a.control] = c] \in [Control -> ControlRow]
  BY <1>2, <1>3
<1>6. Invalidated(db.assessment) \in Assessment
  BY <1>1, InvalidatedType DEF Tables
<1> HIDE DEF own
<1>7. own \in Tables
  BY <1>1, <1>4, <1>5, <1>6 DEF Tables
<1>8. /\ own.assessment = Invalidated(db.assessment)
      /\ own.control = [db.control EXCEPT ![a.control] = c]
      /\ own.snapshots = db.snapshots /\ own.overrides = db.overrides
  BY <1>1, <1>4 DEF Tables
<1>9. Changes(db, own)
  BY <1>1, <1>2, <1>3, <1>8 DEF Changes, Admissible
<1> QED
  BY <1>1, <1>7, <1>9, WriteKeeps DEF Follows

\* Revisions without gaps: max + 1 is the next number.
LEMMA NextRevisionIs ==
  ASSUME NEW S, NEW n \in Nat, {s.revision : s \in S} = 1 .. n
  PROVE  NextRevision(S) = n + 1
<1>1. CASE n = 0
  <2>1. {s.revision : s \in S} = {}
    BY <1>1
  <2>2. S = {}
    BY <2>1
  <2> QED
    BY <1>1, <2>2 DEF NextRevision
<1>2. CASE n # 0
  <2>1. n \in 1 .. n /\ \A y \in 1 .. n : n >= y
    BY <1>2
  <2>2. \A x \in 1 .. n : (\A y \in 1 .. n : x >= y) => x = n
    BY <1>2
  <2>3. Max(1 .. n) = n
    BY <2>1, <2>2 DEF Max
  <2>4. S # {}
    BY <2>1
  <2> QED
    BY <2>3, <2>4 DEF NextRevision
<1> QED
  BY <1>1, <1>2

LEMMA NextRevisionType ==
  ASSUME Inv
  PROVE  NextRevision(db.snapshots) \in Nat
BY NextRevisionIs, CountsAreBounded DEF Inv, Numbered

LEMMA ComputeKeeps ==
  ASSUME Inv, NEW r \in Request, ComputeScore(r)
  PROVE  Inv'
<1> DEFINE snapshot == [revision |-> NextRevision(db.snapshots), inputs |-> db.control,
                        result |-> Score(db.control), by |-> r]
           own == WithSnapshot(db, snapshot)
<1>1. /\ request[r].own = db /\ db \in Tables /\ Admissible(db.control)
      /\ request[r].at = "works" /\ OpenForChange(db.assessment)
      /\ Writes(r, own)
  BY WorksOnTables DEF ComputeScore, Works, OpenForChange
<1>2. snapshot \in SnapshotRow /\ snapshot.result = Score(db.control)
  BY <1>1, NextRevisionType, ScoreType DEF SnapshotRow, Tables, Admissible
<1> DEFINE assessment == [db.assessment EXCEPT !.scored = TRUE, !.result = Score(db.control)]
<1>3. assessment \in Assessment
  BY <1>1, ScoreType DEF Assessment, Tables, Results, Admissible
<1>4. own = [db EXCEPT !.assessment = assessment, !.snapshots = db.snapshots \cup {snapshot}]
  BY <1>2 DEF WithSnapshot
<1> HIDE DEF assessment, snapshot, own
<1>5. own \in Tables
  BY <1>1, <1>2, <1>3, <1>4 DEF Tables
<1>6. /\ own.assessment = assessment /\ own.snapshots = db.snapshots \cup {snapshot}
      /\ own.control = db.control /\ own.overrides = db.overrides
  BY <1>1, <1>4 DEF Tables
<1>7. Records(r, db, own)
  BY <1>1, <1>6 DEF Records, assessment, snapshot
<1> QED
  BY <1>1, <1>5, <1>7, WriteKeeps DEF Follows

\* The override of an admissible score.
LEMMA OverrideType ==
  ASSUME Inv, NEW r \in Request, NEW s \in db.snapshots
  PROVE  /\ Overridden(r, request[r], s) \in OverrideRow
         /\ Overridden(r, request[r], s).result.score >= 0
         /\ Overridden(r, request[r], s).began = request[r].began
<1>1. s \in SnapshotRow /\ request[r] \in Transaction
  BY DEF Inv, RequestsOK, TablesOK, Tables
<1>2. Hundred \in Nat
  BY DEF Hundred
<1>3. request[r].argument.score \in 0 .. Hundred
  <2>1. request[r].argument.score \in OverrideScores \cup {0}
    BY <1>1 DEF Transaction, Argument
  <2>2. OverrideScores \subseteq 0 .. Hundred
    BY InputAssumption
  <2>3. 0 \in 0 .. Hundred
    BY <1>2
  <2> QED
    BY <2>1, <2>2, <2>3
<1>4. [score |-> request[r].argument.score, class |-> Classify(request[r].argument.score)]
         \in Results
  BY <1>2, <1>3, ClassifyType DEF Results
<1> QED
  BY <1>1, <1>2, <1>3, <1>4 DEF Overridden, OverrideRow, SnapshotRow, Transaction

LEMMA OverrideKeeps ==
  ASSUME Inv, NEW r \in Request, CreateScoreOverride(r)
  PROVE  Inv'
<1>1. /\ request[r].own = db /\ db \in Tables /\ request[r] \in Transaction
      /\ request[r].at = "works" /\ db.assessment.status # "absent"
      /\ request[r].kind = "override"
  BY WorksOnTables DEF CreateScoreOverride, Works
<1>2. PICK s \in Latest(db.snapshots) :
          /\ Matches(db.assessment, s)
          /\ Writes(r, WithOverride(db, Overridden(r, request[r], s)))
  BY <1>1 DEF CreateScoreOverride, Overridden
<1>3. s \in db.snapshots
  BY DEF Latest
<1> DEFINE override == Overridden(r, request[r], s)
           own == WithOverride(db, override)
<1>4. override \in OverrideRow
  BY <1>3, OverrideType
<1> HIDE DEF override
<1>5. /\ own \in Tables
      /\ own.overrides = db.overrides \cup {override}
      /\ own.assessment = db.assessment /\ own.control = db.control
      /\ own.snapshots = db.snapshots
  BY <1>1, <1>4 DEF WithOverride, Tables
<1>6. request[r].began # 0
  BY <1>1 DEF Inv, RequestsOK, Fits
<1> HIDE DEF own
<1>7. Overrides(r, request[r], db, own)
  BY <1>1, <1>2, <1>5, <1>6 DEF Overrides, override
<1> QED
  BY <1>1, <1>2, <1>5, <1>7, WriteKeeps DEF Follows, own, override

LEMMA FinalizeKeeps ==
  ASSUME Inv, NEW r \in Request, FinalizeAssessment(r)
  PROVE  Inv'
<1> DEFINE own == Completed(db)
<1>1. /\ request[r].own = db /\ db \in Tables
      /\ request[r].at = "works" /\ OpenForChange(db.assessment)
      /\ \E s \in Latest(db.snapshots) : Matches(db.assessment, s)
      /\ Writes(r, own)
  BY WorksOnTables DEF FinalizeAssessment, Works, OpenForChange
<1>2. own = [db EXCEPT !.assessment = [db.assessment EXCEPT !.status = "completed"]]
  BY DEF Completed
<1>3. [db.assessment EXCEPT !.status = "completed"] \in Assessment
  BY <1>1 DEF Tables, Assessment
<1>4. /\ own \in Tables
      /\ own.assessment = [db.assessment EXCEPT !.status = "completed"]
      /\ own.control = db.control /\ own.snapshots = db.snapshots
      /\ own.overrides = db.overrides
  BY <1>1, <1>2, <1>3 DEF Tables
<1> HIDE DEF own
<1>5. Closes(db, own)
  BY <1>1, <1>4 DEF Closes
<1> QED
  BY <1>1, <1>4, <1>5, WriteKeeps DEF Follows

-----------------------------------------------------------------------------
(* Reads.                                                                  *)

\* An assessment and overrides that are on record make an answer.
LEMMA AnswerType ==
  ASSUME NEW a \in Assessment, NEW o \in SUBSET OverrideRow
  PROVE  [result |-> a.result, override |-> o] \in [result : Results, override : SUBSET OverrideRow]
BY DEF Assessment, Results

LEMMA ReadAssessmentKeeps ==
  ASSUME Inv, NEW r \in Request, ReadAssessment(r)
  PROVE  Inv'
<1>1. /\ request[r] \in Transaction /\ Fits(r, request[r], db) /\ db \in Tables
      /\ db.assessment \in Assessment
      /\ request[r].at = "reads" /\ request[r].kind = "read" /\ UNCHANGED <<db, lock, clock>>
  BY DEF Inv, RequestsOK, TablesOK, ReadAssessment, Tables
<1>2. CASE db.assessment.scored
  <2> DEFINE own == [request[r].own EXCEPT !.assessment = db.assessment]
             q == [request[r] EXCEPT !.own = own, !.at = "reads_snapshot"]
  <2>1. own \in Tables
    BY <1>1 DEF Transaction, Tables
  <2>2. request' = [request EXCEPT ![r] = q]
    BY <1>2 DEF ReadAssessment
  <2> HIDE DEF own
  <2>3. q \in Transaction
    BY <1>1, <2>1 DEF Transaction, Places
  <2>4. /\ q.at = "reads_snapshot" /\ q.kind = "read" /\ q.answer = request[r].answer
        /\ q.began = request[r].began
    BY <1>1 DEF Transaction
  <2> HIDE DEF q
  <2>5. Fits(r, q, db)
    BY <1>1, <2>4 DEF Fits
  <2> QED
    BY <1>1, <2>2, <2>3, <2>4, <2>5, MoveKeeps
<1>3. CASE ~ db.assessment.scored
  <2> DEFINE answer == [result |-> db.assessment.result, override |-> {}]
  <2>1. request' = Ended(r, answer)
    BY <1>3 DEF ReadAssessment, Answers
  <2>2. answer \in [result : Results, override : SUBSET OverrideRow] /\ answer.override = {}
    BY <1>1, AnswerType
  <2> HIDE DEF answer
  <2> QED
    BY <1>1, <2>1, <2>2, EndKeeps
<1> QED
  BY <1>2, <1>3

LEMMA ReadSnapshotKeeps ==
  ASSUME Inv, NEW r \in Request, ReadLatestSnapshot(r)
  PROVE  Inv'
<1> DEFINE a == request[r].own.assessment
           matching == {s \in Latest(db.snapshots) : Matches(a, s)}
<1>1. /\ request[r] \in Transaction /\ Fits(r, request[r], db) /\ db \in Tables
      /\ a \in Assessment
      /\ request[r].at = "reads_snapshot" /\ UNCHANGED <<db, lock, clock>>
  BY DEF Inv, RequestsOK, TablesOK, ReadLatestSnapshot, Tables, Transaction
<1>2. CASE matching # {}
  <2> DEFINE own == [request[r].own EXCEPT !.snapshots = matching]
             q == [request[r] EXCEPT !.own = own, !.at = "reads_override"]
  <2>1. request' = [request EXCEPT ![r] = q]
    BY <1>2 DEF ReadLatestSnapshot
  <2>2. matching \subseteq db.snapshots /\ \A s \in matching : Matches(a, s)
    BY DEF Latest
  <2> HIDE DEF matching
  <2>3. own \in Tables /\ own.assessment = a /\ own.snapshots = matching
    BY <1>1, <2>2 DEF Transaction, Tables
  <2> HIDE DEF own
  <2>4. q \in Transaction
    BY <1>1, <2>3 DEF Transaction, Places
  <2>5. /\ q.at = "reads_override" /\ q.own = own /\ q.answer = request[r].answer
        /\ q.began = request[r].began
    BY <1>1 DEF Transaction
  <2> HIDE DEF q
  <2>6. Fits(r, q, db)
    BY <1>1, <2>2, <2>3, <2>5 DEF Fits
  <2> QED
    BY <1>1, <2>1, <2>4, <2>5, <2>6, MoveKeeps
<1>3. CASE matching = {}
  <2> DEFINE answer == [result |-> a.result, override |-> {}]
  <2>1. request' = Ended(r, answer)
    BY <1>3 DEF ReadLatestSnapshot, Answers
  <2>2. answer \in [result : Results, override : SUBSET OverrideRow] /\ answer.override = {}
    BY <1>1, AnswerType
  <2> HIDE DEF answer
  <2> QED
    BY <1>1, <2>1, <2>2, EndKeeps
<1> QED
  BY <1>2, <1>3

\* The override a reader is shown refers to the snapshot it was shown: the
\* two have the same revision, and revisions are unique.
LEMMA ReadOverrideKeeps ==
  ASSUME Inv, NEW r \in Request, ReadLatestOverride(r)
  PROVE  Inv'
<1> DEFINE own == request[r].own
           shown == {o \in LatestOverride(db.overrides) :
                        \E s \in own.snapshots : o.snapshot = s.by /\ o.revision = s.revision}
           answer == [result |-> own.assessment.result, override |-> shown]
<1>1. /\ request[r] \in Transaction /\ Fits(r, request[r], db) /\ db \in Tables
      /\ own.assessment \in Assessment
      /\ request[r].at = "reads_override" /\ UNCHANGED <<db, lock, clock>>
  BY DEF Inv, RequestsOK, TablesOK, ReadLatestOverride, Tables, Transaction
<1>2. request' = Ended(r, answer)
  BY DEF ReadLatestOverride, Answers
<1>3. ASSUME NEW o \in shown
      PROVE  o \in db.overrides /\ o.original = own.assessment.result
  <2>1. o \in db.overrides
    BY DEF LatestOverride
  <2>2. PICK s \in own.snapshots : o.snapshot = s.by /\ o.revision = s.revision
    OBVIOUS
  <2>3. s \in db.snapshots /\ Matches(own.assessment, s)
    BY <1>1 DEF Fits
  <2>4. PICK t \in db.snapshots : o.revision = t.revision /\ o.original = t.result
    BY <2>1 DEF Inv, ConstraintsHold
  <2>5. s = t
    BY <2>2, <2>3, <2>4 DEF Inv, ConstraintsHold
  <2> QED
    BY <2>1, <2>3, <2>4, <2>5 DEF Matches
<1> HIDE DEF shown
<1>4. shown \in SUBSET OverrideRow
  BY <1>1, <1>3 DEF Tables
<1>5. answer \in [result : Results, override : SUBSET OverrideRow]
  BY <1>1, <1>4, AnswerType
<1>6. \A o \in answer.override : o.original = answer.result
  BY <1>3
<1> HIDE DEF answer
<1> QED
  BY <1>1, <1>2, <1>5, <1>6, EndKeeps

-----------------------------------------------------------------------------
(* Steps that change the tables.                                           *)

\* The revisions on record, and the next one.
LEMMA Revisions ==
  ASSUME Inv
  PROVE  \E n \in 0 .. Cardinality(Over) :
            /\ {s.revision : s \in db.snapshots} = 1 .. n
            /\ \A s \in db.snapshots : s.revision \in 1 .. n
            /\ NextRevision(db.snapshots) = n + 1
<1>1. PICK n \in 0 .. Cardinality(Over) : {s.revision : s \in db.snapshots} = 1 .. n
  BY DEF Inv, Numbered
<1>2. n \in Nat
  BY CountsAreBounded
<1>3. NextRevision(db.snapshots) = n + 1
  BY <1>1, <1>2, NextRevisionIs
<1> QED
  BY <1>1, <1>3

\* A commit carries out what the transaction prepared: the rows it inserts
\* join those it started from.
LEMMA CommitFollows ==
  ASSUME Inv, NEW r \in Request, Commit(r)
  PROVE  /\ db' \in Tables /\ Follows(r, request[r], db, db')
         /\ request' = Ended(r, NoAnswer) /\ request[r].at = "commits"
         /\ lock = r /\ lock' = NoOne /\ clock' = clock
<1> DEFINE own == request[r].own
<1>1. /\ own \in Tables /\ Follows(r, request[r], db, own) /\ db \in Tables
      /\ request[r].at = "commits" /\ lock = r
  BY DEF Inv, RequestsOK, TablesOK, Fits, Commit, Transaction
<1>2. own.snapshots \cup db.snapshots = own.snapshots /\ own.overrides \cup db.overrides = own.overrides
  BY <1>1 DEF Follows, Changes, Records, Overrides, Closes
<1>3. db' = [own EXCEPT !.snapshots = own.snapshots, !.overrides = own.overrides]
  BY <1>2 DEF Commit
<1>4. /\ db' \in Tables /\ db'.assessment = own.assessment /\ db'.control = own.control
      /\ db'.snapshots = own.snapshots /\ db'.overrides = own.overrides
  BY <1>1, <1>3 DEF Tables
<1>5. Follows(r, request[r], db, db')
  BY <1>1, <1>4 DEF Follows, Changes, Records, Overrides, Closes
<1> QED
  BY <1>1, <1>4, <1>5 DEF Commit

\* The tables stay well formed.
LEMMA TablesFollow ==
  ASSUME Inv, NEW r \in Request, db' \in Tables, Follows(r, request[r], db, db'),
         clock' = clock
  PROVE  TablesOK' /\ ScoreIsCurrent' /\ ConstraintsHold'
<1>1. TablesOK /\ db \in Tables /\ ScoreIsCurrent /\ ConstraintsHold
  BY DEF Inv, TablesOK
<1>2. CASE Changes(db, db')
  <2>1. TablesOK'
    BY <1>1, <1>2 DEF TablesOK, Changes
  <2>2. ~ db'.assessment.scored
    BY <1>1, <1>2, InvalidatedType DEF Changes, Tables
  <2>3. ConstraintsHold'
    BY <1>1, <1>2 DEF ConstraintsHold, Changes
  <2> QED
    BY <2>1, <2>2, <2>3 DEF ScoreIsCurrent
<1>3. CASE Records(r, db, db')
  <2> DEFINE x == [revision |-> NextRevision(db.snapshots), inputs |-> db.control,
                   result |-> Score(db.control), by |-> r]
  <2>1. TablesOK'
    BY <1>1, <1>3 DEF TablesOK, Records
  <2>2. PICK n \in Nat : /\ \A s \in db.snapshots : s.revision \in 1 .. n
                         /\ x.revision = n + 1
    BY Revisions, CountsAreBounded
  <2>3. x.inputs = db.control /\ x.result = Score(db.control)
    OBVIOUS
  <2> HIDE DEF x
  <2>4. db'.snapshots = db.snapshots \cup {x} /\ db'.overrides = db.overrides /\ db'.control = db.control
    BY <1>3 DEF Records, x
  <2>5. x \in Latest(db'.snapshots)
    BY <2>2, <2>4 DEF Latest
  <2>6. db'.assessment.scored /\ db'.assessment.result = Score(db.control)
    BY <1>1, <1>3 DEF Records, Tables, Assessment
  <2>7. ScoreIsCurrent'
    BY <2>3, <2>4, <2>5, <2>6 DEF ScoreIsCurrent, Matches
  <2>8. ConstraintsHold'
    BY <1>1, <2>2, <2>4 DEF ConstraintsHold
  <2> QED
    BY <2>1, <2>7, <2>8
<1>4. CASE Overrides(r, request[r], db, db')
  <2>1. PICK s \in Latest(db.snapshots) :
            /\ Matches(db.assessment, s)
            /\ db'.overrides = db.overrides \cup {Overridden(r, request[r], s)}
    BY <1>4 DEF Overrides
  <2> DEFINE o == Overridden(r, request[r], s)
  <2>2. s \in db.snapshots
    BY DEF Latest
  <2>3. /\ o \in OverrideRow /\ o.result.score >= 0 /\ o.began = request[r].began
        /\ o.snapshot = s.by /\ o.revision = s.revision /\ o.original = s.result
    BY <2>2, OverrideType DEF Overridden
  <2>4. o.began \in 1 .. clock
    BY <1>4, <2>3 DEF Overrides, Inv, Ordered
  <2> HIDE DEF o
  <2>5. /\ db'.overrides = db.overrides \cup {o} /\ db'.assessment = db.assessment
        /\ db'.control = db.control /\ db'.snapshots = db.snapshots
    BY <1>4, <2>1 DEF Overrides, o
  <2>6. TablesOK'
    BY <1>1, <2>3, <2>4, <2>5 DEF TablesOK
  <2>7. ScoreIsCurrent'
    BY <1>1, <2>5 DEF ScoreIsCurrent, Matches, Latest
  <2>8. ConstraintsHold'
    BY <1>1, <2>2, <2>3, <2>5 DEF ConstraintsHold
  <2> QED
    BY <2>6, <2>7, <2>8
<1>5. CASE Closes(db, db')
  <2>1. /\ db'.assessment.scored = db.assessment.scored
        /\ db'.assessment.result = db.assessment.result
        /\ db'.control = db.control /\ db'.snapshots = db.snapshots
        /\ db'.overrides = db.overrides
    BY <1>1, <1>5 DEF Closes, Tables, Assessment
  <2>2. TablesOK'
    BY <1>1, <2>1 DEF TablesOK
  <2>3. ScoreIsCurrent' /\ ConstraintsHold'
    BY <1>1, <2>1 DEF ScoreIsCurrent, ConstraintsHold, Matches, Latest
  <2> QED
    BY <2>2, <2>3
<1> QED
  BY <1>2, <1>3, <1>4, <1>5 DEF Follows

\* Beginnings stay distinct, and revisions stay without gaps.
LEMMA CommitCounts ==
  ASSUME Inv, NEW r \in Request, Commit(r)
  PROVE  Ordered' /\ Numbered'
<1> DEFINE q == [NewRequest EXCEPT !.at = "ended", !.answer = NoAnswer]
<1>1. /\ request' = [request EXCEPT ![r] = q] /\ request[r].at = "commits"
      /\ Follows(r, request[r], db, db') /\ clock' = clock /\ clock \in Nat
  BY CommitFollows DEF Ended, Inv, Ordered
<1>2. q.at = "ended" /\ q.began = 0
  BY DEF NewRequest
<1> HIDE DEF q
<1>3. \A s \in Request : request'[s] = IF s = r THEN q ELSE request[s]
  BY <1>1 DEF Inv, RequestsOK
<1>4. \A o \in db'.overrides : o \in db.overrides \/ (o.began = request[r].began /\ o.began # 0)
  BY <1>1 DEF Follows, Changes, Records, Overrides, Closes, Overridden
<1>5. Ordered'
  <2>1. \A s \in Request : request'[s].began \in 0 .. clock
    BY <1>2, <1>3 DEF Inv, Ordered
  <2>2. \A s, t \in Request : s # t /\ request'[s].began = request'[t].began
                                 => request'[s].began = 0
    BY <1>2, <1>3 DEF Inv, Ordered
  <2>3. ASSUME NEW s \in Request, NEW o \in db'.overrides
        PROVE  o.began # request'[s].began
    <3>1. CASE o \in db.overrides
      BY <1>2, <1>3, <3>1 DEF Inv, Ordered, TablesOK
    <3>2. CASE o.began = request[r].began /\ o.began # 0
      BY <1>2, <1>3, <3>2 DEF Inv, Ordered
    <3> QED
      BY <1>4, <3>1, <3>2
  <2> QED
    BY <1>1, <2>1, <2>2, <2>3 DEF Ordered
<1>6. /\ Cardinality(Over) \in Nat /\ Cardinality(Begun) \in Nat
      /\ Cardinality(Over') = Cardinality(Over) + 1
      /\ Cardinality(Begun') = Cardinality(Begun)
  <2>1. q.at # "new" /\ request[r].at # "ended" /\ request[r].at # "new"
    BY <1>1, <1>2
  <2>2. /\ Cardinality(Over) \in Nat /\ Cardinality(Begun) \in Nat
        /\ Cardinality(Over') =
              IF q.at = "ended" THEN Cardinality(Over) + 1 ELSE Cardinality(Over)
        /\ Cardinality(Begun') =
              IF request[r].at # "new" THEN Cardinality(Begun) ELSE Cardinality(Begun) + 1
    BY <1>1, <2>1, StepCounts, Zenon
  <2> QED
    BY <1>2, <2>1, <2>2
<1>7. PICK n \in 0 .. Cardinality(Over) : /\ {s.revision : s \in db.snapshots} = 1 .. n
                                          /\ NextRevision(db.snapshots) = n + 1
  BY Revisions
<1>8. \E m \in 0 .. Cardinality(Over') : {s.revision : s \in db'.snapshots} = 1 .. m
  <2>1. CASE db'.snapshots = db.snapshots
    BY <1>6, <1>7, <2>1
  <2>2. CASE Records(r, db, db')
    <3> DEFINE x == [revision |-> NextRevision(db.snapshots), inputs |-> db.control,
                     result |-> Score(db.control), by |-> r]
    <3>0. x.revision = n + 1
      BY <1>7
    <3> HIDE DEF x
    <3>4. db'.snapshots = db.snapshots \cup {x}
      BY <2>2 DEF Records, x
    <3>1. {s.revision : s \in db'.snapshots} = {s.revision : s \in db.snapshots} \cup {n + 1}
      BY <3>0, <3>4
    <3>2. (1 .. n) \cup {n + 1} = 1 .. (n + 1)
      BY <1>6
    <3>3. n + 1 \in 0 .. Cardinality(Over')
      BY <1>6
    <3> QED
      BY <1>7, <3>1, <3>2, <3>3
  <2> QED
    BY <1>1, <2>1, <2>2 DEF Follows, Changes, Overrides, Closes
<1>9. Numbered'
  BY <1>1, <1>6, <1>8 DEF Inv, Numbered
<1> QED
  BY <1>5, <1>9

LEMMA CommitKeeps ==
  ASSUME Inv, NEW r \in Request, Commit(r)
  PROVE  Inv'
<1> DEFINE q == [NewRequest EXCEPT !.at = "ended", !.answer = NoAnswer]
<1>1. /\ request' = [request EXCEPT ![r] = q] /\ db' \in Tables
      /\ Follows(r, request[r], db, db') /\ clock' = clock /\ lock = r /\ lock' = NoOne
  BY CommitFollows DEF Ended
<1>2. /\ q \in Transaction /\ q.at = "ended" /\ q.kind = "read" /\ q.answer = NoAnswer
  BY NewRequestType, NoAnswerType DEF Transaction, Places, NewRequest
<1> HIDE DEF q
<1>3. \A s \in Request : request'[s] = IF s = r THEN q ELSE request[s]
  BY <1>1 DEF Inv, RequestsOK
<1>4. db.snapshots \subseteq db'.snapshots
  BY <1>1 DEF Follows, Changes, Records, Overrides, Closes
<1>5. TablesOK' /\ ScoreIsCurrent' /\ ConstraintsHold'
  BY <1>1, TablesFollow
<1>6. RequestsOK'
  <2>1. request' \in [Request -> Transaction]
    BY <1>1, <1>2 DEF Inv, RequestsOK
  <2>2. Fits(r, q, db')
    BY <1>2, NoAnswerType DEF Fits
  <2>3. ASSUME NEW s \in Request, s # r
        PROVE  Fits(s, request[s], db') /\ request[s].at \notin {"works", "commits"}
    <3>1. Fits(s, request[s], db) /\ request[s].at \notin {"works", "commits"}
      BY <1>1, <2>3 DEF Inv, RequestsOK
    <3> QED
      BY <1>4, <3>1 DEF Fits
  <2> QED
    BY <1>1, <1>2, <1>3, <2>1, <2>2, <2>3 DEF RequestsOK
<1>7. Ordered' /\ Numbered'
  BY CommitCounts
<1> QED
  BY <1>5, <1>6, <1>7 DEF Inv

\* The assessment appears once, before any transaction has work on it.
LEMMA CreateKeeps ==
  ASSUME Inv, CreateAssessment
  PROVE  Inv'
<1>1. /\ db \in Tables /\ db' = [db EXCEPT !.assessment = [db.assessment EXCEPT !.status = "draft"]]
      /\ UNCHANGED <<lock, request, clock>> /\ db.assessment.status = "absent"
  BY DEF Inv, TablesOK, CreateAssessment, NewAssessment
<1>2. [db.assessment EXCEPT !.status = "draft"] \in Assessment
  BY <1>1 DEF Tables, Assessment
<1>3. /\ db' \in Tables
      /\ db'.assessment.scored = db.assessment.scored
      /\ db'.assessment.result = db.assessment.result
      /\ db'.control = db.control /\ db'.snapshots = db.snapshots
      /\ db'.overrides = db.overrides
  BY <1>1, <1>2 DEF Tables, Assessment
<1>4. TablesOK' /\ ScoreIsCurrent' /\ ConstraintsHold'
  BY <1>1, <1>3 DEF Inv, TablesOK, ScoreIsCurrent, ConstraintsHold, Latest, Matches
<1>5. ASSUME NEW r \in Request
      PROVE  Fits(r, request[r], db')
  <2>1. Fits(r, request[r], db)
    BY DEF Inv, RequestsOK
  <2>2. request[r].at # "commits"
    BY <1>1, <2>1 DEF Fits, Follows, Changes, Records, Overrides, Closes, OpenForChange
  <2>3. request[r].at = "works" => request[r].own.assessment.status = "absent"
    BY <1>1, <2>1 DEF Fits
  <2> QED
    BY <1>3, <2>1, <2>2, <2>3 DEF Fits
<1>6. RequestsOK' /\ Ordered' /\ Numbered'
  BY <1>1, <1>3, <1>5 DEF Inv, RequestsOK, Ordered, Numbered, Over, Begun
<1> QED
  BY <1>4, <1>6 DEF Inv

LEMMA InitInv == Init => Inv
<1> SUFFICES ASSUME Init PROVE Inv
  OBVIOUS
<1>1. /\ db = EmptyDb /\ lock = NoOne /\ clock = 0
      /\ request = [r \in Request |-> NewRequest]
  BY DEF Init
<1>2. /\ NewRequest \in Transaction /\ NewRequest.at = "new" /\ NewRequest.began = 0
      /\ NewRequest.kind = "read" /\ NewRequest.answer.override = {} /\ NewRequest.own = EmptyDb
  BY NewRequestType DEF NewRequest, NoAnswer
<1>3. /\ EmptyDb \in Tables /\ EmptyDb.snapshots = {} /\ EmptyDb.overrides = {}
      /\ EmptyDb.assessment.scored = FALSE /\ EmptyDb.control = [c \in Control |-> DefaultControl]
  BY <1>2 DEF EmptyDb, AbsentAssessment, Transaction
<1>4. WeightIsValid(DefaultControl.weight)
  BY DEF DefaultControl, WeightIsValid
<1>5. TablesOK /\ ScoreIsCurrent /\ ConstraintsHold
  BY <1>1, <1>3, <1>4 DEF TablesOK, ScoreIsCurrent, ConstraintsHold, Admissible
<1> HIDE DEF NewRequest, EmptyDb
<1>6. RequestsOK
  BY <1>1, <1>2 DEF RequestsOK, Fits
<1>7. Ordered
  BY <1>1, <1>2, <1>3 DEF Ordered
<1>8. Numbered
  <2>1. IsFiniteSet(Over) /\ IsFiniteSet(Begun)
    BY FS_Subset, RequestAssumption DEF Over, Begun
  <2>2. Cardinality(Over) \in Nat /\ Cardinality(Begun) \in Nat
    BY <2>1, FS_CardinalityType
  <2>3. {s.revision : s \in db.snapshots} = 1 .. 0
    BY <1>1, <1>3
  <2>4. 0 \in 0 .. Cardinality(Over) /\ clock <= Cardinality(Begun)
    BY <1>1, <2>2
  <2> QED
    BY <2>3, <2>4 DEF Numbered
<1> QED
  BY <1>5, <1>6, <1>7, <1>8 DEF Inv

\* Every step keeps the invariant.
LEMMA NextKeeps == Inv /\ [Next]_vars => Inv'
<1> SUFFICES ASSUME Inv, [Next]_vars PROVE Inv'
  OBVIOUS
<1>1. CASE CreateAssessment
  BY <1>1, CreateKeeps
<1>2. ASSUME NEW r \in Request, Begin(r) PROVE Inv'
  BY <1>2, BeginKeeps
<1>3. ASSUME NEW r \in Request, LockAssessment(r) PROVE Inv'
  BY <1>3, LockKeeps
<1>4. ASSUME NEW r \in Request, Body(r) PROVE Inv'
  BY <1>4, UpdateKeeps, AdmitKeeps, ComputeKeeps, OverrideKeeps, FinalizeKeeps DEF Body
<1>5. ASSUME NEW r \in Request, Reads(r) PROVE Inv'
  BY <1>5, ReadAssessmentKeeps, ReadSnapshotKeeps, ReadOverrideKeeps DEF Reads
<1>6. ASSUME NEW r \in Request, Rollback(r) PROVE Inv'
  BY <1>6, RollbackKeeps
<1>7. ASSUME NEW r \in Request, Commit(r) PROVE Inv'
  BY <1>7, CommitKeeps
<1>8. CASE UNCHANGED vars
  <2>1. db' = db /\ lock' = lock /\ request' = request /\ clock' = clock
    BY <1>8 DEF vars
  <2>2. TablesOK' /\ ScoreIsCurrent' /\ ConstraintsHold'
    BY <2>1 DEF Inv, TablesOK, ScoreIsCurrent, ConstraintsHold, Latest, Matches
  <2>3. RequestsOK' /\ Ordered'
    BY <2>1 DEF Inv, RequestsOK, Ordered
  <2>4. Numbered'
    BY <2>1 DEF Inv, Numbered, Over, Begun
  <2> QED
    BY <2>2, <2>3, <2>4 DEF Inv
<1> QED
  BY <1>1, <1>2, <1>3, <1>4, <1>5, <1>6, <1>7, <1>8 DEF Next

\* The invariant the other results rest on. A request that holds the lock
\* knows the tables as they are, or knows that there is no assessment, so
\* what it prepares still follows from them when it commits.
THEOREM Inductive == Spec => []Inv
BY InitInv, NextKeeps, PTL DEF Spec

-----------------------------------------------------------------------------
(* The theorems.                                                           *)

\* The tables and the requests have their types, the score of an assessment
\* and of an override lies between 0 and 100.00, and there are never more
\* revisions than requests (the columns of db/models.py and their CHECKs).
THEOREM ComplianceTypes == Spec => []ComplianceTypeOK
<1>1. ASSUME Inv PROVE ComplianceTypeOK
  <2>1. Hundred \in Nat
    BY DEF Hundred
  <2>2. /\ db \in Tables /\ lock \in Request \cup {NoOne} /\ clock \in Nat
        /\ clock <= Cardinality(Request)
    BY <1>1, CountsAreBounded DEF Inv, TablesOK, RequestsOK, Ordered, Numbered
  <2>3. ASSUME NEW s \in db.snapshots PROVE s \in Snapshot
    <3>1. PICK n \in 0 .. Cardinality(Over) : \A t \in db.snapshots : t.revision \in 1 .. n
      BY <1>1, Revisions
    <3>2. s.revision \in 1 .. Cardinality(Request)
      BY <1>1, <3>1, CountsAreBounded
    <3>3. s \in SnapshotRow
      BY <2>2 DEF Tables
    <3> QED
      BY <3>2, <3>3 DEF SnapshotRow, Snapshot, Results
  <2>4. ASSUME NEW o \in db.overrides PROVE o.by \in Request /\ o.result.score \in 0 .. Hundred
    <3>1. o \in OverrideRow /\ o.result.score >= 0
      BY <1>1, <2>2 DEF Inv, TablesOK, Tables
    <3> QED
      BY <2>1, <3>1 DEF OverrideRow, Results
  <2>5. clock \in 0 .. Cardinality(Request)
    BY <1>1, <2>2, CountsAreBounded
  <2> QED
    BY <2>2, <2>3, <2>4, <2>5 DEF ComplianceTypeOK, Tables
<1> QED
  BY <1>1, Inductive, PTL

\* A score the assessment shows is the score of its controls as they are, and
\* the latest snapshot on record: compute_score and the updates that make its
\* result stale exclude each other by the lock they take.
THEOREM ScoresAreCurrent == Spec => []ScoreIsCurrent
<1>1. Inv => ScoreIsCurrent
  BY DEF Inv
<1> QED
  BY <1>1, Inductive, PTL

\* Neither the unique constraint on revisions nor the foreign key of the
\* overrides ever refuses a commit: max + 1 is computed under the lock.
THEOREM Constraints == Spec => []ConstraintsHold
<1>1. Inv => ConstraintsHold
  BY DEF Inv
<1> QED
  BY <1>1, Inductive, PTL

\* A reader, which takes no lock, is never shown an override beside a score it
\* does not override (get_assessment's three statements).
THEOREM ReadersAgree == Spec => []ReadsAgree
<1>1. Inv => ReadsAgree
  BY DEF Inv, RequestsOK, Fits, ReadsAgree
<1> QED
  BY <1>1, Inductive, PTL

\* Only three kinds of step touch the tables.
LEMMA Writers ==
  ASSUME [Next]_vars
  PROVE  db' = db \/ CreateAssessment \/ \E r \in Request : Commit(r)
BY DEF Next, vars, Begin, LockAssessment, Body, Reads, Rollback, UpdateControlAssessment,
       AdmitEvidence, ComputeScore, CreateScoreOverride, FinalizeAssessment, Writes,
       ReadAssessment, ReadLatestSnapshot, ReadLatestOverride

\* An override on record is in force until another is, whoever commits first:
\* the one that commits is shown to readers from then on, unless one whose
\* transaction began later was there before it (create_score_override).
THEOREM OverridesStand == Spec => OverrideStands
<1>1. ASSUME Inv, [Next]_vars, NEW o \in db'.overrides \ db.overrides
      PROVE  \/ ActiveOverride' = {o}
             \/ \E p \in db.overrides : p.began > o.began
  <2>1. CASE db' = db
    BY <1>1, <2>1
  <2>2. CASE CreateAssessment
    BY <1>1, <2>2 DEF CreateAssessment, NewAssessment, Inv, TablesOK, Tables
  <2>3. ASSUME NEW r \in Request, Commit(r)
        PROVE  \/ ActiveOverride' = {o}
               \/ \E p \in db.overrides : p.began > o.began
    <3>1. Follows(r, request[r], db, db')
      BY <1>1, <2>3, CommitFollows
    <3>2. Overrides(r, request[r], db, db')
      BY <1>1, <3>1 DEF Follows, Changes, Records, Closes
    <3>3. PICK s \in Latest(db.snapshots) :
              /\ Matches(db.assessment, s)
              /\ db'.overrides = db.overrides \cup {Overridden(r, request[r], s)}
      BY <3>2 DEF Overrides
    <3>4. /\ o = Overridden(r, request[r], s) /\ db'.overrides = db.overrides \cup {o}
          /\ db'.assessment = db.assessment /\ db'.snapshots = db.snapshots
      BY <1>1, <3>2, <3>3 DEF Overrides
    <3>5. o.began = request[r].began /\ o.snapshot = s.by /\ o.revision = s.revision
      BY <3>4 DEF Overridden
    <3>6. o.began \in Nat /\ \A p \in db.overrides : p.began \in Nat /\ p.began # o.began
      BY <1>1, <3>5 DEF Inv, Ordered, TablesOK
    <3>7. CASE \A p \in db.overrides : p.began <= o.began
      <4>1. LatestOverride(db'.overrides) = {o}
        BY <3>4, <3>6, <3>7 DEF LatestOverride
      <4>2. s \in Latest(db'.snapshots) /\ Matches(db'.assessment, s)
        BY <3>3, <3>4
      <4> QED
        BY <3>5, <4>1, <4>2 DEF ActiveOverride
    <3>8. CASE \E p \in db.overrides : ~ (p.began <= o.began)
      BY <3>6, <3>8
    <3> QED
      BY <3>7, <3>8
  <2> QED
    BY <1>1, <2>1, <2>2, <2>3, Writers
<1>2. Inv /\ [Next]_vars =>
        [\A o \in db'.overrides \ db.overrides :
            \/ ActiveOverride' = {o}
            \/ \E p \in db.overrides : p.began > o.began]_vars
  BY <1>1
<1> QED
  BY <1>2, Inductive, PTL DEF Spec, OverrideStands

-----------------------------------------------------------------------------
(* The transactions implement the register.                                *)

Recorded(snapshots) ==
    {[revision |-> s.revision, inputs |-> s.inputs, result |-> s.result] : s \in snapshots}

\* The last revision of the register is that of the latest snapshots.
LEMMA LatestIsLast ==
  ASSUME NEW s \in Latest(db.snapshots)
  PROVE  Register!IsLast(s.revision)
<1>1. s \in db.snapshots /\ \A t \in db.snapshots : t.revision <= s.revision
  BY DEF Latest
<1>2. \A t \in Recorded(db.snapshots) : t.revision <= s.revision
  BY <1>1 DEF Recorded
<1> DEFINE x == [revision |-> s.revision, inputs |-> s.inputs, result |-> s.result]
<1>3. x \in Recorded(db.snapshots) /\ x.revision = s.revision
  BY <1>1 DEF Recorded
<1> QED
  BY <1>2, <1>3 DEF Register!IsLast, Recorded

\* What a commit does to the tables is one step of the register.
LEMMA CommitImplements ==
  ASSUME Inv, NEW r \in Request, db' \in Tables, Follows(r, request[r], db, db')
  PROVE  Register!Next
<1>1. db \in Tables /\ ScoreIsCurrent
  BY DEF Inv, TablesOK
<1>2. CASE Changes(db, db')
  <2>1. /\ db.assessment.status # "completed" /\ db'.assessment.status # "completed"
        /\ db'.assessment.scored = FALSE
    BY <1>1, <1>2, InvalidatedType DEF Changes, OpenForChange, Tables
  <2>2. /\ db'.control \in [Control -> ControlRow]
        /\ db'.snapshots = db.snapshots /\ db'.overrides = db.overrides
    BY <1>2 DEF Changes, Tables
  <2>3. Register!Change
    BY <2>1, <2>2 DEF Register!Change
  <2> QED
    BY <2>3 DEF Register!Next
<1>3. CASE Records(r, db, db')
  <2> DEFINE s == [revision |-> NextRevision(db.snapshots), inputs |-> db.control,
                   result |-> Score(db.control), by |-> r]
             x == [revision |-> s.revision, inputs |-> s.inputs, result |-> s.result]
  <2>1. /\ db.assessment.status # "completed" /\ db'.assessment.status # "completed"
        /\ db'.assessment.scored = TRUE /\ db'.control = db.control
        /\ db'.overrides = db.overrides /\ db'.snapshots = db.snapshots \cup {s}
    BY <1>1, <1>3 DEF Records, OpenForChange, Tables, Assessment
  <2>2. x.inputs = db.control /\ x.result = Score(db.control)
        /\ x.revision = NextRevision(db.snapshots)
    OBVIOUS
  <2>3. PICK n \in Nat : /\ {t.revision : t \in db.snapshots} = 1 .. n
                         /\ NextRevision(db.snapshots) = n + 1
    BY Revisions, CountsAreBounded
  <2>4. Recorded(db'.snapshots) = Recorded(db.snapshots) \cup {x}
    BY <2>1 DEF Recorded
  <2> HIDE DEF s
  <2> HIDE DEF x
  <2>5. IF Recorded(db.snapshots) = {} THEN x.revision = 1 ELSE Register!IsLast(x.revision - 1)
    <3>1. CASE db.snapshots = {}
      BY <2>2, <3>1 DEF Recorded, NextRevision
    <3>2. CASE db.snapshots # {}
      <4>1. n \in 1 .. n
        BY <2>3, <3>2
      <4>2. PICK t \in db.snapshots : t.revision = n
        BY <2>3, <4>1
      <4>3. t \in Latest(db.snapshots)
        BY <2>3, <4>2 DEF Latest
      <4>4. x.revision - 1 = t.revision
        BY <2>2, <2>3, <4>2
      <4>5. Register!IsLast(x.revision - 1)
        BY <4>3, <4>4, LatestIsLast
      <4>6. Recorded(db.snapshots) # {}
        BY <3>2 DEF Recorded
      <4> QED
        BY <4>5, <4>6
    <3> QED
      BY <3>1, <3>2
  <2>6. x \in Recorded(db'.snapshots)
    BY <2>4
  <2>7. Register!Record
    BY <2>1, <2>2, <2>4, <2>5, <2>6 DEF Register!Record, Recorded
  <2> QED
    BY <2>7 DEF Register!Next
<1>4. CASE Overrides(r, request[r], db, db')
  <2>1. PICK s \in Latest(db.snapshots) :
            /\ Matches(db.assessment, s)
            /\ db'.overrides = db.overrides \cup {Overridden(r, request[r], s)}
    BY <1>4 DEF Overrides
  <2>2. /\ db'.assessment = db.assessment /\ db'.control = db.control
        /\ db'.snapshots = db.snapshots /\ db.assessment.scored = TRUE
    BY <1>1, <1>4, <2>1 DEF Overrides, Matches, Tables, Assessment
  <2> DEFINE x == [revision |-> s.revision, inputs |-> s.inputs, result |-> s.result]
             o == Overridden(r, request[r], s)
  <2>3. x \in Recorded(db.snapshots) /\ x.revision = s.revision
    BY DEF Latest, Recorded
  <2>4. o.revision = s.revision
    BY DEF Overridden
  <2> HIDE DEF x
  <2> HIDE DEF o
  <2>5. {p.revision : p \in db'.overrides} = {p.revision : p \in db.overrides} \cup {x.revision}
    BY <2>1, <2>3, <2>4 DEF o
  <2>6. Register!IsLast(x.revision)
    BY <2>3, LatestIsLast
  <2>7. Register!Override
    BY <2>2, <2>3, <2>5, <2>6 DEF Register!Override, Recorded
  <2> QED
    BY <2>7 DEF Register!Next
<1>5. CASE Closes(db, db')
  <2>1. /\ db'.assessment.scored = db.assessment.scored /\ db.assessment.scored = TRUE
        /\ db.assessment.status # "completed" /\ db'.assessment.status = "completed"
        /\ db'.control = db.control /\ db'.snapshots = db.snapshots
        /\ db'.overrides = db.overrides
    BY <1>1, <1>5 DEF Closes, OpenForChange, Matches, Tables, Assessment
  <2>2. Register!Close
    BY <2>1 DEF Register!Close
  <2> QED
    BY <2>2 DEF Register!Next
<1> QED
  BY <1>2, <1>3, <1>4, <1>5 DEF Follows

\* The concurrent transactions implement the register of ScoreRegister: every
\* commit is one of its steps, and no other step of theirs shows.
THEOREM Implements == Spec => ImplementsRegister
<1>1. Init => Register!Init
  <2> SUFFICES ASSUME Init PROVE Register!Init
    OBVIOUS
  <2>1. EmptyDb \in Tables
    BY NewRequestType DEF NewRequest, Transaction
  <2>2. /\ db.control \in [Control -> ControlRow] /\ db.snapshots = {} /\ db.overrides = {}
        /\ db.assessment.scored = FALSE /\ db.assessment.status # "completed"
    BY <2>1 DEF Init, EmptyDb, AbsentAssessment, Tables
  <2> QED
    BY <2>2 DEF Register!Init
<1>2. ASSUME Inv, [Next]_vars
      PROVE  [Register!Next]_(Register!registerVars)
  <2>1. CASE db' = db
    BY <2>1 DEF Register!registerVars
  <2>2. CASE CreateAssessment
    <3>1. /\ db'.assessment.scored = db.assessment.scored
          /\ db.assessment.status # "completed" /\ db'.assessment.status # "completed"
          /\ db'.control = db.control /\ db'.snapshots = db.snapshots
          /\ db'.overrides = db.overrides
      BY <1>2, <2>2 DEF CreateAssessment, NewAssessment, Inv, TablesOK, Tables, Assessment
    <3> QED
      BY <3>1 DEF Register!registerVars
  <2>3. ASSUME NEW r \in Request, Commit(r)
        PROVE  Register!Next
    BY <1>2, <2>3, CommitFollows, CommitImplements
  <2> QED
    BY <1>2, <2>1, <2>2, <2>3, Writers
<1> QED
  BY <1>1, <1>2, Inductive, PTL DEF Spec, ImplementsRegister, Register!Spec
===============================================================================
