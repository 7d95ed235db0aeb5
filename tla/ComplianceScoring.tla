--------------------------- MODULE ComplianceScoring ---------------------------
(* The deterministic scoring engine. Scores are hundredths and effective       *)
(* weights tenths, as the columns that hold them: Numeric(5, 2), Numeric(3, 1).*)
(* A product or a quotient is rounded half up to a hundredth.                  *)
EXTENDS Integers, FiniteSets, FiniteSetsExt

ControlStatuses == {"satisfied", "partially_satisfied", "deficient", "unassessed",
                    "not_applicable"}
Classifications == {"not_scored", "low", "medium", "high", "critical"}

\* 100.00, the highest score.
Hundred == 10000

\* An effective weight lies between 1.0 and 5.0.
WeightIsValid(weight) == weight >= 10 /\ weight <= 50

RoundHalfUp(n, d) == (2 * n + d) \div (2 * d)

BaseScore == [satisfied |-> Hundred, partially_satisfied |-> 5000, deficient |-> 0,
              unassessed |-> 0, not_applicable |-> 0]

\* An input `c` is the status and the weight of a control and its evidence.
Grounded(c) == c.evidence # {}
Applicable(c) == c.status # "not_applicable"

\* The score of a control without evidence counts for seven tenths.
RawScore(c) == IF Grounded(c) THEN BaseScore[c.status] ELSE (BaseScore[c.status] * 7) \div 10
WeightedScore(c) == RoundHalfUp(RawScore(c) * c.weight, 10)

\* The band of the residual risk, 100.00 less the score.
Classify(score) ==
    LET risk == Hundred - score IN
    IF risk < 2500 THEN "low"
    ELSE IF risk < 5000 THEN "medium"
    ELSE IF risk < 7500 THEN "high" ELSE "critical"

\* A deficient control of the highest weight makes the whole critical.
CriticalOverride(c) == c.weight >= 50 /\ c.status = "deficient"

NotScored == [score |-> -1, class |-> "not_scored"]

\* The average of the applicable controls of `inputs`, a function from controls
\* to inputs, by weight.
Score(inputs) ==
    LET counted == {k \in DOMAIN inputs : Applicable(inputs[k])}
        Weight(k) == inputs[k].weight
        Weighted(k) == WeightedScore(inputs[k])
        score == RoundHalfUp(10 * MapThenSumSet(Weighted, counted),
                             MapThenSumSet(Weight, counted)) IN
    IF counted = {} THEN NotScored
    ELSE [score |-> score,
          class |-> IF \E k \in counted : CriticalOverride(inputs[k]) THEN "critical"
                    ELSE Classify(score)]
================================================================================
