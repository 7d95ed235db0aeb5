--------------------------- MODULE GroundingProofs ---------------------------
(***************************************************************************)
(* What the services claim is grounded, for every set of callers, chunks   *)
(* and controls and every budget.  Four arguments:                         *)
(*                                                                         *)
(*   - what the index answers passes the adapter's checks item by item, by *)
(*     induction over the items;                                           *)
(*   - claims come after the prompt they are checked against, and the risk *)
(*     agent and the reviewer pack their prompts alike;                    *)
(*   - a prompt never outgrows the budget and shows a block of any chunks  *)
(*     there are, by induction over the blocks it takes;                   *)
(*   - permissions are asked before anything is found.                     *)
(***************************************************************************)
EXTENDS Grounding, WellFoundedInduction, TLAPS

-----------------------------------------------------------------------------
(* The inductive invariant.                                                *)

NoClaims == cited = {} /\ judged = {} /\ estimates = {}

\* Nothing is claimed before the model answered; the risk agent's estimates
\* wait for a reviewer who will see the same prompt.
ClaimsInOrder ==
    /\ pc = "idle" => NoClaims /\ found = <<>>
    /\ pc \in {"policy", "plan", "search", "generate", "risk"} => NoClaims
    /\ pc = "review" => /\ cited = {} /\ judged = {}
                        /\ Trusted(found) /\ estimates \subseteq Range(found)
                        /\ estimates \subseteq ShownBy(found, RiskPrompt(found))

Inv ==
    /\ found \in Seq(Chunks)
    /\ ClaimsInOrder /\ EvidenceIsVisible /\ CitationsAreShown /\ EstimatesReachReview

\* The risk agent and the reviewer pack alike.
LEMMA SamePrompt == \A s : ReviewPrompt(s) = RiskPrompt(s)
BY DEF ReviewPrompt, RiskPrompt

-----------------------------------------------------------------------------
(* Induction over positions.                                               *)

\* A set of numbers that is not empty has a least one.
LEMMA LeastNumber ==
  ASSUME NEW T \in SUBSET Nat, T # {}
  PROVE  \E n \in T : \A m \in T : n <= m
<1>1. IsWellFoundedOn({ss \in Nat \X Nat : ss[1] < ss[2]}, Nat)
  BY NatLessThanWellFounded DEF OpToRel
<1>2. PICK n \in T : \A m \in T : ~ (<<m, n>> \in {ss \in Nat \X Nat : ss[1] < ss[2]})
  BY <1>1, WFMin
<1>3. ASSUME NEW m \in T
      PROVE  n <= m
  <2>1. <<m, n>> \in Nat \X Nat /\ <<m, n>>[1] = m /\ <<m, n>>[2] = n
    OBVIOUS
  <2>2. ~ (m < n)
    BY <1>2, <2>1
  <2> QED
    BY <2>2
<1> QED
  BY <1>3

\* A set that has zero and the successor of each of its numbers has them all.
LEMMA Upwards ==
  ASSUME NEW T \in SUBSET Nat, 0 \in T, \A n \in T : n + 1 \in T
  PROVE  T = Nat
<1> SUFFICES ASSUME Nat \ T # {}
             PROVE  FALSE
  OBVIOUS
<1>1. PICK n \in Nat \ T : \A m \in Nat \ T : n <= m
  BY LeastNumber
<1>2. n - 1 \in T
  BY <1>1
<1> QED
  BY <1>1, <1>2

-----------------------------------------------------------------------------
(* What a search brings.                                                   *)

\* What one more item, the chunk c, does to what the adapter kept so far.
Sifted(r, c, p) ==
    IF OtherTenant(c, p) \/ OverCleared(c, p) THEN r ELSE Append(r, c)

\* `kept` has what the adapter keeps of each of the first n items of s.
Keeps(kept, s, p, n) ==
    kept = [i \in 0 .. n |-> IF i = 0 THEN <<>> ELSE Sifted(kept[i - 1], s[i], p)]

\* Chunks the caller p may see, in some order.
VisibleTo(r, p) == r \in Seq(Chunks) /\ Range(r) \subseteq Visible(p)

\* One more item brings a chunk the caller may see, or none.
LEMMA SiftedVisible ==
  ASSUME NEW p, NEW r, VisibleTo(r, p), NEW c \in Chunks
  PROVE  VisibleTo(Sifted(r, c, p), p)
<1>1. CASE OtherTenant(c, p) \/ OverCleared(c, p)
  BY <1>1 DEF Sifted
<1>2. CASE ~ (OtherTenant(c, p) \/ OverCleared(c, p))
  <2>1. c \in Visible(p) /\ Sifted(r, c, p) = Append(r, c)
    BY <1>2 DEF OtherTenant, OverCleared, Visible, Sifted
  <2>2. r \in Seq(Chunks) /\ Append(r, c) \in Seq(Chunks)
    BY DEF VisibleTo
  <2>3. \A i \in 1 .. Len(Append(r, c)) : Append(r, c)[i] \in Visible(p)
    <3>1. ASSUME NEW i \in 1 .. Len(r)
          PROVE  r[i] \in Visible(p)
      BY <2>2 DEF VisibleTo, Range
    <3> QED
      BY <2>1, <2>2, <3>1
  <2> QED
    BY <2>1, <2>2, <2>3 DEF VisibleTo, Range
<1> QED
  BY <1>1, <1>2

\* The recursive function of the suppression exists, whatever the items.
LEMMA KeptExists ==
  ASSUME NEW s, NEW p, NEW n \in Nat
  PROVE  \E kept : Keeps(kept, s, p, n)
<1> DEFINE Known == {m \in Nat : \E kept : Keeps(kept, s, p, m)}
<1>1. 0 \in Known
  <2>1. Keeps([i \in 0 .. 0 |-> <<>>], s, p, 0)
    BY DEF Keeps
  <2> QED
    BY <2>1
<1>2. ASSUME NEW m \in Known
      PROVE  m + 1 \in Known
  <2>1. PICK f : Keeps(f, s, p, m)
    OBVIOUS
  <2> DEFINE g == [i \in 0 .. m + 1 |-> IF i = 0 THEN <<>> ELSE Sifted(f[i - 1], s[i], p)]
  <2>2. \A i \in 0 .. m : g[i] = f[i]
    <3>1. \A i \in 0 .. m : f[i] = IF i = 0 THEN <<>> ELSE Sifted(f[i - 1], s[i], p)
      BY <2>1 DEF Keeps
    <3>2. \A i \in 0 .. m : i \in 0 .. m + 1
      OBVIOUS
    <3> QED
      BY <3>1, <3>2
  <2>3. \A i \in 0 .. m + 1 : i # 0 => i - 1 \in 0 .. m
    OBVIOUS
  <2>4. Keeps(g, s, p, m + 1)
    <3>1. g = [i \in 0 .. m + 1 |-> IF i = 0 THEN <<>> ELSE Sifted(g[i - 1], s[i], p)]
      <4>1. \A i \in 0 .. m + 1 : i # 0 => g[i - 1] = f[i - 1]
        <5> HIDE DEF g
        <5> QED
          BY <2>2, <2>3
      <4> QED
        BY <4>1
    <3> QED
      BY <3>1 DEF Keeps
  <2> HIDE DEF g
  <2> QED
    BY <2>4
<1> HIDE DEF Known
<1>3. Known \in SUBSET Nat
  BY DEF Known
<1>4. n \in Known
  BY <1>1, <1>2, <1>3, Upwards
<1> QED
  BY <1>4 DEF Known

\* Whatever the index answers, the adapter keeps what the caller may see.
LEMMA SuppressedVisible ==
  ASSUME NEW s \in Seq(Chunks), NEW p
  PROVE  VisibleTo(Suppressed(s, p), p)
<1> DEFINE n == Len(s)
           f == CHOOSE kept : Keeps(kept, s, p, n)
<1>1. Suppressed(s, p) = f[n]
  BY DEF Suppressed, Keeps, Sifted
<1>2. n \in Nat
  OBVIOUS
<1>3. Keeps(f, s, p, n)
  BY <1>2, KeptExists
<1> HIDE DEF f
<1>4. \A i \in 0 .. n : f[i] = IF i = 0 THEN <<>> ELSE Sifted(f[i - 1], s[i], p)
  BY <1>3 DEF Keeps
<1> DEFINE Safe == {m \in Nat : m <= n => VisibleTo(f[m], p)}
<1>5. 0 \in Safe
  <2>1. f[0] = <<>>
    BY <1>2, <1>4
  <2>2. VisibleTo(<<>>, p)
    BY DEF VisibleTo, Range
  <2> QED
    BY <2>1, <2>2
<1>6. ASSUME NEW m \in Safe
      PROVE  m + 1 \in Safe
  <2> SUFFICES ASSUME m + 1 <= n
               PROVE  VisibleTo(f[m + 1], p)
    OBVIOUS
  <2>1. m \in Nat /\ VisibleTo(f[m], p)
    BY <1>2
  <2>2. f[m + 1] = Sifted(f[m], s[m + 1], p)
    <3>1. m + 1 \in 0 .. n /\ m + 1 # 0 /\ (m + 1) - 1 = m
      BY <1>2, <2>1
    <3> QED
      BY <1>4, <3>1
  <2>3. s[m + 1] \in Chunks
    <3>1. m + 1 \in 1 .. Len(s)
      BY <1>2, <2>1
    <3> QED
      BY <3>1
  <2> QED
    BY <2>1, <2>2, <2>3, SiftedVisible
<1>7. n \in Safe
  <2> HIDE DEF Safe
  <2>1. Safe \in SUBSET Nat
    BY DEF Safe
  <2> QED
    BY <1>2, <1>5, <1>6, <2>1, Upwards
<1> QED
  BY <1>1, <1>2, <1>7

\* Rows selected for the caller, or what the adapter kept: the caller may see it.
LEMMA MatchesVisible ==
  ASSUME NEW p, NEW s \in Matches(p)
  PROVE  s \in Seq(Chunks) /\ Range(s) \subseteq Visible(p)
<1>1. CASE s \in Ranked(Visible(p))
  <2>1. PICK n \in 0 .. TopK : s \in [1 .. n -> Visible(p)]
    BY <1>1 DEF Ranked
  <2>2. n \in Nat /\ Visible(p) \subseteq Chunks
    BY <2>1 DEF Visible
  <2> QED
    BY <2>1, <2>2 DEF Range
<1>2. CASE s \in IndexMatches(p)
  <2>1. PICK a \in Answers : s = Suppressed(a, p)
    BY <1>2 DEF IndexMatches
  <2>2. a \in Seq(Chunks)
    <3>1. PICK n \in 0 .. MaxIndex : a \in [1 .. n -> Chunks]
      BY DEF Answers
    <3> QED
      BY <3>1
  <2> QED
    BY <2>1, <2>2, SuppressedVisible DEF VisibleTo
<1> QED
  BY <1>1, <1>2 DEF Matches, SessionMatches, DataApiMatches

\* What two searches found together.
LEMMA FoundTogether ==
  ASSUME NEW s \in Seq(Chunks), NEW t \in Seq(Chunks)
  PROVE  s \o t \in Seq(Chunks) /\ Range(s \o t) \subseteq Range(s) \cup Range(t)
BY DEF Range

-----------------------------------------------------------------------------
(* Every step keeps the invariant.                                         *)

\* A call starts, or ends as it starts, with nothing found or claimed.
LEMMA StartKeeps ==
  ASSUME Inv, NEW p \in Callers, Start(p)
  PROVE  Inv'
<1>1. CASE \E k \in Kinds, cs \in SUBSET Controls, first \in {"search", "policy", "plan"} :
             Begin(k, p, cs, first)
  <2>1. PICK first \in {"search", "policy", "plan"} :
             /\ pc = "idle" /\ caller' = p /\ pc' = first
             /\ UNCHANGED <<found, prompt, cited, judged, estimates, outcome>>
    BY <1>1 DEF Begin
  <2>2. found = <<>> /\ NoClaims
    BY <2>1 DEF Inv, ClaimsInOrder
  <2> QED
    BY <2>1, <2>2 DEF Inv, ClaimsInOrder, EvidenceIsVisible, CitationsAreShown, EstimatesReachReview, NoClaims,
                      Range, ShownBy
<1>2. CASE \E k \in Kinds, r \in {"refused", "missing", "invalid", "ok"} : BeginEnded(k, p, r)
  <2>1. PICK r \in {"refused", "missing", "invalid", "ok"} :
             /\ pc = "idle" /\ caller' = p /\ pc' = "done" /\ outcome' = r
             /\ UNCHANGED <<target, found, prompt, cited, judged, estimates>>
    BY <1>2 DEF BeginEnded
  <2>2. found = <<>> /\ NoClaims
    BY <2>1 DEF Inv, ClaimsInOrder
  <2> QED
    BY <2>1, <2>2 DEF Inv, ClaimsInOrder, EvidenceIsVisible, CitationsAreShown, EstimatesReachReview, NoClaims,
                      Range, ShownBy
<1>3. \/ StartSearch(p) \/ StartAnswer(p) \/ StartExtract(p)
      \/ StartAnalyze(p) \/ StartWorkflow(p) \/ StartDeployed(p)
  BY DEF Start
<1>4. ASSUME StartSearch(p) \/ StartAnswer(p) \/ StartWorkflow(p) \/ StartDeployed(p)
      PROVE  Inv'
  BY <1>1, <1>2, <1>4 DEF StartSearch, StartAnswer, StartWorkflow, StartDeployed, Refused, Kinds
<1>5. ASSUME StartExtract(p) \/ StartAnalyze(p) PROVE Inv'
  BY <1>1, <1>2, <1>5 DEF StartExtract, StartAnalyze, Refused, Kinds
<1> QED
  BY <1>3, <1>4, <1>5

\* A failure, a policy read and a plan claim nothing.
LEMMA QuietSteps ==
  ASSUME Inv, Fails \/ GetPolicy \/ PlanAnalysis \/ PlanResearch
  PROVE  Inv'
<1>1. UNCHANGED <<caller, target, found, prompt, cited, judged, estimates>>
  BY DEF Fails, SearchFails, AnswerFails, ExtractionFails, ControlsOverBudget, AnalysisFails, ResearchFails,
         RiskFails, ReviewFails, ModelFails, ReplyBlocked, EndsAt, GetPolicy, PlanAnalysis, PlanResearch, PlansSearch
<1>2. \/ pc' = "done" /\ outcome' \notin {"untrusted", "excluded"}
      \/ pc \in {"policy", "plan"} /\ pc' \in {"plan", "search"} /\ UNCHANGED outcome
  BY DEF Fails, SearchFails, AnswerFails, ExtractionFails, ControlsOverBudget, AnalysisFails, ResearchFails,
         RiskFails, ReviewFails, ModelFails, ReplyBlocked, EndsAt, GetPolicy, PlanAnalysis, PlanResearch, PlansSearch,
         Goto, Finish
<1> QED
  BY <1>1, <1>2 DEF Inv, ClaimsInOrder, EvidenceIsVisible, CitationsAreShown, EstimatesReachReview, NoClaims,
                    ShownBy, RiskPrompt

\* A search brings chunks the caller may see, before anything is claimed.
LEMMA SearchKeeps ==
  ASSUME Inv, Search
  PROVE  Inv'
<1>1. pc = "search" /\ NoClaims
  BY DEF Search, SearchDirectly, SearchForControl, SearchByTool, Inv, ClaimsInOrder
<1>2. UNCHANGED <<caller, target, prompt, cited, judged, estimates>>
  BY DEF Search, SearchDirectly, SearchForControl, SearchByTool
<1>3. \/ pc' = "done" /\ outcome' \notin {"untrusted", "excluded"}
      \/ pc' \in {"search", "generate", "risk"} /\ UNCHANGED outcome
  BY DEF Search, SearchDirectly, SearchForControl, SearchByTool, AfterSearch, Goto, Finish
<1>4. found' \in Seq(Chunks) /\ Range(found') \subseteq Visible(caller)
  <2>1. CASE UNCHANGED found
    BY <2>1 DEF Inv, EvidenceIsVisible
  <2>2. CASE \E s \in Matches(caller) : found' = s
    BY <2>2, MatchesVisible
  <2>3. CASE \E s \in Matches(caller) : found' = found \o s
    <3>1. PICK s \in Matches(caller) : found' = found \o s
      BY <2>3
    <3>2. s \in Seq(Chunks) /\ Range(s) \subseteq Visible(caller)
      BY MatchesVisible
    <3> QED
      BY <3>1, <3>2, FoundTogether DEF Inv, EvidenceIsVisible
  <2> QED
    BY <2>1, <2>2, <2>3 DEF Search, SearchDirectly, SearchForControl, SearchByTool
<1>5. EvidenceIsVisible' /\ CitationsAreShown'
  BY <1>1, <1>2, <1>4 DEF EvidenceIsVisible, CitationsAreShown, NoClaims, Visible
<1> QED
  BY <1>1, <1>2, <1>3, <1>4, <1>5 DEF Inv, ClaimsInOrder, EstimatesReachReview, NoClaims

\* Labels that were shown name chunks of the prompt.
LEMMA LabelsShown ==
  ASSUME NEW p, NEW labels, CitesShown(labels, p)
  PROVE  {found[l] : l \in labels} \subseteq ShownBy(found, p)
BY DEF CitesShown, ShownBy

LEMMA AnswerKeeps ==
  ASSUME Inv, Answer
  PROVE  Inv'
<1>1. NoClaims /\ UNCHANGED <<caller, target, found, judged, estimates>>
  BY DEF Answer, Inv, ClaimsInOrder
<1>2. pc' = "done" /\ outcome' \in {"ok", "upstream"}
  BY DEF Answer, Finish
<1>3. cited' \subseteq ShownBy(found, prompt')
  <2>1. PICK labels : IF CitesShown(labels, prompt')
                      THEN cited' = {found[i] : i \in labels} ELSE UNCHANGED cited
    BY DEF Answer
  <2>2. CASE CitesShown(labels, prompt')
    BY <2>1, <2>2, LabelsShown
  <2>3. CASE ~ CitesShown(labels, prompt')
    BY <1>1, <2>1, <2>3 DEF NoClaims
  <2> QED
    BY <2>2, <2>3
<1>4. EvidenceIsVisible' /\ CitationsAreShown'
  BY <1>1, <1>3 DEF Inv, EvidenceIsVisible, CitationsAreShown, NoClaims, Visible, ShownBy
<1> QED
  BY <1>1, <1>2, <1>4 DEF Inv, ClaimsInOrder, EstimatesReachReview

\* Whatever labels a service looks at, it keeps only those its prompt shows.
LEMMA ProposeKeeps ==
  ASSUME Inv, pc = "generate", NEW p, Propose(p)
  PROVE  Inv'
<1>1. NoClaims /\ UNCHANGED <<caller, target, found, estimates>> /\ prompt' = p
  BY DEF Propose, Inv, ClaimsInOrder
<1>2. PICK reply \in Replies :
        IF Acceptable(reply, p)
        THEN /\ cited' = {found[l] : l \in UNION {Used(reply[i]) : i \in DOMAIN reply}}
             /\ judged' = {reply[i].control : i \in DOMAIN reply}
             /\ Finish("ok")
        ELSE Finish("upstream") /\ UNCHANGED <<cited, judged>>
  BY DEF Propose
<1>3. pc' = "done" /\ outcome' \in {"ok", "upstream"}
  BY <1>2 DEF Finish
<1>4. cited' \subseteq ShownBy(found, prompt') /\ judged' \subseteq target
  <2>1. CASE Acceptable(reply, p)
    <3>1. \A i \in DOMAIN reply :
             reply[i].control \in target /\ CitesShown(Used(reply[i]), p)
      BY <2>1 DEF Acceptable
    <3>2. CitesShown(UNION {Used(reply[i]) : i \in DOMAIN reply}, p)
      BY <3>1 DEF CitesShown
    <3> QED
      BY <1>1, <1>2, <2>1, <3>1, <3>2, LabelsShown
  <2>2. CASE ~ Acceptable(reply, p)
    BY <1>1, <1>2, <2>2 DEF NoClaims
  <2> QED
    BY <2>1, <2>2
<1>5. EvidenceIsVisible' /\ CitationsAreShown'
  BY <1>1, <1>4 DEF Inv, EvidenceIsVisible, CitationsAreShown, NoClaims, Visible, ShownBy
<1> QED
  BY <1>1, <1>3, <1>5 DEF Inv, ClaimsInOrder, EstimatesReachReview

LEMMA RiskKeeps ==
  ASSUME Inv, pc = "risk", Assess
  PROVE  Inv'
<1>1. NoClaims /\ UNCHANGED <<caller, target, found, cited, judged>>
  BY DEF Assess, Inv, ClaimsInOrder
<1>2. CASE ~ Trusted(found)
  <2>1. pc' = "done" /\ outcome' = "invalid" /\ UNCHANGED <<prompt, estimates>>
    BY <1>2 DEF Assess, Finish
  <2>2. EvidenceIsVisible' /\ CitationsAreShown'
    BY <1>1, <2>1 DEF Inv, EvidenceIsVisible, CitationsAreShown, NoClaims, Visible, ShownBy
  <2> QED
    BY <1>1, <2>1, <2>2 DEF Inv, ClaimsInOrder, EstimatesReachReview
<1>3. CASE Trusted(found)
  <2>1. prompt' = RiskPrompt(found)
    BY <1>3 DEF Assess
  <2>2. PICK chunks \in SUBSET Range(found) :
           IF chunks \subseteq ShownBy(found, prompt')
           THEN estimates' = chunks /\ Goto("review")
           ELSE Finish("upstream") /\ UNCHANGED estimates
    BY <1>3 DEF Assess
  <2>3. CASE chunks \subseteq ShownBy(found, prompt')
    <3>1. pc' = "review" /\ UNCHANGED outcome /\ estimates' = chunks
      BY <2>2, <2>3 DEF Goto
    <3>2. estimates' \subseteq Range(found) /\ estimates' \subseteq ShownBy(found, RiskPrompt(found))
      BY <2>1, <2>2, <2>3, <3>1
    <3>3. EvidenceIsVisible' /\ CitationsAreShown'
      BY <1>1, <2>1, <3>2 DEF Inv, EvidenceIsVisible, CitationsAreShown, NoClaims, Visible, ShownBy
    <3>4. /\ ShownBy(found', RiskPrompt(found')) = ShownBy(found, RiskPrompt(found))
          /\ Trusted(found')
      BY <1>1, <1>3
    <3> QED
      BY <1>1, <3>1, <3>2, <3>3, <3>4 DEF Inv, ClaimsInOrder, EstimatesReachReview, NoClaims
  <2>4. CASE ~ (chunks \subseteq ShownBy(found, prompt'))
    <3>1. pc' = "done" /\ outcome' = "upstream" /\ UNCHANGED estimates
      BY <2>2, <2>4 DEF Finish
    <3>2. EvidenceIsVisible' /\ CitationsAreShown'
      BY <1>1, <3>1 DEF Inv, EvidenceIsVisible, CitationsAreShown, NoClaims, Visible, ShownBy
    <3> QED
      BY <1>1, <3>1, <3>2 DEF Inv, ClaimsInOrder, EstimatesReachReview
  <2> QED
    BY <2>3, <2>4
<1> QED
  BY <1>2, <1>3

\* The reviewer's prompt is the one the estimates were made from.
LEMMA ReviewKeeps ==
  ASSUME Inv, pc = "review", Decide
  PROVE  Inv'
<1>1. /\ cited = {} /\ judged = {} /\ Trusted(found) /\ estimates \subseteq Range(found)
      /\ estimates \subseteq ShownBy(found, ReviewPrompt(found))
      /\ UNCHANGED <<caller, target, found, judged, estimates>>
  BY SamePrompt DEF Decide, Inv, ClaimsInOrder
<1>2. prompt' = ReviewPrompt(found) /\ pc' = "done"
  BY DEF Decide, Finish
<1>3. /\ outcome' \notin {"untrusted", "excluded"}
      /\ cited' \subseteq ShownBy(found, prompt')
  <2>1. CASE NoEvidence
    BY <1>1, <2>1 DEF Decide, Untrusted, Finish
  <2>2. CASE ~ NoEvidence
    <3>1. PICK chunks \in SUBSET Range(found) :
             IF chunks \subseteq ShownBy(found, prompt')
             THEN cited' = chunks /\ (Finish("pass") \/ Finish("fail"))
             ELSE Finish("upstream") /\ UNCHANGED cited
      BY <1>1, <2>2 DEF Decide, Untrusted, Excluded
    <3> QED
      BY <1>1, <3>1 DEF Finish
  <2> QED
    BY <2>1, <2>2
<1>4. EvidenceIsVisible' /\ CitationsAreShown'
  BY <1>1, <1>2, <1>3 DEF Inv, EvidenceIsVisible, CitationsAreShown, Visible, ShownBy
<1> QED
  BY <1>1, <1>2, <1>3, <1>4 DEF Inv, ClaimsInOrder, EstimatesReachReview

LEMMA ReturnKeeps ==
  ASSUME Inv, Return
  PROVE  Inv'
<1>1. /\ pc' = "idle" /\ found' = <<>> /\ cited' = {} /\ judged' = {} /\ estimates' = {}
      /\ target' = {} /\ outcome' = "none"
  BY DEF Return
<1> QED
  BY <1>1 DEF Inv, ClaimsInOrder, EvidenceIsVisible, CitationsAreShown, EstimatesReachReview, NoClaims, Range

\* The invariant holds at the start and is kept by every step.
LEMMA InitInv == Init => Inv
BY DEF Init, Inv, ClaimsInOrder, EvidenceIsVisible, CitationsAreShown, EstimatesReachReview, NoClaims, Range

LEMMA StepInv == Inv /\ [Next]_vars => Inv'
<1> SUFFICES ASSUME Inv, [Next]_vars PROVE Inv'
  OBVIOUS
<1>1. CASE \E p \in Callers : Start(p)
  BY <1>1, StartKeeps
<1>2. CASE Advance
  <2>1. CASE GetPolicy \/ PlanAnalysis \/ PlanResearch
    BY <2>1, QuietSteps
  <2>2. CASE Search
    BY <2>2, SearchKeeps
  <2>3. CASE Answer
    BY <2>3, AnswerKeeps
  <2>4. CASE Extract
    BY <2>4, ProposeKeeps DEF Extract
  <2>5. CASE Analyze
    BY <2>5, ProposeKeeps DEF Analyze
  <2>6. CASE Risk \/ RiskTask
    BY <2>6, RiskKeeps DEF Risk, RiskTask
  <2>7. CASE Review \/ ReviewTask
    BY <2>7, ReviewKeeps DEF Review, ReviewTask
  <2> QED
    BY <1>2, <2>1, <2>2, <2>3, <2>4, <2>5, <2>6, <2>7 DEF Advance
<1>3. CASE Fails
  BY <1>3, QuietSteps
<1>4. CASE Return
  BY <1>4, ReturnKeeps
<1>5. CASE UNCHANGED vars
  BY <1>5 DEF vars, Inv, ClaimsInOrder, EvidenceIsVisible, CitationsAreShown, EstimatesReachReview, NoClaims,
              Visible, ShownBy, RiskPrompt
<1> QED
  BY <1>1, <1>2, <1>3, <1>4, <1>5 DEF Next

-----------------------------------------------------------------------------
(* Packing.                                                                *)

Prompts == [blocks : Nat, length : Nat]

\* A prompt over i chunks: within the budget, and with a block of them if any.
FitsUpTo(p, i) ==
    /\ p \in Prompts /\ p.blocks <= i /\ p.length <= MaxContext
    /\ p.blocks = 0 => p.length = 0
    /\ i > 0 => p.blocks > 0

\* What the i-th chunk, of this length, does to the prompt p.
Taken(p, i, length, cut) ==
    IF p.blocks = i - 1 /\ (IF cut THEN CutFits(p) ELSE WholeFits(p, length))
    THEN Admit(p, length)
    ELSE p

\* `fill` has the prompt over each of the first n chunks of s.
Fills(fill, s, cut, n) ==
    fill = [i \in 0 .. n |->
               IF i = 0 THEN NoPrompt
               ELSE Taken(fill[i - 1], i, ChunkLength[s[i]], cut)]

\* One more chunk keeps the prompt within the budget, and the first is shown.
LEMMA TakenFits ==
  ASSUME NEW i \in Nat, NEW p, FitsUpTo(p, i), NEW length \in Nat, NEW cut
  PROVE  FitsUpTo(Taken(p, i + 1, length, cut), i + 1)
<1>0. /\ p.blocks \in Nat /\ p.length \in Nat
      /\ Header \in Nat \ {0} /\ Separator \in Nat /\ MaxContext \in Nat /\ Header < MaxContext
  BY BudgetAssumption DEF FitsUpTo, Prompts
<1> DEFINE gap == Gap(p)
           room == Room(p)
           content == IF Header + length <= room THEN length ELSE room - Header
<1>1. /\ gap \in Nat /\ room = MaxContext - p.length - gap /\ room \in Int
      /\ p.blocks = 0 => room = MaxContext
  BY <1>0 DEF Gap, Room, FitsUpTo
<1>2. CASE p.blocks = i /\ (IF cut THEN CutFits(p) ELSE WholeFits(p, length))
  <2>1. Taken(p, i + 1, length, cut)
          = [blocks |-> p.blocks + 1, length |-> p.length + gap + Header + content]
    <3>1. p.blocks = (i + 1) - 1
      BY <1>2
    <3> QED
      BY <1>2, <3>1 DEF Taken, Admit
  <2>2. Header <= room
    BY <1>0, <1>1, <1>2 DEF CutFits, WholeFits
  <2> HIDE DEF gap, room
  <2>3. content \in Nat /\ Header + content <= room
    BY <1>0, <1>1, <2>2
  <2> HIDE DEF content
  <2> DEFINE total == p.length + gap + Header + content
  <2>4. total \in Nat \ {0} /\ total <= MaxContext
    BY <1>0, <1>1, <2>3
  <2>5. p.blocks + 1 \in Nat /\ p.blocks + 1 = i + 1
    BY <1>0, <1>2
  <2> HIDE DEF total
  <2> QED
    BY <2>1, <2>4, <2>5 DEF FitsUpTo, Prompts, total
<1>3. CASE ~ (p.blocks = i /\ (IF cut THEN CutFits(p) ELSE WholeFits(p, length)))
  <2>1. Taken(p, i + 1, length, cut) = p
    <3>1. (i + 1) - 1 = i
      OBVIOUS
    <3> QED
      BY <1>3, <3>1 DEF Taken
  <2>2. p.blocks > 0
    <3>1. ASSUME p.blocks = 0, i = 0
          PROVE  FALSE
      <4>1. room = MaxContext
        BY <1>1, <3>1
      <4>2. CutFits(p) /\ WholeFits(p, length)
        BY <1>0, <3>1, <4>1 DEF CutFits, WholeFits
      <4> QED
        BY <1>3, <3>1, <4>2
    <3> QED
      BY <1>0, <3>1 DEF FitsUpTo
  <2> QED
    BY <1>0, <2>1, <2>2 DEF FitsUpTo
<1> QED
  BY <1>2, <1>3

\* The recursive function of a packing exists, whatever the chunks.
LEMMA FillExists ==
  ASSUME NEW s, NEW cut, NEW n \in Nat
  PROVE  \E fill : Fills(fill, s, cut, n)
<1> DEFINE Filled == {m \in Nat : \E fill : Fills(fill, s, cut, m)}
<1>1. 0 \in Filled
  <2>1. Fills([i \in 0 .. 0 |-> NoPrompt], s, cut, 0)
    BY DEF Fills
  <2> QED
    BY <2>1
<1>2. ASSUME NEW m \in Filled
      PROVE  m + 1 \in Filled
  <2>1. PICK f : Fills(f, s, cut, m)
    OBVIOUS
  <2> DEFINE g == [i \in 0 .. m + 1 |->
                      IF i = 0 THEN NoPrompt
                      ELSE Taken(f[i - 1], i, ChunkLength[s[i]], cut)]
  <2>2. \A i \in 0 .. m : g[i] = f[i]
    <3>1. \A i \in 0 .. m : f[i] = IF i = 0 THEN NoPrompt
                                   ELSE Taken(f[i - 1], i, ChunkLength[s[i]], cut)
      BY <2>1 DEF Fills
    <3>2. \A i \in 0 .. m : i \in 0 .. m + 1
      OBVIOUS
    <3> QED
      BY <3>1, <3>2
  <2>3. \A i \in 0 .. m + 1 : i # 0 => i - 1 \in 0 .. m
    OBVIOUS
  <2>4. Fills(g, s, cut, m + 1)
    <3>1. g = [i \in 0 .. m + 1 |->
                      IF i = 0 THEN NoPrompt
                      ELSE Taken(g[i - 1], i, ChunkLength[s[i]], cut)]
      <4>1. \A i \in 0 .. m + 1 : i # 0 => g[i - 1] = f[i - 1]
        <5> HIDE DEF g
        <5> QED
          BY <2>2, <2>3
      <4> QED
        BY <4>1
    <3> QED
      BY <3>1 DEF Fills
  <2> HIDE DEF g
  <2> QED
    BY <2>4
<1> HIDE DEF Filled
<1>3. Filled \in SUBSET Nat
  BY DEF Filled
<1>4. n \in Filled
  BY <1>1, <1>2, <1>3, Upwards
<1> QED
  BY <1>4 DEF Filled

\* Whatever chunks it packs, a prompt is within the budget and not empty.
LEMMA PackedFits ==
  ASSUME NEW s \in Seq(Chunks), NEW cut
  PROVE  FitsUpTo(Packed(s, cut), Len(s))
<1> DEFINE n == Len(s)
           f == CHOOSE fill : Fills(fill, s, cut, n)
<1>1. Packed(s, cut) = f[n]
  BY DEF Packed, Fills, Taken
<1>2. n \in Nat
  OBVIOUS
<1>3. Fills(f, s, cut, n)
  BY <1>2, FillExists
<1> HIDE DEF f
<1>4. \A i \in 0 .. n : f[i] = IF i = 0 THEN NoPrompt
                               ELSE Taken(f[i - 1], i, ChunkLength[s[i]], cut)
  BY <1>3 DEF Fills
<1> DEFINE Fitting == {m \in Nat : m <= n => FitsUpTo(f[m], m)}
<1>5. 0 \in Fitting
  <2>1. f[0] = NoPrompt
    BY <1>2, <1>4
  <2> QED
    BY <2>1, BudgetAssumption DEF FitsUpTo, NoPrompt, Prompts
<1>6. ASSUME NEW m \in Fitting
      PROVE  m + 1 \in Fitting
  <2> SUFFICES ASSUME m + 1 <= n
               PROVE  FitsUpTo(f[m + 1], m + 1)
    OBVIOUS
  <2>1. m \in Nat /\ FitsUpTo(f[m], m)
    BY <1>2
  <2>2. f[m + 1] = Taken(f[m], m + 1, ChunkLength[s[m + 1]], cut)
    <3>1. m + 1 \in 0 .. n /\ m + 1 # 0 /\ (m + 1) - 1 = m
      BY <1>2, <2>1
    <3> QED
      BY <1>4, <3>1
  <2>3. ChunkLength[s[m + 1]] \in Nat
    <3>1. m + 1 \in 1 .. Len(s)
      BY <1>2, <2>1
    <3>2. s[m + 1] \in Chunks
      BY <3>1
    <3> QED
      BY <3>2, ChunkAssumption
  <2> QED
    BY <2>1, <2>2, <2>3, TakenFits
<1>7. n \in Fitting
  <2> HIDE DEF Fitting
  <2>1. Fitting \in SUBSET Nat
    BY DEF Fitting
  <2> QED
    BY <1>2, <1>5, <1>6, <2>1, Upwards
<1> QED
  BY <1>1, <1>2, <1>7

-----------------------------------------------------------------------------
(* Types and budgets.                                                      *)

\* Only the risk agent hands a prompt on: every other one is the call's last.
Bounded ==
    /\ GroundingTypeOK /\ ContextFits
    /\ pc \notin {"review", "done"} => prompt = NoPrompt

\* What is left of GroundingTypeOK when the chunks and the prompt are set apart.
PlainTypes ==
    /\ kind \in Kinds /\ caller \in Callers /\ pc \in Steps /\ outcome \in Outcomes
    /\ target \subseteq Controls /\ todo \subseteq target
    /\ cited \subseteq Chunks /\ judged \subseteq Controls /\ estimates \subseteq Chunks
    /\ calls \in 0 .. 2

DistinctChunks(s) == s \in Seq(Chunks) /\ IsInjective(s)

\* What a call of service k may have found.
FoundBy(k, s) == s \in Seq(Chunks) /\ (k = "extract" => DistinctChunks(s))

\* A prompt over the chunks s.
PromptOver(p, s) ==
    p \in [blocks : 0 .. Len(s), length : Nat] /\ p.length <= MaxContext

LEMMA BoundedParts ==
  Bounded <=> /\ PlainTypes /\ FoundBy(kind, found) /\ PromptOver(prompt, found)
              /\ pc \notin {"review", "done"} => prompt = NoPrompt
BY DEF Bounded, GroundingTypeOK, ContextFits, PlainTypes, FoundBy, DistinctChunks, PromptOver

\* The prompts the services build, and the one that is not built yet.
LEMMA PromptsBuilt ==
  ASSUME NEW s \in Seq(Chunks)
  PROVE  /\ PromptOver(NoPrompt, s)
         /\ \A cut : PromptOver(Packed(s, cut), s)
<1>1. PromptOver(NoPrompt, s)
  BY BudgetAssumption DEF PromptOver, NoPrompt
<1>2. ASSUME NEW cut
      PROVE  PromptOver(Packed(s, cut), s)
  <2> DEFINE p == Packed(s, cut)
  <2>1. FitsUpTo(p, Len(s))
    BY PackedFits
  <2> HIDE DEF p
  <2>2. p \in [blocks : Nat, length : Nat] /\ p.blocks <= Len(s) /\ p.length <= MaxContext
    BY <2>1 DEF FitsUpTo, Prompts
  <2>3. p \in [blocks : 0 .. Len(s), length : Nat]
    BY <2>2
  <2>4. PromptOver(p, s)
    BY <2>2, <2>3 DEF PromptOver
  <2> QED
    BY <2>4 DEF p
<1> QED
  BY <1>1, <1>2

\* Two searches find distinct chunks when the second keeps only what the first
\* did not find, once.
LEMMA TogetherDistinct ==
  ASSUME NEW s, NEW t, DistinctChunks(s), DistinctChunks(t), Range(t) \cap Range(s) = {}
  PROVE  DistinctChunks(s \o t)
<1>1. s \in Seq(Chunks) /\ t \in Seq(Chunks) /\ s \o t \in Seq(Chunks)
  BY DEF DistinctChunks
<1>2. ASSUME NEW i \in 1 .. Len(s \o t), NEW j \in 1 .. Len(s \o t), (s \o t)[i] = (s \o t)[j]
      PROVE  i = j
  <2>1. \A k \in 1 .. Len(s) : (s \o t)[k] = s[k] /\ s[k] \in Range(s)
    BY <1>1 DEF Range
  <2>2. \A k \in 1 .. Len(s \o t) :
             k > Len(s) => /\ (s \o t)[k] = t[k - Len(s)] /\ k - Len(s) \in 1 .. Len(t)
                           /\ t[k - Len(s)] \in Range(t)
    BY <1>1 DEF Range
  <2>3. \A k, l \in 1 .. Len(s) : s[k] = s[l] => k = l
    BY <1>1 DEF DistinctChunks, IsInjective
  <2>4. \A k, l \in 1 .. Len(t) : t[k] = t[l] => k = l
    BY <1>1 DEF DistinctChunks, IsInjective
  <2>5. CASE i <= Len(s) /\ j <= Len(s)
    BY <1>1, <1>2, <2>1, <2>3, <2>5
  <2>6. CASE i > Len(s) /\ j > Len(s)
    <3>1. i - Len(s) = j - Len(s)
      BY <1>2, <2>2, <2>4, <2>6
    <3> QED
      BY <1>1, <3>1
  <2>7. CASE i <= Len(s) /\ j > Len(s)
    BY <1>1, <1>2, <2>1, <2>2, <2>7
  <2>8. CASE i > Len(s) /\ j <= Len(s)
    BY <1>1, <1>2, <2>1, <2>2, <2>8
  <2> QED
    BY <1>1, <2>5, <2>6, <2>7, <2>8
<1> QED
  BY <1>1, <1>2 DEF DistinctChunks, IsInjective

LEMMA NothingFound == DistinctChunks(<<>>) /\ PromptOver(NoPrompt, <<>>)
<1>1. <<>> \in Seq(Chunks) /\ DOMAIN <<>> = {}
  OBVIOUS
<1>2. DistinctChunks(<<>>)
  BY <1>1 DEF DistinctChunks, IsInjective
<1>3. PromptOver(NoPrompt, <<>>)
  BY <1>1, PromptsBuilt
<1> QED
  BY <1>2, <1>3

LEMMA StartBounded ==
  ASSUME Inv, Bounded, NEW p \in Callers, Start(p)
  PROVE  Bounded'
<1>1. pc = "idle" /\ caller' = p /\ UNCHANGED <<found, prompt, cited, judged, estimates, calls>>
  BY DEF Start, StartSearch, StartAnswer, StartExtract, StartAnalyze, StartWorkflow,
         StartDeployed, Refused, Begin, BeginEnded
<1>2. kind' \in Kinds /\ pc' \in Steps
  BY DEF Start, StartSearch, StartAnswer, StartExtract, StartAnalyze, StartWorkflow,
         StartDeployed, Refused, Begin, BeginEnded, Kinds, Steps
<1>3. outcome' \in {outcome, "refused", "missing", "invalid", "ok"}
  BY DEF Start, StartSearch, StartAnswer, StartExtract, StartAnalyze, StartWorkflow,
         StartDeployed, Refused, Begin, BeginEnded
<1>4. UNCHANGED <<target, todo>> \/ (target' \subseteq Controls /\ todo' = target')
  BY DEF Start, StartSearch, StartAnswer, StartExtract, StartAnalyze, StartWorkflow,
         StartDeployed, Refused, Begin, BeginEnded
<1>5. PlainTypes'
  BY <1>1, <1>2, <1>3, <1>4, BoundedParts DEF PlainTypes, Outcomes
<1>6. prompt = NoPrompt /\ found' = <<>>
  BY <1>1, BoundedParts DEF Inv, ClaimsInOrder
<1>7. FoundBy(kind', found')
  BY <1>6, NothingFound DEF FoundBy, DistinctChunks
<1>8. PromptOver(prompt', found')
  BY <1>1, <1>6, NothingFound
<1> QED
  BY <1>1, <1>5, <1>6, <1>7, <1>8 DEF Bounded, GroundingTypeOK, ContextFits, PlainTypes,
                           FoundBy, DistinctChunks, PromptOver

\* A failure, a policy read and a plan leave chunks and prompt alone.
LEMMA QuietBounded ==
  ASSUME Bounded, Fails \/ GetPolicy \/ PlanAnalysis \/ PlanResearch
  PROVE  Bounded'
<1>1. UNCHANGED <<kind, caller, target, todo, found, prompt, cited, judged, estimates>>
  BY DEF Fails, SearchFails, AnswerFails, ExtractionFails, ControlsOverBudget, AnalysisFails, ResearchFails,
         RiskFails, ReviewFails, ModelFails, ReplyBlocked, EndsAt, GetPolicy, PlanAnalysis,
         PlanResearch, PlansSearch
<1>2. \/ pc' = "done" /\ outcome' \in {"upstream", "blocked", "refused", "missing", "invalid"}
      \/ pc \in {"policy", "plan"} /\ pc' \in {"plan", "search"} /\ UNCHANGED outcome
  BY DEF Fails, SearchFails, AnswerFails, ExtractionFails, ControlsOverBudget, AnalysisFails, ResearchFails,
         RiskFails, ReviewFails, ModelFails, ReplyBlocked, EndsAt, GetPolicy, PlanAnalysis,
         PlanResearch, PlansSearch, Goto, Finish
<1>3. calls' = calls \/ (calls < Budget /\ calls' = calls + 1)
  BY DEF Fails, SearchFails, AnswerFails, ExtractionFails, ControlsOverBudget, AnalysisFails, ResearchFails,
         RiskFails, ReviewFails, ModelFails, ReplyBlocked, EndsAt, GetPolicy, PlanAnalysis,
         PlanResearch, PlansSearch
<1>4. calls' \in 0 .. 2
  BY <1>3, BoundedParts DEF PlainTypes, Budget
<1>5. PlainTypes'
  BY <1>1, <1>2, <1>4, BoundedParts DEF PlainTypes, Outcomes, Steps
<1>6. pc' \notin {"review", "done"} => prompt' = NoPrompt
  BY <1>1, <1>2, BoundedParts
<1> QED
  BY <1>1, <1>5, <1>6 DEF Bounded, GroundingTypeOK, ContextFits, PlainTypes

\* A search starts from no prompt, and adds only chunks that are new.
LEMMA SearchBounded ==
  ASSUME Bounded, Search
  PROVE  Bounded'
<1>1. /\ pc = "search" /\ prompt' = NoPrompt
      /\ UNCHANGED <<kind, caller, target, prompt, cited, judged, estimates>>
  BY BoundedParts DEF Search, SearchDirectly, SearchForControl, SearchByTool
<1>2. \/ pc' = "done" /\ outcome' \in {"ok", "invalid", "refused"}
      \/ pc' \in {"search", "generate", "risk"} /\ UNCHANGED outcome
  BY DEF Search, SearchDirectly, SearchForControl, SearchByTool, AfterSearch, Goto, Finish
<1>3. calls' = calls \/ (~ (calls >= Budget) /\ calls' = calls + 1)
  BY DEF Search, SearchDirectly, SearchForControl, SearchByTool
<1>4. calls' \in 0 .. 2
  BY <1>3, BoundedParts DEF PlainTypes, Budget
<1>5. todo' \subseteq todo
  BY DEF Search, SearchDirectly, SearchForControl, SearchByTool
<1>6. PlainTypes'
  BY <1>1, <1>2, <1>4, <1>5, BoundedParts DEF PlainTypes, Outcomes, Steps
<1>7. FoundBy(kind', found')
  <2>1. FoundBy(kind, found)
    BY BoundedParts
  <2>2. CASE UNCHANGED found
    BY <1>1, <2>1, <2>2
  <2>3. CASE kind # "extract" /\ \E s \in Matches(caller) : found' = s
    BY <1>1, <2>3, MatchesVisible DEF FoundBy
  <2>4. CASE kind = "extract" /\ \E s \in Matches(caller) : Adds(s) /\ found' = found \o s
    <3>1. PICK s \in Matches(caller) : Adds(s) /\ found' = found \o s
      BY <2>4
    <3>2. DistinctChunks(found) /\ DistinctChunks(s)
      BY <2>1, <2>4, <3>1, MatchesVisible DEF FoundBy, DistinctChunks, Adds
    <3>3. DistinctChunks(found')
      BY <3>1, <3>2, TogetherDistinct DEF Adds
    <3> QED
      BY <3>3 DEF FoundBy, DistinctChunks
  <2> QED
    BY <2>2, <2>3, <2>4 DEF Search, SearchDirectly, SearchForControl, SearchByTool,
                            UsesRegistry, Agents
<1>8. PromptOver(NoPrompt, found')
  BY <1>7, PromptsBuilt DEF FoundBy
<1> QED
  BY <1>1, <1>6, <1>7, <1>8 DEF Bounded, GroundingTypeOK, ContextFits, PlainTypes,
                                 FoundBy, DistinctChunks, PromptOver

\* A prompt is packed from the chunks that were found.
LEMMA ModelBounded ==
  ASSUME Inv, Bounded, Answer \/ Extract \/ Analyze \/ Risk \/ RiskTask \/ Review \/ ReviewTask,
         Inv'
  PROVE  Bounded'
<1>1. UNCHANGED <<kind, caller, target, todo, found, calls>>
  BY DEF Answer, Extract, Analyze, Propose, Risk, RiskTask, Assess, Review, ReviewTask, Decide
<1>2. \/ pc' = "done" /\ outcome' \in Outcomes
      \/ pc' = "review" /\ UNCHANGED outcome
  BY DEF Answer, Extract, Analyze, Propose, Risk, RiskTask, Assess, Review, ReviewTask, Decide,
         Goto, Finish, Outcomes
<1>3. prompt' = prompt \/ \E cut : prompt' = Packed(found, cut)
  <2>1. prompt' \in {prompt, Packed(found, FALSE), Packed(found, TRUE)}
    BY DEF Answer, Extract, Analyze, Propose, Risk, RiskTask, Assess, Review, ReviewTask, Decide,
           AnswerPrompt, ExtractionPrompt, AnalysisPrompt, RiskPrompt, ReviewPrompt
  <2> QED
    BY <2>1
<1>4. FoundBy(kind', found') /\ PromptOver(prompt', found')
  <2>1. FoundBy(kind, found) /\ found \in Seq(Chunks)
    BY BoundedParts DEF FoundBy
  <2>2. PromptOver(prompt', found)
    BY <1>3, <2>1, PromptsBuilt, BoundedParts
  <2> QED
    BY <1>1, <2>1, <2>2
<1>5. cited' \subseteq Chunks /\ estimates' \subseteq Chunks /\ judged' \subseteq target'
  <2>1. CitationsAreShown' /\ found' \in Seq(Chunks)
    BY DEF Inv
  <2>2. ShownBy(found', prompt') \subseteq Chunks
    <3>1. prompt'.blocks \in 0 .. Len(found')
      BY <1>4 DEF PromptOver
    <3> QED
      BY <2>1, <3>1 DEF ShownBy
  <2>3. (cited \cup estimates)' \subseteq ShownBy(found', prompt') /\ judged' \subseteq target'
    BY <2>1 DEF CitationsAreShown, ShownBy
  <2> QED
    BY <2>2, <2>3
<1>6. PlainTypes'
  BY <1>1, <1>2, <1>5, BoundedParts DEF PlainTypes, Steps
<1> QED
  BY <1>2, <1>4, <1>6 DEF Bounded, GroundingTypeOK, ContextFits, PlainTypes,
                           FoundBy, DistinctChunks, PromptOver

LEMMA ReturnBounded ==
  ASSUME Bounded, Return
  PROVE  Bounded'
<1>1. /\ pc' = "idle" /\ target' = {} /\ todo' = {} /\ found' = <<>> /\ prompt' = NoPrompt
      /\ cited' = {} /\ judged' = {} /\ estimates' = {} /\ calls' = 0 /\ outcome' = "none"
      /\ UNCHANGED <<kind, caller>>
  BY DEF Return
<1>2. PlainTypes'
  BY <1>1, BoundedParts DEF PlainTypes, Steps, Outcomes
<1>3. DistinctChunks(<<>>) /\ PromptOver(NoPrompt, <<>>)
  BY NothingFound
<1> QED
  BY <1>1, <1>2, <1>3 DEF Bounded, GroundingTypeOK, ContextFits, PlainTypes,
                           FoundBy, DistinctChunks, PromptOver

LEMMA InitBounded == Init => Bounded
<1> SUFFICES ASSUME Init PROVE Bounded
  OBVIOUS
<1>1. PlainTypes /\ found = <<>> /\ prompt = NoPrompt
  BY DEF Init, PlainTypes, Kinds, Steps, Outcomes
<1>2. DistinctChunks(<<>>) /\ PromptOver(NoPrompt, <<>>)
  BY NothingFound
<1> QED
  BY <1>1, <1>2, BoundedParts DEF FoundBy, DistinctChunks

LEMMA StepBounded == Inv /\ Bounded /\ [Next]_vars => Bounded'
<1> SUFFICES ASSUME Inv, Bounded, [Next]_vars PROVE Bounded'
  OBVIOUS
<1>1. CASE \E p \in Callers : Start(p)
  BY <1>1, StartBounded
<1>2. CASE Advance
  <2>1. CASE GetPolicy \/ PlanAnalysis \/ PlanResearch
    BY <2>1, QuietBounded
  <2>2. CASE Search
    BY <2>2, SearchBounded
  <2>3. CASE Answer \/ Extract \/ Analyze \/ Risk \/ RiskTask \/ Review \/ ReviewTask
    BY <2>3, StepInv, ModelBounded
  <2> QED
    BY <1>2, <2>1, <2>2, <2>3 DEF Advance
<1>3. CASE Fails
  BY <1>3, QuietBounded
<1>4. CASE Return
  BY <1>4, ReturnBounded
<1>5. CASE UNCHANGED vars
  BY <1>5 DEF vars, Bounded, GroundingTypeOK, ContextFits
<1> QED
  BY <1>1, <1>2, <1>3, <1>4, <1>5 DEF Next

-----------------------------------------------------------------------------
(* Permissions and passes.                                                 *)

\* A workflow in process begins with both permissions; a deployed one has the
\* first by the time its search has answered. Nothing has passed before the end.
Granted ==
    /\ PassIsGrounded
    /\ pc # "done" => outcome = "none"
    /\ kind = "workflow" /\ pc \notin {"idle", "done"} =>
           Holds(caller, {"document:read", "ai:query"})
    /\ kind \in Agents /\ pc \in {"risk", "review"} =>
           "document:read" \in Permissions(caller.role)

LEMMA StartGranted ==
  ASSUME Granted, NEW p \in Callers, Start(p)
  PROVE  Granted'
<1>1. pc = "idle" /\ outcome = "none" /\ caller' = p
  BY DEF Start, StartSearch, StartAnswer, StartExtract, StartAnalyze, StartWorkflow,
         StartDeployed, Refused, Begin, BeginEnded, Granted
<1>2. \/ pc' = "done" /\ outcome' \in {"refused", "missing", "invalid", "ok"}
      \/ /\ pc' \in {"search", "policy", "plan"} /\ UNCHANGED outcome
         /\ kind' = "workflow" => Holds(p, {"document:read", "ai:query"})
  BY DEF Start, StartSearch, StartAnswer, StartExtract, StartAnalyze, StartWorkflow,
         StartDeployed, Refused, Begin, BeginEnded
<1> QED
  BY <1>1, <1>2 DEF Granted, PassIsGrounded

\* Until the risk agent, no step but a search changes what is granted.
LEMMA EarlyGranted ==
  ASSUME Granted,
         \/ Fails \/ GetPolicy \/ PlanAnalysis \/ PlanResearch
         \/ Answer \/ Extract \/ Analyze
  PROVE  Granted'
<1>1. UNCHANGED <<kind, caller>>
  BY DEF Fails, SearchFails, AnswerFails, ExtractionFails, ControlsOverBudget, AnalysisFails, ResearchFails,
         RiskFails, ReviewFails, ModelFails, ReplyBlocked, EndsAt, GetPolicy, PlanAnalysis,
         PlanResearch, PlansSearch, Answer, Extract, Analyze, Propose
<1>2. \/ pc' = "done" /\ outcome' \in {"ok", "upstream", "blocked", "refused", "missing", "invalid"}
      \/ pc \in {"policy", "plan"} /\ pc' \in {"plan", "search"} /\ UNCHANGED outcome
  BY DEF Fails, SearchFails, AnswerFails, ExtractionFails, ControlsOverBudget, AnalysisFails, ResearchFails,
         RiskFails, ReviewFails, ModelFails, ReplyBlocked, EndsAt, GetPolicy, PlanAnalysis,
         PlanResearch, PlansSearch, Answer, Extract, Analyze, Propose, Goto, Finish
<1> QED
  BY <1>1, <1>2 DEF Granted, PassIsGrounded

\* The tool asks for the permission before it searches.
LEMMA SearchGranted ==
  ASSUME Granted, Search
  PROVE  Granted'
<1>1. pc = "search" /\ outcome = "none" /\ UNCHANGED <<kind, caller>>
  BY DEF Search, SearchDirectly, SearchForControl, SearchByTool, Granted
<1>2. \/ pc' = "done" /\ outcome' \in {"ok", "invalid", "refused"}
      \/ pc' \in {"search", "generate", "risk"} /\ UNCHANGED outcome
  BY DEF Search, SearchDirectly, SearchForControl, SearchByTool, AfterSearch, Goto, Finish
<1>3. kind \in Agents /\ pc' = "risk" => "document:read" \in Permissions(caller.role)
  <2>1. SearchByTool /\ pc' = "risk" => Holds(caller, {"document:read"})
    BY DEF SearchByTool, Finish
  <2>2. kind \in Agents => ~ (SearchDirectly \/ SearchForControl)
    BY DEF Agents, SearchDirectly, SearchForControl
  <2> QED
    BY <2>1, <2>2 DEF Search, Holds
<1> QED
  BY <1>1, <1>2, <1>3 DEF Granted, PassIsGrounded

LEMMA RiskGranted ==
  ASSUME Granted, Risk \/ RiskTask
  PROVE  Granted'
<1>1. pc = "risk" /\ outcome = "none" /\ UNCHANGED <<kind, caller>>
  BY DEF Risk, RiskTask, Assess, Granted
<1>2. \/ pc' = "done" /\ outcome' \in {"invalid", "upstream"}
      \/ pc' = "review" /\ UNCHANGED outcome
  BY DEF Risk, RiskTask, Assess, Goto, Finish
<1> QED
  BY <1>1, <1>2 DEF Granted, PassIsGrounded

\* A review passes what was found by a permitted search and was not empty.
LEMMA ReviewGranted ==
  ASSUME Inv, Granted, Review \/ ReviewTask
  PROVE  Granted'
<1>1. /\ pc = "review" /\ kind \in Agents /\ Decide
      /\ UNCHANGED <<kind, caller, found, estimates>>
      /\ prompt' = ReviewPrompt(found) /\ pc' = "done"
  BY DEF Review, ReviewTask, Decide, Agents, Finish
<1>2. ASSUME outcome' = "pass"
      PROVE  ShownBy(found', prompt') # {} /\ estimates' \subseteq ShownBy(found', prompt')
  <2>1. found # <<>> /\ estimates \subseteq ShownBy(found, prompt')
    BY <1>1, <1>2 DEF Decide, NoEvidence, Excluded, Finish
  <2>2. Len(found) > 0
    BY <2>1 DEF Inv
  <2>3. FitsUpTo(prompt', Len(found))
    BY <1>1, PackedFits DEF Inv, ReviewPrompt
  <2>4. prompt'.blocks \in Nat /\ prompt'.blocks > 0
    BY <2>2, <2>3 DEF FitsUpTo, Prompts, Inv
  <2>5. found[1] \in ShownBy(found, prompt')
    BY <2>4 DEF ShownBy
  <2> QED
    BY <1>1, <2>1, <2>5
<1>3. /\ "document:read" \in Permissions(caller.role)
      /\ kind = "workflow" => "ai:query" \in Permissions(caller.role)
  BY <1>1 DEF Granted, Holds
<1>4. PassIsGrounded'
  BY <1>1, <1>2, <1>3 DEF PassIsGrounded, ShownBy
<1> QED
  BY <1>1, <1>4 DEF Granted

LEMMA ReturnGranted ==
  ASSUME Return
  PROVE  Granted'
BY DEF Return, Granted, PassIsGrounded

LEMMA InitGranted == Init => Granted
BY DEF Init, Granted, PassIsGrounded

LEMMA StepGranted == Inv /\ Granted /\ [Next]_vars => Granted'
<1> SUFFICES ASSUME Inv, Granted, [Next]_vars PROVE Granted'
  OBVIOUS
<1>1. CASE \E p \in Callers : Start(p)
  BY <1>1, StartGranted
<1>2. CASE Advance
  <2>1. CASE GetPolicy \/ PlanAnalysis \/ PlanResearch \/ Answer \/ Extract \/ Analyze
    BY <2>1, EarlyGranted
  <2>2. CASE Search
    BY <2>2, SearchGranted
  <2>3. CASE Risk \/ RiskTask
    BY <2>3, RiskGranted
  <2>4. CASE Review \/ ReviewTask
    BY <2>4, ReviewGranted
  <2> QED
    BY <1>2, <2>1, <2>2, <2>3, <2>4 DEF Advance
<1>3. CASE Fails
  BY <1>3, EarlyGranted
<1>4. CASE Return
  BY <1>4, ReturnGranted
<1>5. CASE UNCHANGED vars
  BY <1>5 DEF vars, Granted, PassIsGrounded, ShownBy
<1> QED
  BY <1>1, <1>2, <1>3, <1>4, <1>5 DEF Next

-----------------------------------------------------------------------------
(* The theorems.                                                           *)

\* A service works only on chunks of the caller's organization within the
\* caller's clearance, whatever the index answers.
THEOREM EvidenceStaysVisible == Spec => []EvidenceIsVisible
<1>1. Inv => EvidenceIsVisible
  BY DEF Inv
<1> QED
  BY <1>1, InitInv, StepInv, PTL DEF Spec

\* Whatever is returned as cited, estimated or judged was shown to the model or
\* asked of it.
THEOREM ClaimsAreGrounded == Spec => []CitationsAreShown
<1>1. Inv => CitationsAreShown
  BY DEF Inv
<1> QED
  BY <1>1, InitInv, StepInv, PTL DEF Spec

\* The reviewer never rejects an estimate of the risk agent for want of its
\* chunk.
THEOREM ReviewerSeesTheEstimates == Spec => []EstimatesReachReview
<1>1. Inv => EstimatesReachReview
  BY DEF Inv
<1> QED
  BY <1>1, InitInv, StepInv, PTL DEF Spec

\* Types: what an extraction finds is distinct, what is shown no more than there is.
THEOREM GroundingTypes == Spec => []GroundingTypeOK
<1>1. Bounded => GroundingTypeOK
  BY DEF Bounded
<1> QED
  BY <1>1, InitInv, StepInv, InitBounded, StepBounded, PTL DEF Spec

\* No prompt outgrows max_context_chars, whatever chunks are packed into it.
THEOREM PromptsFit == Spec => []ContextFits
<1>1. Bounded => ContextFits
  BY DEF Bounded
<1> QED
  BY <1>1, InitInv, StepInv, InitBounded, StepBounded, PTL DEF Spec

\* A review that passes has evidence the reviewer saw, every estimate among it,
\* and a caller who may read documents behind it.
THEOREM PassesAreGrounded == Spec => []PassIsGrounded
<1>1. Granted => PassIsGrounded
  BY DEF Granted
<1> QED
  BY <1>1, InitInv, StepInv, InitGranted, StepGranted, PTL DEF Spec

=============================================================================
