------------------------------ MODULE Grounding ------------------------------
(* What the model services may claim. A caller asks a question, searches,     *)
(* proposes compliance findings, lets the compliance agent analyze, or runs   *)
(* the research, risk and reviewer agents (in process, or as the tasks of the *)
(* deployed workflow). Each service retrieves chunks, packs a prefix of them  *)
(* into a bounded prompt, and checks what the model claims against it.        *)
(*                                                                            *)
(* One call at a time: the services keep no state between calls. The model,   *)
(* the embeddings and the index are outside the system and may return         *)
(* anything, or fail.                                                         *)
EXTENDS Authorization, Functions, FiniteSets

CONSTANTS Callers,       \* verified principals: [org, role]
          Chunks,        \* indexed chunks
          ChunkOrg,      \* [Chunks -> the organization]
          ChunkLevel,    \* [Chunks -> the confidentiality of its document]
          ChunkLength,   \* [Chunks -> characters]
          Controls,      \* controls of the framework
          Invented,      \* a control that is not the framework's
          Header,        \* characters of the line that names a chunk
          Separator,     \* characters between two blocks
          MaxContext,    \* max_context_chars
          TopK,          \* results asked of a search
          MaxIndex,      \* items the index may answer: a bound of the check
          MaxTrusted,    \* chunks the risk agent and the reviewer take
          MaxControls,   \* controls of one extraction or policy read
          MaxEvidence,   \* sources kept of a finding
          MaxFindings,   \* findings accepted of a reply
          MaxReply       \* findings the model may send: a bound of the check

ASSUME CallersAssumption == \A p \in Callers : p.role \in Roles
ASSUME ChunkAssumption == ChunkLength \in [Chunks -> Nat]
ASSUME InventedAssumption == Invented \notin Controls
\* The services are built with budgets of thousands of characters; a header has 100.
ASSUME BudgetAssumption ==
    Header \in Nat \ {0} /\ Separator \in Nat /\ MaxContext \in Nat /\ Header < MaxContext

VARIABLES kind,       \* the service called
          caller,     \* the principal that travels with the call
          pc,         \* the next step
          target,     \* controls under evaluation
          todo,       \* controls an extraction has yet to search for
          found,      \* chunks retrieved, in order
          prompt,     \* [blocks, length] of the last prompt built
          cited,      \* chunks the result cites
          judged,     \* controls the result proposes a status for
          estimates,  \* chunks the risk agent estimated
          calls,      \* tool calls of the agent's budget
          outcome

vars == <<kind, caller, pc, target, todo, found, prompt, cited, judged, estimates,
          calls, outcome>>

Kinds == {"search", "answer", "extract", "analyze", "workflow", "deployed"}
Steps == {"idle", "policy", "plan", "search", "generate", "risk", "review", "done"}
Outcomes == {"none", "ok", "refused", "missing", "invalid", "upstream", "blocked",
             "pass", "fail", "no_evidence", "untrusted", "excluded"}

NoPrompt == [blocks |-> 0, length |-> 0]

-----------------------------------------------------------------------------
(* What a search may return.                                                  *)

\* Chunks of the caller's organization, within the caller's clearance.
Visible(p) ==
    {c \in Chunks : ChunkOrg[c] = p.org /\ ChunkLevel[c] \in VisibleLevels(p.role)}

\* Rows of S in some order, as many as the LIMIT at most. A chunk is one row.
Ranked(S) == UNION {{s \in [1 .. n -> S] : IsInjective(s)} : n \in 0 .. TopK}

\* The two pgvector stores select the tenant and the clearance in SQL.
SessionMatches(p) == Ranked(Visible(p))
DataApiMatches(p) == Ranked(Visible(p))

\* What the S3 index answers: the filter and the number asked for are its
\* business, and the adapter relies on neither.
Answers == UNION {[1 .. n -> Chunks] : n \in 0 .. MaxIndex}

\* A bug for the runs' mutants: clearance is left to the index's filter.
OverClearedNever(c, p) == FALSE
OtherTenant(c, p) == ChunkOrg[c] # p.org
OverCleared(c, p) == ChunkLevel[c] \notin VisibleLevels(p.role)

\* The adapter suppresses, item by item, what is not the caller's to see. It
\* removes no repetition and cuts nothing.
Suppressed(s, p) ==
    LET kept[i \in 0 .. Len(s)] ==
            IF i = 0 THEN <<>>
            ELSE IF OtherTenant(s[i], p) \/ OverCleared(s[i], p) THEN kept[i - 1]
            ELSE Append(kept[i - 1], s[i])
    IN  kept[Len(s)]

IndexMatches(p) == {Suppressed(s, p) : s \in Answers}

Matches(p) == SessionMatches(p) \cup DataApiMatches(p) \cup IndexMatches(p)

-----------------------------------------------------------------------------
(* Packing a prompt.                                                          *)

Gap(p) == IF p.blocks = 0 THEN 0 ELSE Separator
\* A bug for the runs' mutants: the separator is not counted.
RoomWithoutGap(p) == MaxContext - p.length
Room(p) == MaxContext - p.length - Gap(p)

\* Blocks are admitted whole; only the first may be cut to the budget.
WholeFits(p, length) ==
    \/ Header + length <= Room(p)
    \/ p.blocks = 0 /\ Header <= Room(p)

\* A block is cut to the room left, as long as some is left.
CutFits(p) == Header < Room(p)

Admit(p, length) ==
    LET content == IF Header + length <= Room(p) THEN length ELSE Room(p) - Header
    IN  [blocks |-> p.blocks + 1, length |-> p.length + Gap(p) + Header + content]

\* The blocks of s are admitted in order, up to the first that does not fit.
Packed(s, cut) ==
    LET fill[i \in 0 .. Len(s)] ==
            IF i = 0 THEN NoPrompt
            ELSE LET p == fill[i - 1]
                     length == ChunkLength[s[i]]
                 IN  IF p.blocks = i - 1
                        /\ (IF cut THEN CutFits(p) ELSE WholeFits(p, length))
                     THEN Admit(p, length)
                     ELSE p
    IN  fill[Len(s)]

AnswerPrompt(s) == Packed(s, FALSE)
ExtractionPrompt(s) == Packed(s, FALSE)
AnalysisPrompt(s) == Packed(s, TRUE)
RiskPrompt(s) == Packed(s, TRUE)
\* A mutant: the reviewer drops a block it cannot show whole.
ReviewPromptWhole(s) == Packed(s, FALSE)
ReviewPrompt(s) == Packed(s, TRUE)

\* The chunks a prompt over s shows, and the labels S1, S2, ... they carry.
ShownBy(s, p) == {s[i] : i \in 1 .. p.blocks}

-----------------------------------------------------------------------------
(* A call starts.                                                             *)

Init ==
    /\ kind = "search" /\ caller \in Callers /\ pc = "idle"
    /\ target = {} /\ todo = {} /\ found = <<>> /\ prompt = NoPrompt
    /\ cited = {} /\ judged = {} /\ estimates = {} /\ calls = 0 /\ outcome = "none"

Holds(p, permissions) == permissions \subseteq Permissions(p.role)

\* A call by p of service k begins at a step, over the controls cs.
Begin(k, p, cs, first) ==
    /\ pc = "idle"
    /\ kind' = k /\ caller' = p
    /\ pc' = first /\ target' = cs /\ todo' = cs
    /\ UNCHANGED <<found, prompt, cited, judged, estimates, calls, outcome>>

\* The call ends as it begins: refused, or with nothing to do.
BeginEnded(k, p, result) ==
    /\ pc = "idle"
    /\ kind' = k /\ caller' = p /\ pc' = "done" /\ outcome' = result
    /\ UNCHANGED <<target, todo, found, prompt, cited, judged, estimates, calls>>

Refused(k, p) == BeginEnded(k, p, "refused")

\* RetrievalService.search behind its route.
StartSearch(p) ==
    IF Holds(p, {"document:read"}) THEN Begin("search", p, {}, "search")
    ELSE Refused("search", p)

\* RAGService.generate_answer behind its route.
StartAnswer(p) ==
    IF Holds(p, {"document:read", "ai:query"}) THEN Begin("answer", p, {}, "search")
    ELSE Refused("answer", p)

\* extract_candidates up to its first search. An assessment of another
\* organization is not found; a control of another framework is an error, and so
\* is a hint that is too long.
StartExtract(p) ==
    IF Holds(p, {"compliance:create"})
    THEN \/ \E result \in {"missing", "invalid"} : BeginEnded("extract", p, result)
         \/ \E cs \in SUBSET Controls :
                IF Cardinality(cs) > MaxControls THEN BeginEnded("extract", p, "invalid")
                ELSE IF cs = {} THEN BeginEnded("extract", p, "ok")
                ELSE Begin("extract", p, cs, "search")
    ELSE Refused("extract", p)

\* ComplianceAgent.analyze, whose first tool call reads the policy.
StartAnalyze(p) ==
    \E cs \in SUBSET Controls : Begin("analyze", p, cs, "policy")

\* AgentWorkflow.run, past its permission checks.
StartWorkflow(p) ==
    IF Holds(p, {"document:read", "ai:query"}) THEN Begin("workflow", p, {}, "plan")
    ELSE Refused("workflow", p)

\* The Research task of the deployed workflow, with the principal of its input.
StartDeployed(p) == Begin("deployed", p, {}, "plan")

Start(p) ==
    \/ StartSearch(p) \/ StartAnswer(p) \/ StartExtract(p)
    \/ StartAnalyze(p) \/ StartWorkflow(p) \/ StartDeployed(p)

-----------------------------------------------------------------------------
(* Its steps.                                                                 *)

Goto(step) == pc' = step /\ UNCHANGED outcome
Finish(result) == pc' = "done" /\ outcome' = result

\* The call ends in an upstream error, and claims nothing more.
EndsAt(service, step, error) ==
    /\ kind \in service /\ pc = step
    /\ Finish(error)
    /\ UNCHANGED <<kind, caller, target, todo, found, prompt, cited, judged,
                   estimates, calls>>

\* The model fails, or its response is malformed or over the budgets.
ModelFails(service, step) == EndsAt(service, step, "upstream")
\* The guardrail or the service's own controls block the model's reply.
ReplyBlocked(service, step) == EndsAt(service, step, "blocked")

Agents == {"workflow", "deployed"}

\* The embeddings or the index fail, or the embedding is not one vector.
SearchFails == EndsAt(Kinds, "search", "upstream")
\* An answer does not say whether it was blocked; a reply that does not parse is
\* a failure as well.
AnswerFails == ModelFails({"answer"}, "generate")
\* The controls' identities alone exceed what the prompt has for controls.
ControlsOverBudget == EndsAt({"extract"}, "generate", "invalid")
ExtractionFails ==
    \/ ControlsOverBudget
    \/ ModelFails({"extract"}, "generate") \/ ReplyBlocked({"extract"}, "generate")
AnalysisFails ==
    \E step \in {"plan", "generate"} :
        ModelFails({"analyze"}, step) \/ ReplyBlocked({"analyze"}, step)
ResearchFails == ModelFails(Agents, "plan") \/ ReplyBlocked(Agents, "plan")
RiskFails == ModelFails(Agents, "risk") \/ ReplyBlocked(Agents, "risk")
ReviewFails == ModelFails(Agents, "review") \/ ReplyBlocked(Agents, "review")

Fails ==
    \/ SearchFails \/ AnswerFails \/ ExtractionFails \/ AnalysisFails
    \/ ResearchFails \/ RiskFails \/ ReviewFails

\* The budget of the agent is debited before the tool is authorized.
Budget == IF kind = "analyze" THEN 2 ELSE 1
UsesRegistry == kind \in {"analyze"} \cup Agents

\* The agent's get_policy call.
GetPolicy ==
    /\ pc = "policy"
    /\ calls < Budget
    /\ calls' = calls + 1
    /\ IF ~Holds(caller, {"compliance:create"}) THEN Finish("refused")
       ELSE \/ Finish("missing")
            \/ IF Cardinality(target) > MaxControls THEN Finish("invalid")
               ELSE Goto("plan")
    /\ UNCHANGED <<kind, caller, target, todo, found, prompt, cited, judged, estimates>>

\* The model plans one search_documents call; any other intent is an error.
PlansSearch(service) ==
    /\ kind \in service /\ pc = "plan"
    /\ Goto("search")
    /\ UNCHANGED <<kind, caller, target, todo, found, prompt, cited, judged,
                   estimates, calls>>

PlanAnalysis == PlansSearch({"analyze"})
PlanResearch == PlansSearch(Agents)

\* A mutant: what an earlier search found is kept again.
AddsAgain(s) == TRUE
\* s is what one more search adds: chunks not found before, each once.
Adds(s) == IsInjective(s) /\ Range(s) \cap Range(found) = {}

\* The step after the last search.
AfterSearch(s) ==
    IF kind = "search" THEN Finish("ok")
    ELSE IF kind \in Agents THEN Goto("risk")
    ELSE IF s = <<>> THEN Finish("ok")
    ELSE Goto("generate")

\* One search by the service itself.
SearchDirectly ==
    /\ kind \in {"search", "answer"} /\ pc = "search"
    /\ \E s \in Matches(caller) : found' = s /\ AfterSearch(s)
    /\ UNCHANGED <<kind, caller, target, todo, prompt, cited, judged, estimates, calls>>

\* One search per control; a chunk found again, in this search or an earlier one,
\* is kept once. What is left of a search's result is a result without
\* repetitions as well.
SearchForControl ==
    /\ kind = "extract" /\ pc = "search"
    /\ \E c \in todo : todo' = todo \ {c}
    /\ \E s \in Matches(caller) :
           /\ Adds(s)
           /\ found' = found \o s
           /\ IF todo' = {} THEN AfterSearch(found') ELSE Goto("search")
    /\ UNCHANGED <<kind, caller, target, prompt, cited, judged, estimates, calls>>

\* The agents' search_documents call.
SearchByTool ==
    /\ UsesRegistry /\ pc = "search"
    /\ IF calls >= Budget THEN Finish("invalid") /\ UNCHANGED <<found, calls>>
       ELSE /\ calls' = calls + 1
            /\ IF ~Holds(caller, {"document:read"}) THEN Finish("refused") /\ UNCHANGED found
               ELSE \E s \in Matches(caller) : found' = s /\ AfterSearch(s)
    /\ UNCHANGED <<kind, caller, target, todo, prompt, cited, judged, estimates>>

Search == SearchDirectly \/ SearchForControl \/ SearchByTool

\* A mutant: labels are checked against what was found, not what was shown.
CitesFound(labels, p) == labels \subseteq 1 .. Len(found)
\* Labels outside the prompt are errors.
CitesShown(labels, p) == labels \subseteq 1 .. p.blocks

\* An answer with its citations; a label that was not shown is an error.
Answer ==
    /\ kind = "answer" /\ pc = "generate"
    /\ LET p == AnswerPrompt(found)
       IN  /\ prompt' = p
           /\ \E labels \in SUBSET (1 .. Len(found) + 1) :
                  IF CitesShown(labels, p)
                  THEN cited' = {found[i] : i \in labels} /\ Finish("ok")
                  ELSE Finish("upstream") /\ UNCHANGED cited
    /\ UNCHANGED <<kind, caller, target, todo, found, judged, estimates, calls>>

\* A finding of a reply: a control and the labels it cites.
Finding == [control : Controls \cup {Invented},
            sources : UNION {[1 .. n -> 1 .. Len(found) + 1] : n \in 0 .. 2}]
Replies == UNION {[1 .. n -> Finding] : n \in 0 .. MaxReply}

\* The labels extraction looks at: it leaves a finding once MaxEvidence are kept.
Examined(f) ==
    {f.sources[j] : j \in {k \in DOMAIN f.sources :
        Cardinality({f.sources[i] : i \in 1 .. k - 1}) < MaxEvidence}}

\* The labels an analysis looks at: all.
Cited(f) == Range(f.sources)

Used(f) == IF kind = "extract" THEN Examined(f) ELSE Cited(f)

\* One finding per control under evaluation, each citing blocks shown.
Acceptable(reply, p) ==
    /\ Len(reply) <= MaxFindings
    /\ \A i, j \in DOMAIN reply : i # j => reply[i].control # reply[j].control
    /\ \A i \in DOMAIN reply :
           reply[i].control \in target /\ CitesShown(Used(reply[i]), p)

\* The model proposes findings over p: all are kept, or none.
Propose(p) ==
    /\ prompt' = p
    /\ \E reply \in Replies :
           IF Acceptable(reply, p)
           THEN /\ cited' = {found[l] : l \in UNION {Used(reply[i]) : i \in DOMAIN reply}}
                /\ judged' = {reply[i].control : i \in DOMAIN reply}
                /\ Finish("ok")
           ELSE Finish("upstream") /\ UNCHANGED <<cited, judged>>
    /\ UNCHANGED <<kind, caller, target, todo, found, estimates, calls>>

\* The findings of an extraction, and of the compliance agent.
Extract ==
    /\ kind = "extract" /\ pc = "generate"
    /\ Propose(ExtractionPrompt(found))

Analyze ==
    /\ kind = "analyze" /\ pc = "generate"
    /\ Propose(AnalysisPrompt(found))

\* The agents' requests take distinct chunks, and not too many.
Trusted(s) == IsInjective(s) /\ Len(s) <= MaxTrusted

\* RiskAgent.assess: estimates over chunks in its prompt, each at most once.
\* Without a block no model is asked.
Assess ==
    LET p == RiskPrompt(found)
    IN  /\ IF ~Trusted(found) THEN Finish("invalid") /\ UNCHANGED <<prompt, estimates>>
           ELSE /\ prompt' = p
                /\ \E chunks \in SUBSET Range(found) :
                       IF chunks \subseteq ShownBy(found, p)
                       THEN estimates' = chunks /\ Goto("review")
                       ELSE Finish("upstream") /\ UNCHANGED estimates
        /\ UNCHANGED <<kind, caller, target, todo, found, cited, judged, calls>>

\* In process, and as the Risk task of the deployed workflow.
Risk == kind = "workflow" /\ pc = "risk" /\ Assess
RiskTask == kind = "deployed" /\ pc = "risk" /\ Assess

\* A mutant: the reviewer's model is asked even about nothing.
NoEvidenceIgnored == FALSE
\* The reviewer has nothing to review.
NoEvidence == found = <<>>

\* Estimates of chunks that are not evidence, or that the prompt leaves out.
Untrusted == ~(estimates \subseteq Range(found))
Excluded(p) == ~(estimates \subseteq ShownBy(found, p))

\* ReviewerAgent.review: what its request rejects, the checks that fail a review
\* without the model, then the model's decision and the chunks its reasons name.
\* (The reviewer asks again what its request asked of the estimates.)
Decide ==
    LET p == ReviewPrompt(found)
    IN  /\ prompt' = p
        /\ IF ~Trusted(found) \/ Untrusted THEN Finish("untrusted") /\ UNCHANGED cited
           ELSE IF NoEvidence THEN Finish("no_evidence") /\ UNCHANGED cited
           ELSE IF Excluded(p) THEN Finish("excluded") /\ UNCHANGED cited
           ELSE \E chunks \in SUBSET Range(found) :
                    IF chunks \subseteq ShownBy(found, p)
                    THEN cited' = chunks /\ (Finish("pass") \/ Finish("fail"))
                    ELSE Finish("upstream") /\ UNCHANGED cited
        /\ UNCHANGED <<kind, caller, target, todo, found, judged, estimates, calls>>

\* In process, and as the Reviewer task of the deployed workflow.
Review == kind = "workflow" /\ pc = "review" /\ Decide
ReviewTask == kind = "deployed" /\ pc = "review" /\ Decide

\* The result is returned; the next call starts afresh.
Return ==
    /\ pc = "done"
    /\ pc' = "idle"
    /\ target' = {} /\ todo' = {} /\ found' = <<>> /\ prompt' = NoPrompt
    /\ cited' = {} /\ judged' = {} /\ estimates' = {} /\ calls' = 0 /\ outcome' = "none"
    /\ UNCHANGED <<kind, caller>>

Advance ==
    \/ GetPolicy \/ PlanAnalysis \/ PlanResearch \/ Search
    \/ Answer \/ Extract \/ Analyze
    \/ Risk \/ RiskTask \/ Review \/ ReviewTask
Next == (\E p \in Callers : Start(p)) \/ Advance \/ Fails \/ Return

Spec == Init /\ [][Next]_vars

-----------------------------------------------------------------------------
(* Properties.                                                                *)

\* Type correctness of a call in the services: an extraction, which searches once
\* per control, has each chunk once (trusted_chunks_by_id); no other service
\* removes repetitions.
GroundingTypeOK ==
    /\ kind \in Kinds /\ caller \in Callers /\ pc \in Steps /\ outcome \in Outcomes
    /\ target \subseteq Controls /\ todo \subseteq target
    /\ found \in Seq(Chunks) /\ (kind = "extract" => IsInjective(found))
    /\ prompt \in [blocks : 0 .. Len(found), length : Nat]
    /\ cited \subseteq Chunks /\ judged \subseteq Controls /\ estimates \subseteq Chunks
    /\ calls \in 0 .. 2

\* No prompt is longer than max_context_chars, separators and the block cut to
\* fit included (rag.py, compliance_candidate_extraction.py, compliance_agent.py,
\* risk_agent.py and reviewer_agent.py each count for themselves).
ContextFits == prompt.length <= MaxContext

\* Whatever the index answers, and however many searches a call makes, a service
\* works only on chunks of the caller's organization within the caller's
\* clearance: the S3 adapter checks every item again (s3_vector_store.py), and
\* the principal of a call stays the caller's through agents and workers.
EvidenceIsVisible == Range(found) \subseteq Visible(caller)

\* Whatever a service returns as cited, estimated or judged was in front of the
\* model: a control under evaluation, or a chunk in the last prompt built.
CitationsAreShown ==
    /\ cited \cup estimates \subseteq ShownBy(found, prompt)
    /\ judged \subseteq target

\* A workflow passes only with evidence the reviewer saw behind it, and all that
\* risk estimated among it; in process, only for a caller who may ask models.
PassIsGrounded ==
    outcome = "pass" =>
        /\ kind = "workflow" => "ai:query" \in Permissions(caller.role)
        /\ "document:read" \in Permissions(caller.role)
        /\ ShownBy(found, prompt) # {}
        /\ estimates \subseteq ShownBy(found, prompt)

\* The reviewer packs its prompt as the risk agent does, so neither its request
\* nor one of its own checks of the estimates (reviewer_agent.py) ever fails a
\* workflow.
EstimatesReachReview == outcome \notin {"untrusted", "excluded"}
==============================================================================
