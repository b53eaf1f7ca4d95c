--------------------------- MODULE CompilerStages ---------------------------
(***************************************************************************)
(* ContextCompiler.compile as the sequence of its stages, from a value     *)
(* nobody vouches for to the settled trace that is read back from storage. *)
(* A stage that finds anything wrong ends the compilation with its issues; *)
(* no stage looks at what a later one does.                                *)
(*                                                                         *)
(* Allocation runs without category constraints here and correction is any *)
(* selection that holds the required blocks and fits: BudgetAllocator and  *)
(* RenderCorrection are their own modules.                                 *)
(***************************************************************************)
EXTENDS PersistedTrace

Passive == INSTANCE PassiveData

CONSTANTS Inputs,          \* what callers pass: a request and the value it is read from
          Tokenizers,      \* answers of the tokenizer for every content
          RenderAnswers    \* answers of the tokenizer for a rendered text

RequestShape(input) ==
    /\ input.docs \in Seq(Elements(input.docs))
    /\ input.candidates \in Seq(Elements(input.candidates))
    /\ \A w \in Elements(input.candidates) : WrapperShape(w)
    /\ ScoringPolicyShape(input.policy.scoring)
    /\ FilteringPolicyShape(input.policy.filtering)
    /\ input.reference \in Int /\ input.available \in 0..MaxSafe
    /\ Len(input.candidates) <= MaxSafe

ASSUME StagesAssumption ==
    /\ MaxSafe \in Nat
    /\ \A input \in Inputs : RequestShape(input.request)
    /\ RenderAnswers \subseteq Nat \cup {Threw, Unusable}

VARIABLES
    request,     \* the compilation request
    value,       \* the graph of the value it is read from
    answers,     \* the tokenizer, for the contents of blocks
    stage,       \* the stage that runs next, or the outcome
    issues,      \* the issues of the stage that failed
    failedAt,    \* the stage they were found in
    out          \* the outputs of the stages that have run

vars == <<request, value, answers, stage, issues, failedAt, out>>

Root == 1
Nothing == [ groups |-> <<>>, scored |-> <<>>, decisions |-> <<>>, allocation |-> {},
             ordered |-> <<>>, rendered |-> {}, trace |-> {} ]

Init ==
    /\ \E input \in Inputs : request = input.request /\ value = input.value
    /\ answers \in Tokenizers
    /\ stage = "request-validation"
    /\ issues = {}
    /\ failedAt = "none"
    /\ out = Nothing

scoring    == request.policy.scoring
filtering  == request.policy.filtering

\* One stage: it fails with all it found, or hands its output on.
Run(here, found, there, output) ==
    /\ stage = here
    /\ IF found # {}
       THEN stage' = "failed" /\ issues' = found /\ failedAt' = here /\ UNCHANGED out
       ELSE stage' = there /\ out' = output /\ UNCHANGED <<issues, failedAt>>
    /\ UNCHANGED <<request, value, answers>>

-----------------------------------------------------------------------------
(* CompilationPolicyValidator: the slices are parsed each on its own, then  *)
(* compared.                                                                *)

PolicyIssues(policy) ==
    LET slices == { code \in {"invalid_scoring_policy", "invalid_filtering_policy"} :
                      IF code = "invalid_scoring_policy" THEN ScoringPolicyIssues(policy.scoring) # {}
                      ELSE FilteringPolicyIssues(policy.filtering) # {} }
    IN  IF slices # {} THEN slices
        ELSE { code \in {"incompatible_evidence_policy"} :
                 (policy.scoring.schema = 2) # (policy.filtering.schema = 3) }

ValidateRequest ==
    Run("request-validation",
        IF Passive!Refuses("snapshot", value, Root) THEN {"invalid_request"}
        ELSE PolicyIssues(request.policy),
        "candidate-validation", out)

ValidateCandidates ==
    Run("candidate-validation",
        { i.code : i \in ValidationIssues(request.scope, request.docs, answers, request.candidates) },
        IF scoring.schema = 2 THEN "evidence-validation" ELSE "deduplication", out)

ValidateEvidence ==
    Run("evidence-validation",
        EvidenceIssues(scoring, request.scope, Elements(request.candidates)),
        "deduplication", out)

DeduplicateBatch ==
    Run("deduplication", {}, "scoring", [out EXCEPT !.groups = Deduplicate(request.candidates)])

ScoreBatch ==
    Run("scoring", ScoreIssues(scoring, request.scope, request.reference, out.groups),
        "filtering", [out EXCEPT !.scored = Score(scoring, request.reference, out.groups)])

FilterBatch ==
    Run("filtering", FilterIssues(filtering, scoring, request.scope, out.scored),
        "allocation", [out EXCEPT !.decisions = FilterDecisions(filtering, out.scored)])

-----------------------------------------------------------------------------
(* Allocation without categories: the required blocks by identifier, then   *)
(* the others in the order of their scores, each if it still fits.          *)

IsRequired(s) == CanonicalOf(s).required
IsOptional(s) == ~ IsRequired(s)
CostOf(s)     == CanonicalOf(s).tokens

CanonicalBefore(s, t) == IdOf(s) < IdOf(t)

Claimants(eligible) ==
    Sorted(Filtered(eligible, IsRequired), CanonicalBefore) \o Filtered(eligible, IsOptional)

\* What is left of the budget when the first k claims have been decided.
Remaining(claims) ==
    LET left[k \in 0..Len(claims)] ==
            IF k = 0 THEN request.available
            ELSE LET before == left[k - 1] IN IF CostOf(claims[k]) <= before THEN before - CostOf(claims[k]) ELSE before
    IN  left

\* A claim with what is left of the budget when its turn comes.
Turns(claims) == [ k \in DOMAIN claims |-> [scored |-> claims[k], before |-> Remaining(claims)[k - 1]] ]
Fits(turn)    == CostOf(turn.scored) <= turn.before
Exceeds(turn) == ~ Fits(turn)

Take(turn) ==
    [ scored |-> turn.scored, tokens |-> CostOf(turn.scored), before |-> turn.before,
      after  |-> turn.before - CostOf(turn.scored),
      reason |-> IF IsRequired(turn.scored) THEN "INCLUDED_REQUIRED" ELSE "INCLUDED_SCORE_ORDER" ]
Leave(turn) ==
    [ scored |-> turn.scored, tokens |-> CostOf(turn.scored), reason |-> "EXCLUDED_BUDGET_EXHAUSTED" ]

Allocation(eligible) ==
    LET turns    == Turns(Claimants(eligible))
        included == Filtered(turns, Fits)
        excluded == Filtered(turns, Exceeds)
        left     == Remaining(Claimants(eligible))[Len(turns)]
    IN  [ scope |-> request.scope, docs |-> request.docs, policy |-> scoring.id,
          reference |-> request.reference, available |-> request.available,
          included |-> [ k \in DOMAIN included |-> Take(included[k]) ],
          excluded |-> [ k \in DOMAIN excluded |-> Leave(excluded[k]) ],
          selected |-> request.available - left, unallocated |-> left ]

\* #allocateRequired subtracts one block at a time: each has to fit in turn.
RequiredOverflows(eligible) ==
    \E turn \in Elements(Turns(Claimants(eligible))) : IsRequired(turn.scored) /\ Exceeds(turn)

Allocate ==
    Run("allocation",
        { code \in {"required_content_exceeds_budget"} : RequiredOverflows(Eligible(out.decisions)) },
        "ordering", [out EXCEPT !.allocation = {Allocation(Eligible(out.decisions))}])

Order ==
    Run("ordering", {}, "rendering",
        [out EXCEPT !.ordered = OrderIncluded(The(out.allocation).included)])

RenderContext(answer) ==
    Run("rendering", CountIssues(answer), "trace",
        [out EXCEPT !.rendered = {Render(out.ordered, request.available, answer)}])

-----------------------------------------------------------------------------
(* The trace of the run, its settlement, and its way back from storage.     *)

StageSet(candidates) ==
    [ scope |-> request.scope, docs |-> request.docs, policy |-> scoring.id,
      reference |-> request.reference, candidates |-> candidates ]

Evidence ==
    [ request      |-> request,
      validated    |-> StageSet(request.candidates),
      deduplicated |-> [scope |-> request.scope, docs |-> request.docs, groups |-> out.groups],
      scored       |-> StageSet(out.scored),
      filteringPolicy |-> filtering.id,
      eligible     |-> StageSet(Eligible(out.decisions)),
      decisions    |-> out.decisions,
      allocation   |-> The(out.allocation),
      ordered      |-> out.ordered,
      rendered     |-> The(out.rendered) ]

TakeSnapshot ==
    Run("trace", TraceIssues(Evidence), "correction", [out EXCEPT !.trace = {BuildTrace(Evidence)}])

\* Selections correction may settle on: what was allocated, what is left of it
\* after evictions, or one rebuilt from the eligible blocks.
Selections(rebuilt) ==
    LET pool == IF rebuilt THEN Elements(Eligible(out.decisions))
                ELSE Elements(ScoredOf(The(out.allocation).included))
    IN  { S \in SUBSET pool :
            /\ { s \in pool : IsRequired(s) } \subseteq S
            /\ MapThenSumSet(LAMBDA s : CanonicalOf(s).tokens, S) <= request.available }

Settled(S, rebuilt, tokens) ==
    LET order == IdSeq(OrderForRendering(SetToSeq(S), CanonicalOf))
    IN  SettleTrace(The(out.trace), Settlement(Evidence, The(out.trace), order, rebuilt, tokens))

KeepRendering ==
    /\ stage = "correction"
    /\ The(out.rendered).fits
    /\ Run("correction", {}, "persistence",
           [out EXCEPT !.trace = {Settled(Elements(ScoredOf(out.ordered)), FALSE,
                                          The(out.rendered).tokens)}])

Correct(S, rebuilt) ==
    /\ stage = "correction"
    /\ ~ The(out.rendered).fits
    /\ Run("correction", {}, "persistence", [out EXCEPT !.trace = {Settled(S, rebuilt, 0)}])

\* No selection renders within the budget, or the search was cut short.
GiveUp ==
    /\ stage = "correction"
    /\ ~ The(out.rendered).fits
    /\ \E code \in {"rendered_hard_constraints_exceed_budget", "correction_search_limit_exceeded"} :
          Run("correction", {code}, "failed", out)

ReadBack ==
    Run("persistence", UNION { PersistedIssues(t) : t \in out.trace }, "persisted", out)

Next ==
    \/ ValidateRequest
    \/ ValidateCandidates
    \/ ValidateEvidence
    \/ DeduplicateBatch
    \/ ScoreBatch
    \/ FilterBatch
    \/ Allocate
    \/ Order
    \/ \E answer \in RenderAnswers : RenderContext(answer)
    \/ TakeSnapshot
    \/ KeepRendering
    \/ stage = "correction" /\ \E rebuilt \in BOOLEAN : \E S \in Selections(rebuilt) : Correct(S, rebuilt)
    \/ GiveUp
    \/ ReadBack

Spec == Init /\ [][Next]_vars

-----------------------------------------------------------------------------
(* Correctness. *)

Wrappers     == Elements(request.candidates)
Batch        == Elements(out.groups)
HoldersOf(w) == { g \in Batch : w \in WrappersOf(g) }

\* Two wrappers of a batch that passed validation end up in one group exactly
\* when their texts are the same but for their line ends, whatever hash they
\* declare and wherever they come from; wrappers of one block never part.
DuplicatesMeet ==
    out.groups # <<>> =>
        \A v, w \in Wrappers :
            /\ Cardinality(HoldersOf(w)) = 1
            /\ HoldersOf(v) = HoldersOf(w) <=> Normal[v.block.content] = Normal[w.block.content]
            /\ v.block.id = w.block.id => HoldersOf(v) = HoldersOf(w)

\* A block the caller requires reaches the compiled context, through whichever
\* duplicate represents it, whatever its score, its evidence and the
\* exclusions of the policy say; nothing filtered does.
RequiredSurvives ==
    /\ out.decisions # <<>> =>
          \A d \in Elements(out.decisions) : HasRequired(d.scored) => d.decision = "eligible"
    /\ \A t \in out.trace : \A s \in t.settlement : \A d \in Elements(out.decisions) :
          /\ HasRequired(d.scored) => IdOf(d.scored) \in Elements(s.order)
          /\ d.decision = "filtered" => IdOf(d.scored) \notin Elements(s.order)

Permuted(sequence, p) == [ i \in DOMAIN sequence |-> sequence[p[i]] ]
Orders(sequence)      == Bijection(DOMAIN sequence, DOMAIN sequence)

\* The caller's order of the candidates and of the documents decides nothing:
\* not the problems that are found, not the groups, not the ranking.
OrderIndependent ==
    /\ failedAt = "candidate-validation" =>
          \A p \in Orders(request.candidates), q \in Orders(request.docs) :
              issues = { i.code : i \in ValidationIssues(request.scope, Permuted(request.docs, q),
                                           answers, Permuted(request.candidates, p)) }
    /\ stage = "filtering" =>
          \A p \in Orders(request.candidates) :
              out.scored = Score(scoring, request.reference, Deduplicate(Permuted(request.candidates, p)))

WeightOf(s) == s.weights["retrieval"] + s.weights["authoredPriority"] + s.weights["sourcePriority"]
               + s.weights["categoryPriority"] + s.weights["recency"]

\* A group earns its score once: by repeating a wrapper, or by offering more
\* blocks of the same text, nobody lifts it above its strongest evidence, and
\* no evidence counts for more than its weight.
RepetitionDoesNotScore ==
    \A s \in Elements(out.scored) :
        /\ s.total <= WeightOf(s) * Unit
        /\ s.total = Total(scoring, request.reference,
                           GroupFor(SetToSeq(WrappersOf(s.group)), GroupKey(s.group.members[1].candidate)))
        /\ \E S \in SUBSET WrappersOf(s.group) :
              /\ Cardinality(S) <= Len(Components)
              /\ \A i \in DOMAIN Components : \E w \in S :
                    Contribution(scoring, request.reference, s.group, Components[i])
                        = Contribution(scoring, request.reference,
                                       GroupFor(<<w>>, GroupKey(w)), Components[i])

\* Under an evidence policy every missing rule and every value outside its
\* window is found before duplicates are merged: scoring adds none but a total
\* that is not finite.
EarlyEvidenceCheckIsComplete ==
    scoring.schema = 2 /\ failedAt = "scoring" => issues = {"non_finite_score_result"}

\* The trace builder refuses nothing the stages produce, except sums that are
\* no exact integers, and what was settled is accepted when it is read back.
PipelineTraceAccepted ==
    /\ failedAt = "trace" =>
          /\ issues = {"invalid_trace_result"}
          /\ SumOf([ i \in DOMAIN request.candidates |-> request.candidates[i].block.tokens ]) > MaxSafe
    /\ failedAt # "persistence"
    /\ stage = "persisted" =>
          \A t \in out.trace : \A s \in t.settlement :
              /\ Len(s.decisions) = t.totals.groups
              /\ { d.block : d \in { e \in Elements(s.decisions) : e.disposition = "included" } }
                    = Elements(s.order)
              /\ \A d \in Elements(s.decisions) : d.disposition = "included" =>
                    d.position = { i \in DOMAIN s.order : s.order[i] = d.block }

\* Each reader of unvouched values refuses exactly the values that hold a loop
\* or something it does not take for data; a part that is shared is no loop.
\* What is read back as a trace could have been passed as a request, and what is
\* compared with a prepared block could have been copied.
PassiveWalkExact ==
    stage # "request-validation" =>
        /\ \A reader \in {"snapshot", "json", "clone", "canonical"} :
              Passive!Refuses(reader, value, Root) <=> ~ Passive!IsPassive(reader, value, Root)
        /\ Passive!Refuses("snapshot", value, Root) => Passive!Refuses("json", value, Root)
        /\ Passive!Refuses("clone", value, Root) => Passive!Refuses("canonical", value, Root)

=============================================================================
