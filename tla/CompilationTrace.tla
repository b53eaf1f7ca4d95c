-------------------------- MODULE CompilationTrace --------------------------
(***************************************************************************)
(* TraceBuilder.build: what it checks of the outputs of the stages, the    *)
(* snapshot it makes of them and its totals; settleCompilationTrace.       *)
(*                                                                         *)
(* The evidence is one record: request, validated, deduplicated, scored,   *)
(* eligible, decisions, allocation, ordered, rendered.                     *)
(***************************************************************************)
EXTENDS FilteringAndRendering

CONSTANT MaxSafe     \* Number.MAX_SAFE_INTEGER

IdOf(s)        == s.group.canonical.id
IdSeq(ss)      == [ i \in DOMAIN ss |-> IdOf(ss[i]) ]
ScoredOf(ds)   == [ i \in DOMAIN ds |-> ds[i].scored ]
Envelope(set)  == [scope |-> set.scope, docs |-> set.docs]
PolicyOf(set)  == [policy |-> set.policy, reference |-> set.reference]

CoherentWithRequest(ev) ==
    /\ ev.validated.scope = ev.request.scope
    /\ SameBag(ev.validated.docs, ev.request.docs)
    /\ SameBag(ev.validated.candidates, ev.request.candidates)
    /\ ev.scored.policy = ev.request.policy.scoring.id
    /\ ev.scored.reference = ev.request.reference
    /\ ev.filteringPolicy = ev.request.policy.filtering.id
    /\ ev.allocation.available = ev.request.available

GroupSound(group) ==
    /\ group.members # <<>>
    /\ \E m \in Elements(group.members) : m.candidate.block = group.canonical

\* checkScoredCandidate: a later stage restates a scored candidate unchanged.
Restates(scored, ss) == Elements(ss) \subseteq Elements(scored)

\* The members of all groups, one group after another.
MemberPlaces(groups) == UNION { { << i, j >> : j \in DOMAIN groups[i].members } : i \in DOMAIN groups }
PlaceBefore(p, q)    == p[1] < q[1] \/ (p[1] = q[1] /\ p[2] < q[2])

AllMembers(groups) ==
    LET places == Listed(MemberPlaces(groups), PlaceBefore)
    IN  [ k \in DOMAIN places |-> groups[places[k][1]].members[places[k][2]].candidate ]

CoherentGroups(ev) ==
    LET groups == ev.deduplicated.groups
    IN  /\ ev.deduplicated.scope = ev.validated.scope
        /\ SameBag(ev.deduplicated.docs, ev.validated.docs)
        /\ \A g \in Elements(groups) : GroupSound(g)
        /\ \A i, j \in DOMAIN groups : groups[i].canonical.id = groups[j].canonical.id => i = j
        /\ SameBag(AllMembers(groups), ev.validated.candidates)

CoherentScores(ev) ==
    LET groups == ev.deduplicated.groups
        scored == ev.scored.candidates
    IN  /\ CoversExactlyOnce(IdSeq(scored), [ i \in DOMAIN groups |-> groups[i].canonical.id ])
        /\ \A s \in Elements(scored) : s.group \in Elements(groups)
        /\ Envelope(ev.scored) = Envelope(ev.deduplicated)

CoherentFiltering(ev) ==
    LET decided  == ScoredOf(ev.decisions)
        admitted == ScoredOf(Filtered(ev.decisions, IsEligible))
    IN  /\ CoversExactlyOnce(IdSeq(decided), IdSeq(ev.scored.candidates))
        /\ Restates(ev.scored.candidates, decided)
        /\ IdSeq(ev.eligible.candidates) = IdSeq(admitted)
        /\ Envelope(ev.eligible) = Envelope(ev.scored)
        /\ PolicyOf(ev.eligible) = PolicyOf(ev.scored)

\* Exact sums, or none.
SumOver(numbers, D)  == MapThenSumSet(LAMBDA i : numbers[i], D)
SumOf(numbers)       == SumOver(numbers, DOMAIN numbers)
SafeSum(numbers)     == { sum \in {SumOf(numbers)} : sum <= MaxSafe }
SafeDifference(a, b) == { d \in {a - b} : d >= 0 }

TokensOf(ds) == [ i \in DOMAIN ds |-> ds[i].tokens ]

Accounted(allocation) ==
    /\ \A d \in Elements(allocation.included \o allocation.excluded) :
          d.tokens = AllocatedBlock(d).tokens
    /\ \A d \in Elements(allocation.included) : d.before - d.tokens = d.after
    /\ SafeSum(TokensOf(allocation.included)) = {allocation.selected}
    /\ SafeDifference(allocation.available, allocation.selected) = {allocation.unallocated}

CoherentAllocation(ev) ==
    LET decided == ScoredOf(ev.allocation.included \o ev.allocation.excluded)
    IN  /\ CoversExactlyOnce(IdSeq(decided), IdSeq(ev.eligible.candidates))
        /\ Restates(ev.scored.candidates, decided)
        /\ Envelope(ev.allocation) = Envelope(ev.eligible)
        /\ PolicyOf(ev.allocation) = PolicyOf(ev.eligible)
        /\ Accounted(ev.allocation)

CoherentRendering(ev) ==
    /\ CoversExactlyOnce(IdSeq(ScoredOf(ev.ordered)), IdSeq(ScoredOf(ev.allocation.included)))
    /\ Elements(ev.ordered) \subseteq Elements(ev.allocation.included)
    /\ ev.rendered.fits = (ev.rendered.tokens <= ev.allocation.available)

CoherentStages(ev) ==
    /\ CoherentGroups(ev)
    /\ CoherentScores(ev)
    /\ CoherentFiltering(ev)
    /\ CoherentAllocation(ev)
    /\ CoherentRendering(ev)

-----------------------------------------------------------------------------
(* The snapshot. *)

TraceSource(d) == [id |-> d.id, type |-> d.type]
TraceSources(docs) ==
    LET sorted == Listed(Elements(docs), IdBefore)
    IN  [ i \in DOMAIN sorted |-> TraceSource(sorted[i]) ]

TraceCanonical(b) ==
    [ id |-> b.id, doc |-> b.doc, type |-> b.type, tokens |-> b.tokens, hash |-> b.hash,
      required |-> b.required, priority |-> b.priority, category |-> b.category,
      location |-> b.location ]

TraceMember(m) ==
    [ block |-> m.candidate.block.id, doc |-> m.candidate.block.doc, match |-> m.match,
      retrieval |-> m.candidate.retrieval ]

TraceDecision(d) ==
    [ decision |-> d.decision, reason |-> d.reason, minimum |-> d.minimum,
      incomplete |-> d.incomplete, declared |-> d.declared,
      total |-> IF d.reason \in {"ELIGIBLE_REQUIRED", "FILTERED_INAPPLICABLE",
                                 "FILTERED_SUPERSEDED"} THEN {} ELSE {d.scored.total} ]

DecisionOn(ds, id)  == CHOOSE d \in Elements(ds) : IdOf(d.scored) = id
DecidedIn(ds, id)   == \E d \in Elements(ds) : IdOf(d.scored) = id
PositionOf(ds, id)  == { i \in DOMAIN ds : IdOf(ds[i].scored) = id }

Disposition(ev, id) ==
    IF DecisionOn(ev.decisions, id).decision = "filtered" THEN "filtered"
    ELSE IF DecidedIn(ev.allocation.included, id) THEN "included" ELSE "excluded"

TraceGroup(ev, group) ==
    LET id       == group.canonical.id
        decision == DecisionOn(ev.decisions, id)
    IN  [ canonical   |-> TraceCanonical(group.canonical),
          selection   |-> group.reason,
          members     |-> [ i \in DOMAIN group.members |-> TraceMember(group.members[i]) ],
          total       |-> decision.scored.total,
          evidence    |-> decision.scored.evidence,
          filtering   |-> TraceDecision(decision),
          disposition |-> Disposition(ev, id),
          position    |-> PositionOf(ev.ordered, id) ]

\* Defect: an evidence policy is recorded under the applicability version.
TraceVersionTwoOnly(filtering) == IF filtering.schema = 1 THEN 2 ELSE 3

TraceVersion(filtering) == CASE filtering.schema = 3 -> 4
                             [] filtering.schema = 2 -> 3
                             [] filtering.schema = 1 -> 2

ContentTokens(groups) == [ i \in DOMAIN groups |-> groups[i].canonical.tokens ]
With(groups, disposition) == Filtered(groups, LAMBDA g : g.disposition = disposition)

Totals(groups, wrappers) ==
    LET tokens(ws)  == SumOf([ i \in DOMAIN ws |-> ws[i].block.tokens ])
        content(d)  == SumOf(ContentTokens(With(groups, d)))
    IN  [ candidates   |-> Len(wrappers),
          groups       |-> Len(groups),
          duplicates   |-> Len(wrappers) - Len(groups),
          filtered     |-> Len(With(groups, "filtered")),
          eligible     |-> Len(With(groups, "included")) + Len(With(groups, "excluded")),
          included     |-> Len(With(groups, "included")),
          excluded     |-> Len(With(groups, "excluded")),
          candidateTokens |-> tokens(wrappers),
          canonicalTokens |-> SumOf(ContentTokens(groups)),
          duplicateTokens |-> tokens(wrappers) - SumOf(ContentTokens(groups)),
          filteredTokens  |-> content("filtered"),
          includedTokens  |-> content("included"),
          excludedTokens  |-> content("excluded") ]

TotalsHold(t) ==
    /\ \A f \in DOMAIN t : t[f] \in 0..MaxSafe
    /\ t.candidates = t.groups + t.duplicates
    /\ t.eligible = t.included + t.excluded
    /\ t.groups = t.filtered + t.eligible
    /\ t.candidateTokens = t.canonicalTokens + t.duplicateTokens
    /\ t.canonicalTokens = t.includedTokens + t.filteredTokens + t.excludedTokens

RenderPositionsHold(groups) ==
    /\ \A g \in Elements(groups) : g.disposition = "included" <=> g.position # {}
    /\ UNION { g.position : g \in Elements(groups) } = 1..Len(With(groups, "included"))

BuildTrace(ev) ==
    LET groups == ev.deduplicated.groups
        traced == [ i \in DOMAIN groups |-> TraceGroup(ev, groups[i]) ]
    IN  [ version    |-> TraceVersion(ev.request.policy.filtering),
          settled    |-> FALSE,
          coverage   |-> "rendering-attempt-only",
          sources    |-> TraceSources(ev.request.docs),
          groups     |-> traced,
          included   |-> IdSeq(ScoredOf(ev.allocation.included)),
          excluded   |-> IdSeq(ScoredOf(ev.allocation.excluded)),
          order      |-> IdSeq(ScoredOf(ev.ordered)),
          tokens     |-> ev.rendered.tokens,
          totals     |-> Totals(traced, AllMembers(groups)),
          settlement |-> {} ]

ResultHolds(trace) == TotalsHold(trace.totals) /\ RenderPositionsHold(trace.groups)

TraceIssues(ev) ==
    { code \in {"inconsistent_request_evidence", "inconsistent_stage_evidence",
                "invalid_trace_result"} :
        \/ code = "inconsistent_request_evidence" /\ ~ CoherentWithRequest(ev)
        \/ code = "inconsistent_stage_evidence"   /\ ~ CoherentStages(ev)
        \/ code = "invalid_trace_result" /\ CoherentWithRequest(ev) /\ CoherentStages(ev)
                                         /\ ~ ResultHolds(BuildTrace(ev)) }

-----------------------------------------------------------------------------
(* Settlement: the final decision on every group, and the settled trace.    *)

FinalDecision(ev, order, rebuilt, group) ==
    LET id   == group.canonical.id
        at   == { i \in DOMAIN order : order[i] = id }
        base == [block |-> id, disposition |-> "", reason |-> "", position |-> {}]
    IN  IF group.filtering.decision = "filtered"
        THEN [base EXCEPT !.disposition = "filtered",
                !.reason = IF group.filtering.reason = "FILTERED_SCORE_BELOW_MINIMUM"
                           THEN "FILTERED_POLICY" ELSE group.filtering.reason]
        ELSE IF at # {}
        THEN [base EXCEPT !.disposition = "included", !.position = at,
                !.reason = IF group.canonical.required THEN "INCLUDED_REQUIRED"
                           ELSE IF rebuilt THEN "INCLUDED_RENDER_AWARE_CORRECTION"
                                           ELSE "INCLUDED_SCORE_ORDER"]
        ELSE [base EXCEPT !.disposition = "excluded",
                !.reason = IF DecidedIn(ev.allocation.excluded, id) /\ ~ rebuilt
                           THEN "EXCLUDED_INITIAL_ALLOCATION"
                           ELSE "EXCLUDED_RENDER_AWARE_CORRECTION"]

Settlement(ev, snapshot, order, rebuilt, tokens) ==
    [ decisions |-> [ i \in DOMAIN snapshot.groups |->
                        FinalDecision(ev, order, rebuilt, snapshot.groups[i]) ],
      order     |-> order,
      tokens    |-> tokens ]

SettleTrace(snapshot, settlement) ==
    [snapshot EXCEPT !.settled = TRUE, !.coverage = "validation-and-rendering",
                     !.settlement = {settlement}]

=============================================================================
