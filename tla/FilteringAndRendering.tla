----------------------- MODULE FilteringAndRendering -----------------------
(***************************************************************************)
(* What surrounds the allocation: the filter before it, the order and the  *)
(* text of a selection after it.                                           *)
(*                                                                         *)
(* CandidateFilter: which scored groups may compete for the budget.        *)
(*                                                                         *)
(* An exclusion names a block; it excludes the group the block is in.  A   *)
(* required block is eligible whatever its score.  Below the minimum, a    *)
(* group whose positively weighted evidence is declared incomplete is      *)
(* admitted or makes the whole stage fail, as the policy says.             *)
(***************************************************************************)
EXTENDS CandidateScoring

TargetOf(entry) == entry.block

\* A policy has one of three schemas; the first has no exclusions.
FilteringPolicyShape(policy) ==
    /\ policy.schema \in {1, 2, 3}
    /\ AtMostOne(policy.applicability)
    /\ policy.schema = 1 => policy.applicability = {}
    /\ \A a \in policy.applicability :
          /\ a.exclusions \in Seq(Elements(a.exclusions))
          /\ \A e \in Elements(a.exclusions) : e.block \in Nat

\* The parser refuses a target named twice.
FilteringPolicyIssues(policy) ==
    { code \in {"invalid_policy"} :
        \E a \in policy.applicability : Repeats(a.exclusions, TargetOf) }

GroupsHolding(scored, id) == { s \in Elements(scored) : id \in IdsOf(GroupBlocks(s.group)) }

HasRequired(s) == \E b \in GroupBlocks(s.group) : b.required

\* The exclusions that address a group, by target.
EntriesFor(applicability, s) ==
    Listed({ e \in Elements(applicability.exclusions) : e.block \in IdsOf(GroupBlocks(s.group)) },
           LAMBDA e, f : e.block < f.block)

ReasonsFor(applicability, s) == { e.reason : e \in Elements(EntriesFor(applicability, s)) }

ApplicabilityIssues(applicability, scope, scored) ==
    IF applicability.scope # scope THEN {"applicability_scope_mismatch"}
    ELSE { code \in {"missing_applicability_target", "required_applicability_conflict",
                     "conflicting_applicability_declarations"} :
             \/ /\ code = "missing_applicability_target"
                /\ \E e \in Elements(applicability.exclusions) : GroupsHolding(scored, e.block) = {}
             \/ /\ code = "required_applicability_conflict"
                /\ \E s \in Elements(scored) : HasRequired(s) /\ ReasonsFor(applicability, s) # {}
             \/ /\ code = "conflicting_applicability_declarations"
                /\ \E s \in Elements(scored) :
                        ~ HasRequired(s) /\ Cardinality(ReasonsFor(applicability, s)) > 1 }

\* Components whose evidence is declared incomplete and whose weight counts.
IncompleteComponents(s) ==
    LET counts(entry) == "incomplete" \in entry.completeness /\ s.weights[entry.component] > 0
        incomplete    == Filtered(The(s.evidence), counts)
    IN  [ i \in DOMAIN incomplete |-> incomplete[i].component ]

BelowMinimum(policy, s)  == \E least \in policy.minimum : s.total < least
Undecidable(policy, s)   == policy.schema = 3 /\ IncompleteComponents(s) # <<>>

Decision(s, verdict, reason) ==
    [ scored |-> s, decision |-> verdict, reason |-> reason,
      minimum |-> {}, incomplete |-> <<>>, declared |-> <<>> ]

Decide(policy, s) ==
    IF s.group.canonical.required THEN Decision(s, "eligible", "ELIGIBLE_REQUIRED")
    ELSE IF ~ BelowMinimum(policy, s)
         THEN [Decision(s, "eligible", "ELIGIBLE_POLICY") EXCEPT !.minimum = policy.minimum]
         ELSE IF Undecidable(policy, s)
              THEN [Decision(s, "eligible", "ELIGIBLE_INCOMPLETE_EVIDENCE") EXCEPT
                       !.minimum = policy.minimum, !.incomplete = IncompleteComponents(s)]
              ELSE [Decision(s, "filtered", "FILTERED_SCORE_BELOW_MINIMUM") EXCEPT
                       !.minimum = policy.minimum]

FilteredBy(entries, s) ==
    [Decision(s, "filtered", IF entries[1].reason = "inapplicable" THEN "FILTERED_INAPPLICABLE"
                                                                   ELSE "FILTERED_SUPERSEDED")
        EXCEPT !.declared = [ i \in DOMAIN entries |-> entries[i].block ]]

Excluding(policy, s) == UNION { Elements(EntriesFor(a, s)) : a \in policy.applicability }

FilterDecision(policy, s) ==
    IF Excluding(policy, s) = {} THEN Decide(policy, s)
    ELSE FilteredBy(EntriesFor(The(policy.applicability), s), s)

\* #decide throws at the first group it may not drop.
AdmissionIssues(policy, scored) ==
    { code \in {"incomplete_admission_evidence"} :
        /\ policy.onIncomplete = "reject"
        /\ \E s \in Elements(scored) :
              /\ Excluding(policy, s) = {} /\ ~ s.group.canonical.required
              /\ BelowMinimum(policy, s) /\ Undecidable(policy, s) }

\* The scored set carries evidence iff the scoring policy is of schema 2; its
\* evidence scope has been compared with the request's by the scorer.
FilterIssues(policy, scoring, scope, scored) ==
    IF (policy.schema = 3) # (scoring.schema = 2) THEN {"incompatible_evidence_policy"}
    ELSE IF scoring.schema = 2 /\ scoring.scope # scope THEN {"evidence_scope_mismatch"}
    ELSE LET applicability ==
                 UNION { ApplicabilityIssues(a, scope, scored) : a \in policy.applicability }
         IN  IF applicability # {} THEN applicability ELSE AdmissionIssues(policy, scored)

FilterDecisions(policy, scored) ==
    [ i \in DOMAIN scored |-> FilterDecision(policy, scored[i]) ]

IsEligible(d) == d.decision = "eligible"

Eligible(decisions) ==
    LET admitted == Filtered(decisions, IsEligible)
    IN  [ i \in DOMAIN admitted |-> admitted[i].scored ]

-----------------------------------------------------------------------------
(* ContextOrderer and ContextRenderer: the blocks of a selection in the    *)
(* order of their documents, and one text with one token count.            *)

\* Text ranges by offsets; messages by index, those without one last and by
\* identifier; blocks without a location after all others.
LocationKey(location) ==
    IF location = {} THEN <<2, 0, 0, 0>>
    ELSE LET l == The(location)
         IN  IF l.kind = "text-range"  THEN <<0, 0, l.start, l.end>>
             ELSE IF l.index = {}      THEN <<1, 1, 0, l.message>>
                                       ELSE <<1, 0, The(l.index), l.message>>

BlockKey(b) == <<b.doc>> \o LocationKey(b.location) \o <<b.id>>
BlockPrecedes(a, b) == KeyBefore(BlockKey(a), BlockKey(b))

\* Any items that hold blocks, in rendering order.
OrderForRendering(items, HeldBlock(_)) ==
    Sorted(items, LAMBDA x, y : BlockPrecedes(HeldBlock(x), HeldBlock(y)))

CanonicalOf(s)      == s.group.canonical
AllocatedBlock(d)   == CanonicalOf(d.scored)
OrderIncluded(included) == OrderForRendering(included, AllocatedBlock)

\* What a reader sees of a block.  Joining the records of a text keeps them
\* apart, so a text is the sequence of its records.
RenderedRecord(b) == [block |-> b.id, content |-> b.content, doc |-> b.doc, type |-> b.type]
RenderedText(blocks) == [ i \in DOMAIN blocks |-> RenderedRecord(blocks[i]) ]

\* One call of the tokenizer for the whole text.
CountIssues(answer) ==
    { code \in {"tokenizer_failed", "invalid_rendered_token_count"} :
        answer = IF code = "tokenizer_failed" THEN Threw ELSE Unusable }

Render(ordered, available, answer) ==
    [ text   |-> RenderedText([ i \in DOMAIN ordered |-> AllocatedBlock(ordered[i]) ]),
      tokens |-> answer,
      fits   |-> answer <= available ]

=============================================================================
