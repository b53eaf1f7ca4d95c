-------------------------- MODULE CandidateScoring --------------------------
(***************************************************************************)
(* CandidateScorer: the scoring policy and what its parser refuses, the    *)
(* evidence check that runs before deduplication, and the score of every   *)
(* group.                                                                  *)
(*                                                                         *)
(* A normalized value of the code is a real in [0, 1]; here it is a        *)
(* multiple of 1/Unit, and every normalization window and maximum age      *)
(* divides Unit, so that the quotients are exact.  A weight is a natural   *)
(* number and a sum beyond MaxFinite is not finite.                        *)
(***************************************************************************)
EXTENDS CandidateIntake

CONSTANTS HigherIsBetter,   \* the direction of each retrieval contract
          Unit,             \* the normalized value 1
          MaxFinite         \* the largest finite contribution or total

ASSUME UnitAssumption == Unit \in Nat \ {0}

Components == <<"retrieval", "authoredPriority", "sourcePriority", "categoryPriority", "recency">>

Configured(policy, component) == policy[component] # {}

\* A window, and the amounts of a policy as its schema has them.
WindowShape(window) == window.min \in Int /\ window.max \in Int /\ window.min < window.max

ScoringPolicyShape(policy) ==
    /\ \A c \in Elements(Components) :
          AtMostOne(policy[c]) /\ \A settings \in policy[c] : settings.weight \in Nat
    /\ \A r \in policy.retrieval : \A rule \in Elements(r.rules) : WindowShape(rule)
    /\ \A a \in policy.authoredPriority : WindowShape(a)
    /\ \A p \in policy.sourcePriority \cup policy.categoryPriority :
          p.default \in 0..Unit /\ \A e \in Elements(p.rules) : e.value \in 0..Unit
    /\ \A r \in policy.recency : r.maxAge \in Nat \ {0} /\ r.missing \in 0..Unit

-----------------------------------------------------------------------------
(* The policy parser: what a well-shaped policy may still be refused for.   *)

Repeats(s, KeyOf(_)) == \E i, j \in DOMAIN s : i < j /\ KeyOf(s[i]) = KeyOf(s[j])
RuleKey(entry)       == entry.key
RuleId(rule)         == rule.rule
RuleContract(rule)   == rule.contract

PolicyDuplicates(policy) ==
    { code \in {"duplicate_policy_rule", "duplicate_source_priority",
                "duplicate_category_priority"} :
        CASE code = "duplicate_policy_rule" -> \E r \in policy.retrieval :
                Repeats(r.rules, RuleId) \/ Repeats(r.rules, RuleContract)
          [] code = "duplicate_source_priority" ->
                \E s \in policy.sourcePriority : Repeats(s.rules, RuleKey)
          [] code = "duplicate_category_priority" ->
                \E c \in policy.categoryPriority : Repeats(c.rules, RuleKey) }

RulesOf(policy)  == UNION { Elements(r.rules) : r \in policy.retrieval }
IgnoredOf(policy) == Elements(policy.ignored)

EvidencePolicyIssues(policy) ==
    { code \in {"invalid_evidence_contract"} :
        /\ policy.schema = 2
        /\ \/ DOMAIN policy.completeness # { c \in Elements(Components) : Configured(policy, c) }
           \/ ~ IsInjective(policy.ignored)
           \/ IgnoredOf(policy) \cap { r.contract : r \in RulesOf(policy) } # {} }

ScoringPolicyIssues(policy) == PolicyDuplicates(policy) \cup EvidencePolicyIssues(policy)

-----------------------------------------------------------------------------
(* Arithmetic. *)

NormalizeInRange(raw, min, max, higher) ==
    ((IF higher THEN raw - min ELSE max - raw) * Unit) \div (max - min)

\* Defect: the evidence of a group adds up.
SumNormalized(values) == FoldSeq(LAMBDA v, sum : v + sum, 0, values)

\* The strongest signal of the group; 0 if there is none.
MaxNormalized(values) == Max({0} \cup Elements(values))

RulesFor(policy, contract) == { r \in RulesOf(policy) : r.contract = contract }
ConfiguredValue(rules, key, default) ==
    IF \E e \in Elements(rules) : e.key = key
    THEN (CHOOSE e \in Elements(rules) : e.key = key).value ELSE default

-----------------------------------------------------------------------------
(* validateEvidence: every wrapper of the batch against the policy.         *)

Retrieved(ws) == Filtered(ws, LAMBDA w : \E r \in w.retrieval : r.score # {})
ContractOf(w) == The(w.retrieval).contract
RawValue(w)   == The(The(w.retrieval).score)

OutsideWindow(raw, rule) == raw < rule.min \/ raw > rule.max

RetrievalIssues(policy, w) ==
    IF w.retrieval = {} \/ Retrieved(<<w>>) = <<>> \/ ContractOf(w) \in IgnoredOf(policy) THEN {}
    ELSE LET rules == RulesFor(policy, ContractOf(w))
         IN  { code \in {"retrieval_score_rule_not_found", "retrieval_score_out_of_range"} :
                 IF code = "retrieval_score_rule_not_found" THEN rules = {}
                 ELSE \E r \in rules : OutsideWindow(RawValue(w), r) }

PriorityIssues(policy, b) ==
    { code \in {"authored_priority_out_of_range"} :
        \E a \in policy.authoredPriority, p \in b.priority : OutsideWindow(p, a) }

\* Defect: the authored priorities are left to the scorer.
WrapperEvidenceIssues(policy, w) == RetrievalIssues(policy, w)

EvidenceOf(policy, w) == RetrievalIssues(policy, w) \cup PriorityIssues(policy, w.block)

EvidenceIssues(policy, scope, ws) ==
    { code \in {"evidence_scope_mismatch"} : policy.schema = 2 /\ policy.scope # scope }
    \cup UNION { EvidenceOf(policy, w) : w \in ws }

-----------------------------------------------------------------------------
(* The components of the score of one group.                                *)

\* One value per wrapper with a score the policy does not ignore and covers.
RetrievalValues(policy, group) ==
    LET scored == Retrieved([i \in DOMAIN group.members |-> group.members[i].candidate])
        usable == Filtered(scored, LAMBDA w :
                     ContractOf(w) \notin IgnoredOf(policy) /\ RetrievalIssues(policy, w) = {})
    IN  [ i \in DOMAIN usable |->
            LET rule == The(RulesFor(policy, ContractOf(usable[i])))
            IN  NormalizeInRange(RawValue(usable[i]), rule.min, rule.max,
                                 HigherIsBetter[rule.contract]) ]

\* distinctBlocksOf: one block per identifier, in order.
DistinctBlocks(group) == Listed(GroupBlocks(group), IdBefore)

PriorityValues(policy, group) ==
    LET a == The(policy.authoredPriority)
        usable == Filtered(DistinctBlocks(group), LAMBDA b :
                     b.priority # {} /\ PriorityIssues(policy, b) = {})
    IN  [ i \in DOMAIN usable |->
            NormalizeInRange(The(usable[i].priority), a.min, a.max, TRUE) ]

SourceValues(policy, group) ==
    LET s == The(policy.sourcePriority)
        blocks == DistinctBlocks(group)
    IN  [ i \in DOMAIN blocks |-> ConfiguredValue(s.rules, blocks[i].doc, s.default) ]

CategoryValues(policy, group) ==
    LET c == The(policy.categoryPriority)
        blocks == DistinctBlocks(group)
    IN  [ i \in DOMAIN blocks |->
            IF blocks[i].category = {} THEN c.default
            ELSE ConfiguredValue(c.rules, The(blocks[i].category), c.default) ]

\* The time a block was last touched; a time ahead of the reference has age 0.
TimeOf(b) == IF b.updated # {} THEN b.updated ELSE b.created
Age(reference, time) == Max({0, reference - time})

RecencyValues(policy, reference, group) ==
    LET r == The(policy.recency)
        blocks == DistinctBlocks(group)
    IN  [ i \in DOMAIN blocks |->
            IF TimeOf(blocks[i]) = {} THEN r.missing
            ELSE Max({0, Unit - (Age(reference, The(TimeOf(blocks[i]))) * Unit) \div r.maxAge}) ]

ComponentValues(policy, reference, group, component) ==
    CASE component = "retrieval"        -> RetrievalValues(policy, group)
      [] component = "authoredPriority" -> PriorityValues(policy, group)
      [] component = "sourcePriority"   -> SourceValues(policy, group)
      [] component = "categoryPriority" -> CategoryValues(policy, group)
      [] component = "recency"          -> RecencyValues(policy, reference, group)

Contribution(policy, reference, group, component) ==
    IF ~ Configured(policy, component) THEN 0
    ELSE The(policy[component]).weight
         * MaxNormalized(ComponentValues(policy, reference, group, component))

-----------------------------------------------------------------------------
(* #scoreGroup and score.                                                   *)

Contributions(policy, reference, group) ==
    [ i \in DOMAIN Components |-> Contribution(policy, reference, group, Components[i]) ]

Total(policy, reference, group) ==
    LET c == Contributions(policy, reference, group) IN c[1] + c[2] + c[3] + c[4] + c[5]

GroupIssues(policy, reference, group) ==
    (UNION { RetrievalIssues(policy, w) : w \in WrappersOf(group) })
    \cup (UNION { PriorityIssues(policy, b) : b \in GroupBlocks(group) })
    \cup { code \in {"non_finite_score_result"} : Total(policy, reference, group) > MaxFinite }

\* What the group offers each component, whether or not the policy uses it.
PresentIn(group, component) ==
    CASE component = "retrieval"        -> \E w \in WrappersOf(group) : Retrieved(<<w>>) # <<>>
      [] component = "authoredPriority" -> \E b \in GroupBlocks(group) : b.priority # {}
      [] component = "sourcePriority"   -> GroupBlocks(group) # {}
      [] component = "categoryPriority" -> \E b \in GroupBlocks(group) : b.category # {}
      [] component = "recency"          -> \E b \in GroupBlocks(group) : TimeOf(b) # {}

ObserveEvidence(policy, group) ==
    [ i \in DOMAIN Components |->
        LET c == Components[i]
        IN  [ component    |-> c,
              configured   |-> Configured(policy, c),
              present      |-> PresentIn(group, c),
              completeness |-> IF c \in DOMAIN policy.completeness
                               THEN {policy.completeness[c]} ELSE {} ] ]

ScoreGroup(policy, reference, group) ==
    [ group    |-> group,
      id       |-> group.canonical.id,
      total    |-> Total(policy, reference, group),
      weights  |-> [ c \in Elements(Components) |->
                       IF Configured(policy, c) THEN The(policy[c]).weight ELSE 0 ],
      evidence |-> IF policy.schema = 2 THEN {ObserveEvidence(policy, group)} ELSE {} ]

\* total descending, then canonical identifier ascending
RankedBefore(s, t) == s.total > t.total \/ (s.total = t.total /\ s.id < t.id)

ScoreIssues(policy, scope, reference, groups) ==
    LET early == EvidenceIssues(policy, scope, UNION { WrappersOf(g) : g \in Elements(groups) })
    IN  IF policy.schema = 2 /\ early # {} THEN early
        ELSE UNION { GroupIssues(policy, reference, g) : g \in Elements(groups) }

Score(policy, reference, groups) ==
    Sorted([ i \in DOMAIN groups |-> ScoreGroup(policy, reference, groups[i]) ], RankedBefore)

=============================================================================
