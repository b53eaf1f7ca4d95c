------------------------- MODULE EvaluationMeasures -------------------------
(***************************************************************************)
(* What an evaluation measures of one case: the baselines of its batch,    *)
(* what a compilation kept of its answer key, the score of an answer, and  *)
(* the distribution of the values of a suite.  A ratio is {<<n, d>>}, and  *)
(* {} where there is nothing to divide by.                                 *)
(*                                                                         *)
(* A case is [id, candidates, batch, available, required, relevant,        *)
(* irrelevant, facts, criteria, expected, request]; batch tells whether    *)
(* the candidates are a valid batch.  A candidate is [id, retrieval],      *)
(* retrieval at most one [provider, metric, higher, score, rank]; score    *)
(* and rank are sets of at most one number.                                *)
(***************************************************************************)
EXTENDS Integers, Sequences, FiniteSets, SequencesExt, FiniteSetsExt, Functions, TLC

CONSTANTS TokenCount(_),   \* what the tokenizer answers for the blocks rendered, -1 for no count
          IdPlace(_)       \* the place of an identifier in code-unit order

Ids(candidates) == [ i \in DOMAIN candidates |-> candidates[i].id ]
Blocks(case)    == Range(Ids(case.candidates))

-----------------------------------------------------------------------------
(* The answer key.                                                         *)

Evidence(case) == UNION UNION { f.groups : f \in case.facts }

\* A block is wanted or unwanted, not both; being the evidence of a fact is to
\* be wanted.
Conflicting(case) == (case.required \cup case.relevant \cup Evidence(case)) \cap case.irrelevant # {}

Unknown(case) ==
    ~ (case.required \cup case.relevant \cup case.irrelevant \cup Evidence(case) \subseteq Blocks(case))

\* The rest of the shape, and the compilation request, are request.
CaseAccepted(case) == case.request /\ ~ Unknown(case) /\ ~ Conflicting(case)

-----------------------------------------------------------------------------
(* Preservation.                                                           *)

Ratio(n, d) == IF d = 0 THEN {} ELSE { << n, d >> }
Share(wanted, got) == Ratio(Cardinality(wanted \cap got), Cardinality(wanted))

Weight == [critical |-> 3, major |-> 2, minor |-> 1]
WeightOf(facts) == MapThenSumSet(LAMBDA f : Weight[f.importance], facts)

\* Every block of one group is enough.
Preserved(case, included) == { f \in case.facts : \E g \in f.groups : g \subseteq included }

Preservation(case, included) ==
    LET kept     == Preserved(case, included)
        critical == { f \in case.facts : f.importance = "critical" }
    IN  [requiredBlockRecall    |-> Share(case.required, included),
         relevantBlockRecall    |-> Share(case.relevant, included),
         irrelevantExclusion    |-> Share(case.irrelevant, Blocks(case) \ included),
         weightedFactCoverage   |-> Ratio(WeightOf(kept), WeightOf(case.facts)),
         criticalFactCoverage   |-> Ratio(Cardinality(kept \cap critical), Cardinality(critical))]

\* An answer is the set of criteria it meets; without criteria it has no score.
Score(case, met) ==
    LET total(cs) == MapThenSumSet(LAMBDA c : c.weight, cs)
    IN  Ratio(total({ c \in case.criteria : c.id \in met }), total(case.criteria))

-----------------------------------------------------------------------------
(* Baselines.                                                              *)

Prefix(s, n) == SubSeq(s, 1, n)
Measured(candidates) == TokenCount(Ids(candidates))

\* A longer prefix may fit where a shorter one does not: all are measured.
LongestFittingPrefix(ordered, available) ==
    Prefix(ordered, Max({0} \cup { n \in 1 .. Len(ordered) : Measured(Prefix(ordered, n)) <= available }))

Same(candidates, Of(_)) == \A c, d \in Range(candidates) : Of(c) = Of(d)

Retrieved(c) == CHOOSE r \in c.retrieval : TRUE
Has(c, field) == Retrieved(c)[field] # {}
Valued(c, field) == CHOOSE n \in Retrieved(c)[field] : TRUE

TopKContract(candidates) ==
    IF candidates = <<>> \/ (\E c \in Range(candidates) : c.retrieval = {})
       \/ ~ Same(candidates, LAMBDA c : Retrieved(c).provider)
    THEN "none"
    ELSE IF /\ \A c \in Range(candidates) : Has(c, "score")
            /\ Same(candidates, LAMBDA c : << Retrieved(c).metric, Retrieved(c).higher >>)
         THEN "score"
    ELSE IF \A c \in Range(candidates) : Has(c, "rank") THEN "rank"
    ELSE "none"

\* Among equals the rank of the provider decides where both have one, the
\* identifier otherwise.
RankedBefore(contract, a, b) ==
    LET tied == contract = "rank" \/ Valued(a, "score") = Valued(b, "score")
        ranked == Has(a, "rank") /\ Has(b, "rank") /\ Valued(a, "rank") # Valued(b, "rank")
    IN  IF ~ tied THEN (Valued(a, "score") > Valued(b, "score")) = Retrieved(a).higher
        ELSE IF ranked THEN Valued(a, "rank") < Valued(b, "rank")
        ELSE IdPlace(a.id) < IdPlace(b.id)

Ranked(candidates) ==
    LET contract == TopKContract(candidates)
    IN  SortSeq(candidates, LAMBDA a, b : RankedBefore(contract, a, b))

Baselines(case) ==
    [full       |-> case.candidates,
     truncation |-> LongestFittingPrefix(case.candidates, case.available),
     topK       |-> IF TopKContract(case.candidates) = "none" THEN <<>>
                    ELSE LongestFittingPrefix(Ranked(case.candidates), case.available)]

\* One count the tokenizer does not give is the end of the suite.
Countable(case) ==
    LET orders == {case.candidates}
                  \cup (IF TopKContract(case.candidates) = "none" THEN {} ELSE {Ranked(case.candidates)})
    IN  \A s \in orders : \A n \in 0 .. Len(s) : Measured(Prefix(s, n)) >= 0

\* Signed: a compilation may cost more than everything it chose from.
TokenReduction(case, tokens) == Measured(case.candidates) - tokens

-----------------------------------------------------------------------------
(* What is promised of one case that is accepted.                          *)

\* There is a selection that is best in every measure at once: the blocks that
\* are not irrelevant.
KeyIsConsistent(case) ==
    LET best == Preservation(case, Blocks(case) \ case.irrelevant)
    IN  \A m \in DOMAIN best : \A r \in best[m] : r[1] = r[2]

\* A baseline fits, a longer prefix does not; and where every candidate has a
\* rank, or none has, top-k does not depend on the order they came in.
BaselinesFit(case) ==
    LET made  == Baselines(case)
        fits(s) == Measured(s) <= case.available
        cs    == case.candidates
        ranks == { c \in Range(cs) : Has(c, "rank") }
    IN  /\ made.truncation # <<>> => fits(made.truncation)
        /\ \A n \in Len(made.truncation) + 1 .. Len(cs) : ~ fits(Prefix(cs, n))
        /\ TopKContract(cs) # "none" /\ ranks \in {{}, Range(cs)} =>
              \A p \in Permutations(DOMAIN cs) : Ids(Ranked([ i \in DOMAIN cs |-> cs[p[i]] ])) = Ids(Ranked(cs))

-----------------------------------------------------------------------------
(* Distributions: the nearest rank.                                        *)

Percentile(sorted, p) ==
    LET rank == (p * Len(sorted) + 99) \div 100
    IN  sorted[IF rank < 1 THEN 1 ELSE rank]

Distribution(values) ==
    IF values = <<>> THEN {}
    ELSE LET sorted == SortSeq(values, <)
         IN  {[count |-> Len(values), p50 |-> Percentile(sorted, 50), p90 |-> Percentile(sorted, 90),
               minimum |-> sorted[1], maximum |-> sorted[Len(sorted)]]}

=============================================================================
