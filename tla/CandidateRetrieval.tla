------------------------- MODULE CandidateRetrieval -------------------------
(***************************************************************************)
(* MiniSearchCandidateProvider: an index of the blocks it is lent, the     *)
(* hits of a search engine it does not trust, and the candidates it makes  *)
(* of them.  A hit is [id, score]; the score of a hit that is no finite    *)
(* positive number is 0.                                                   *)
(***************************************************************************)
EXTENDS PortValues

CONSTANTS MaxCandidates,      \* the configured limit
          BlockRank(_)        \* the place of an identifier in code-unit order

\* documentsOf: the blocks by identifier, or a refusal.
DuplicateBlockId(blocks) ==
    \E i, j \in DOMAIN blocks : i # j /\ blocks[i].id = blocks[j].id

BlockById(blocks, id) == blocks[CHOOSE i \in DOMAIN blocks : blocks[i].id = id]

\* search: the first hit that is unusable refuses them all.
HitIssue(blocks, hit) ==
    IF \A i \in DOMAIN blocks : blocks[i].id # hit.id THEN {"UNKNOWN_RESULT_BLOCK"}
    ELSE IF hit.score = 0 THEN {"INVALID_RETRIEVAL_SCORE"}
    ELSE {}

FirstIssue(blocks, hits) ==
    LET bad == { i \in DOMAIN hits : HitIssue(blocks, hits[i]) # {} }
    IN  IF bad = {} THEN {} ELSE HitIssue(blocks, hits[CHOOSE i \in bad : \A j \in bad : i <= j])

\* Defect: equal scores stay in the order of the engine.
HitBeforeByScore(a, b) == a.score > b.score

HitBefore(a, b) ==
    \/ a.score > b.score
    \/ a.score = b.score /\ BlockRank(a.id) < BlockRank(b.id)

\* #wrap: the best hits, each with its place as its rank.
Wrapped(blocks, hits) ==
    LET best == Sorted(hits, HitBefore)
    IN  [ i \in 1 .. (IF Len(best) < MaxCandidates THEN Len(best) ELSE MaxCandidates) |->
            [block |-> BlockById(blocks, best[i].id), rank |-> i - 1, score |-> best[i].score] ]

\* getCandidates.  An engine that fails is asked in vain: engine is a failure.
GetCandidates(blocks, query, engine) ==
    IF blocks = <<>> \/ query = "blank" THEN Reply(<<>>)
    ELSE IF DuplicateBlockId(blocks) THEN Failure("DUPLICATE_BLOCK_ID")
    ELSE IF ~ engine.ok THEN Failure(engine.code)
    ELSE LET issue == FirstIssue(blocks, engine.value)
         IN  IF issue # {} THEN Failure(CHOOSE code \in issue : TRUE)
             ELSE Reply(Wrapped(blocks, engine.value))

=============================================================================
