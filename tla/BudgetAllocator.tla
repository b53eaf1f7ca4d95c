--------------------------- MODULE BudgetAllocator ---------------------------
(***************************************************************************)
(* BudgetAllocator.allocate (packages/compiler/src/budget-allocator.ts),   *)
(* one action per iteration of its loops: count impossibilities, required  *)
(* blocks, category minimums, the score-ordered greedy pass, the eviction  *)
(* order, and the reconciliation of the result.                            *)
(*                                                                         *)
(* `todo` is the rest of the list the current loop walks; the list is the  *)
(* set ordered by the comparator of that loop.                             *)
(***************************************************************************)
EXTENDS CandidateBatch, Sequences

VARIABLES
    phase,        \* the loop allocate() is in, or its outcome
    todo,         \* the candidates that loop has still to visit
    remaining,    \* state.remaining
    included,     \* state.included
    excluded,     \* state.excluded
    selected,     \* state.selectedByCategory
    counts,       \* the simulated counts of #evictionOrder
    eviction,     \* optionalEvictionOrder, built front to back
    issues        \* codes of the BudgetAllocationError thrown

vars == <<batch, phase, todo, remaining, included, excluded, selected, counts,
          eviction, issues>>

Phases == {"counts", "required", "minimums", "optional", "evict", "done", "failed"}
IncludeReasons == {"INCLUDED_REQUIRED", "INCLUDED_CATEGORY_MINIMUM", "INCLUDED_SCORE_ORDER"}
ExcludeReasons == {"EXCLUDED_CATEGORY_MAXIMUM", "EXCLUDED_BUDGET_EXHAUSTED"}
IssueCodes == {"required_category_maximum_exceeded", "category_minimum_unreachable",
               "required_content_exceeds_budget",
               "category_minimums_exceed_content_budget", "invalid_allocation_result"}

Inclusion == [block : Block, reason : IncludeReasons, before : Nat, after : Nat]
Exclusion == [block : Block, reason : ExcludeReasons, remaining : Nat]

TypeOK ==
    /\ batch \in Batches
    /\ phase \in Phases
    /\ todo \in SUBSET Block
    /\ remaining \in Nat
    /\ included \in Seq(Inclusion)
    /\ excluded \in Seq(Exclusion)
    /\ selected \in [Category -> Nat]
    /\ counts \in [Category -> Nat]
    /\ eviction \in Seq(Block)
    /\ issues \in SUBSET IssueCodes

IncludedBlocks == { included[i].block : i \in DOMAIN included }
ExcludedBlocks == { excluded[i].block : i \in DOMAIN excluded }
IncludedAs(reason) == { included[i].block : i \in { j \in DOMAIN included :
                                                     included[j].reason = reason } }
EvictedBlocks == { eviction[i] : i \in DOMAIN eviction }

Init ==
    /\ batch \in Batches
    /\ phase = "counts"
    /\ todo = {}
    /\ remaining = batch.available
    /\ included = <<>>
    /\ excluded = <<>>
    /\ selected = [c \in Category |-> 0]
    /\ counts = [c \in Category |-> 0]
    /\ eviction = <<>>
    /\ issues = {}

\* throw new BudgetAllocationError: no result survives the call.
Throw(codes) ==
    /\ issues' = codes
    /\ phase' = "failed"
    /\ UNCHANGED <<batch, todo, remaining, included, excluded, selected, counts, eviction>>

\* #include: record the decision with its exact budget transition.
Include(b, reason) ==
    /\ remaining' = remaining - batch.tokens[b]
    /\ included' = Append(included,
           [block |-> b, reason |-> reason, before |-> remaining,
            after |-> remaining - batch.tokens[b]])
    /\ selected' = [c \in Category |->
           IF c = batch.category[b] THEN selected[c] + 1 ELSE selected[c]]
    /\ todo' = todo \ {b}
    /\ UNCHANGED <<batch, phase, excluded, counts, eviction, issues>>

Exclude(b, reason) ==
    /\ excluded' = Append(excluded, [block |-> b, reason |-> reason, remaining |-> remaining])
    /\ todo' = todo \ {b}
    /\ UNCHANGED <<batch, phase, remaining, included, selected, counts, eviction, issues>>

\* The current loop is over: the next one walks `list`.
Enter(next, list) ==
    /\ phase' = next
    /\ todo' = list
    /\ UNCHANGED <<batch, remaining, included, excluded, selected, eviction, issues>>

-----------------------------------------------------------------------------
(* #detectCategoryCountFailures *)

CountIssues ==
    { code \in {"required_category_maximum_exceeded", "category_minimum_unreachable"} :
        \E c \in Category :
            \/ /\ code = "required_category_maximum_exceeded"
               /\ CountIn(Required, c) > batch.maxBlocks[c]
            \/ /\ code = "category_minimum_unreachable"
               /\ CountIn(Optional, c) < Needed(c) }

RejectCounts == phase = "counts" /\ CountIssues # {} /\ Throw(CountIssues)

AcceptCounts ==
    /\ phase = "counts"
    /\ CountIssues = {}
    /\ Enter("required", Required)
    /\ UNCHANGED counts

-----------------------------------------------------------------------------
(* #allocateRequired: identifier order *)

NextRequired(b) == IsFirst(b, todo, LowerId)

AllocateRequired(b) ==
    /\ phase = "required" /\ NextRequired(b)
    /\ batch.tokens[b] <= remaining
    /\ Include(b, "INCLUDED_REQUIRED")

RequiredOverflows(b) ==
    /\ phase = "required" /\ NextRequired(b)
    /\ batch.tokens[b] > remaining
    /\ Throw({"required_content_exceeds_budget"})

-----------------------------------------------------------------------------
(* #allocateCategoryMinimums: the K cheapest of each category, chosen before *)
(* anything is charged, then charged category by category                    *)

\* Defect: the best-scored blocks are reserved for a minimum, not the cheapest.
DearestPicks ==
    UNION { { b \in InCategory(Optional, c) :
                Cardinality({ a \in InCategory(Optional, c) : HigherScore(a, b) }) < Needed(c) }
            : c \in Category }

MinimumPicks == UNION { CheapestFor(c) : c \in Category }

ChargedEarlier(a, b) ==
    \/ batch.category[a] < batch.category[b]
    \/ batch.category[a] = batch.category[b] /\ CheaperMinimum(a, b)

BeginMinimums ==
    /\ phase = "required" /\ todo = {}
    /\ Enter("minimums", MinimumPicks)
    /\ UNCHANGED counts

NextMinimum(b) == IsFirst(b, todo, ChargedEarlier)

AllocateMinimum(b) ==
    /\ phase = "minimums" /\ NextMinimum(b)
    /\ batch.tokens[b] <= remaining
    /\ Include(b, "INCLUDED_CATEGORY_MINIMUM")

MinimumOverflows(b) ==
    /\ phase = "minimums" /\ NextMinimum(b)
    /\ batch.tokens[b] > remaining
    /\ Throw({"category_minimums_exceed_content_budget"})

-----------------------------------------------------------------------------
(* #allocateOptional: score order, the maximum tested before the budget *)

\* Defect: the optional pass walks the blocks already reserved once more.
BeginOptionalUnfiltered ==
    /\ phase = "minimums" /\ todo = {}
    /\ Enter("optional", Optional)
    /\ UNCHANGED counts

BeginOptional ==
    /\ phase = "minimums" /\ todo = {}
    /\ Enter("optional", Optional \ IncludedAs("INCLUDED_CATEGORY_MINIMUM"))
    /\ UNCHANGED counts

\* Defect: identifier order.
NextOptionalById(b) == IsFirst(b, todo, LowerId)

NextOptional(b) == IsFirst(b, todo, HigherScore)

\* Defect: one block too many.
AboveMaximum(b) ==
    /\ batch.category[b] # NoCategory
    /\ selected[batch.category[b]] > batch.maxBlocks[batch.category[b]]

AtMaximum(b) ==
    /\ batch.category[b] # NoCategory
    /\ selected[batch.category[b]] >= batch.maxBlocks[batch.category[b]]

ExcludeAtMaximum(b) ==
    /\ phase = "optional" /\ NextOptional(b)
    /\ AtMaximum(b)
    /\ Exclude(b, "EXCLUDED_CATEGORY_MAXIMUM")

ExcludeOverBudget(b) ==
    /\ phase = "optional" /\ NextOptional(b)
    /\ ~ AtMaximum(b)
    /\ batch.tokens[b] > remaining
    /\ Exclude(b, "EXCLUDED_BUDGET_EXHAUSTED")

IncludeByScore(b) ==
    /\ phase = "optional" /\ NextOptional(b)
    /\ ~ AtMaximum(b)
    /\ batch.tokens[b] <= remaining
    /\ Include(b, "INCLUDED_SCORE_ORDER")

-----------------------------------------------------------------------------
(* #evictionOrder: simulated removal of optional inclusions *)

BeginEviction ==
    /\ phase = "optional" /\ todo = {}
    /\ Enter("evict", IncludedBlocks \ IncludedAs("INCLUDED_REQUIRED"))
    /\ counts' = selected

NextEviction(b) == IsFirst(b, todo, EvictedEarlier)

\* Defect: the block itself is counted among those that remain.
ProtectedTooLate(b) ==
    /\ batch.category[b] # NoCategory
    /\ counts[batch.category[b]] < batch.minBlocks[batch.category[b]]

\* Giving b back would take its category below the minimum.
Protected(b) ==
    /\ batch.category[b] # NoCategory
    /\ counts[batch.category[b]] < batch.minBlocks[batch.category[b]] + 1

SkipProtected(b) ==
    /\ phase = "evict" /\ NextEviction(b)
    /\ Protected(b)
    /\ todo' = todo \ {b}
    /\ UNCHANGED <<batch, phase, remaining, included, excluded, selected, counts,
                   eviction, issues>>

AppendEvictable(b) ==
    /\ phase = "evict" /\ NextEviction(b)
    /\ ~ Protected(b)
    /\ todo' = todo \ {b}
    /\ eviction' = Append(eviction, b)
    /\ counts' = [c \in Category |->
           IF c = batch.category[b] THEN counts[c] - 1 ELSE counts[c]]
    /\ UNCHANGED <<batch, phase, remaining, included, excluded, selected, issues>>

-----------------------------------------------------------------------------
(* reconcile: recompute the totals and the decision count from the result *)

Reconciled ==
    /\ Len(included) + Len(excluded) = Cardinality(Block)
    /\ IncludedBlocks \cup ExcludedBlocks = Block
    /\ ContentTokens(IncludedBlocks) = batch.available - remaining
    /\ ContentTokens(IncludedBlocks) <= batch.available

Reconcile ==
    /\ phase = "evict" /\ todo = {}
    /\ phase' = IF Reconciled THEN "done" ELSE "failed"
    /\ issues' = IF Reconciled THEN {} ELSE {"invalid_allocation_result"}
    /\ UNCHANGED <<batch, todo, remaining, included, excluded, selected, counts, eviction>>

-----------------------------------------------------------------------------
Step(b) ==
    \/ AllocateRequired(b) \/ RequiredOverflows(b)
    \/ AllocateMinimum(b)  \/ MinimumOverflows(b)
    \/ ExcludeAtMaximum(b) \/ ExcludeOverBudget(b) \/ IncludeByScore(b)
    \/ SkipProtected(b)    \/ AppendEvictable(b)

Next ==
    \/ RejectCounts \/ AcceptCounts
    \/ BeginMinimums \/ BeginOptional \/ BeginEviction
    \/ \E b \in Block : Step(b)
    \/ Reconcile

Spec == Init /\ [][Next]_vars

-----------------------------------------------------------------------------
\* INV-BUDGET-006: the published transitions form one chain of exact
\* subtractions from the available tokens to the remainder, so a reader of the
\* trace can replay the budget.  Every #include reads and writes the shared
\* remainder; a decision recorded from a stale one breaks the chain.
BudgetChain ==
    /\ \A i \in DOMAIN included :
          /\ included[i].before = included[i].after + batch.tokens[included[i].block]
          /\ included[i].before = IF i = 1 THEN batch.available ELSE included[i - 1].after
    /\ remaining = IF included = <<>> THEN batch.available
                   ELSE included[Len(included)].after

\* INV-TRACE-001: no candidate is decided twice or forgotten, in particular one
\* reserved for a minimum is not visited again by the optional pass; and a
\* required candidate is never excluded (INV-BUDGET-003).
DecisionsPartition ==
    /\ \A i, j \in DOMAIN included : included[i].block = included[j].block => i = j
    /\ \A i, j \in DOMAIN excluded : excluded[i].block = excluded[j].block => i = j
    /\ IncludedBlocks \cap ExcludedBlocks = {}
    /\ ExcludedBlocks \cap Required = {}
    /\ phase = "done" => IncludedBlocks \cup ExcludedBlocks = Block

\* The published decisions replay the allocation: every candidate is decided
\* once, and the inclusions are one chain of subtractions.
DecisionsReplay == BudgetChain /\ DecisionsPartition

\* INV-ALLOC-003: no category ever exceeds its maximum on the way, and from the
\* optional pass on every minimum is met.
CategoryLimits ==
    /\ phase # "failed" => \A c \in Category : selected[c] = CountIn(IncludedBlocks, c)
    /\ phase \notin {"counts", "failed"} => MeetsMaximums(IncludedBlocks)
    /\ phase \in {"optional", "evict", "done"} => MeetsMinimums(IncludedBlocks)

\* INV-ALLOC-005: an exclusion for budget is explained by the blocks that rank
\* before the excluded one alone.  Whatever was reserved, whatever outranks it:
\* those leave too little for it, so no lower-ranked candidate took its place.
OutrankedBy(b) ==
    { a \in IncludedBlocks : \/ a \notin IncludedAs("INCLUDED_SCORE_ORDER")
                             \/ HigherScore(a, b) }
ScoreOrderJustified ==
    \A i \in DOMAIN excluded : LET b == excluded[i].block IN
        /\ excluded[i].reason = "EXCLUDED_BUDGET_EXHAUSTED" =>
              ContentTokens(OutrankedBy(b)) + batch.tokens[b] > batch.available
        /\ excluded[i].reason = "EXCLUDED_CATEGORY_MAXIMUM" =>
              CountIn(OutrankedBy(b), batch.category[b]) = batch.maxBlocks[batch.category[b]]

\* INV-ALLOC-006: every prefix of the eviction order may be removed: it holds no
\* required block and leaves every minimum met.  The render-correction loop
\* relies on it without checking.
EvictionPrefixSafe ==
    phase = "done" => \A n \in 0..Len(eviction) :
        LET kept == IncludedBlocks \ { eviction[i] : i \in 1..n }
        IN  Required \subseteq kept /\ MeetsMinimums(kept)

\* The promise the rest of the compiler relies on (AllocationContract).
Contract == INSTANCE AllocationContract WITH
    verdict   <- CASE phase = "done"   -> "allocated"
                   [] phase = "failed" -> "refused"
                   [] OTHER            -> "pending",
    selection <- IF phase = "done" THEN IncludedBlocks ELSE {}

\* allocate() refuses a batch exactly when no selection satisfies the policy
\* within the content budget, and otherwise returns one nothing can join.
ImplementsContract == Contract!Spec

=============================================================================
