----------------------- MODULE RenderCorrectionProofs -----------------------
(***************************************************************************)
(* What an allocation and the search that corrects it guarantee, for every *)
(* batch, policy, bound and tokenizer.                                     *)
(*                                                                         *)
(* First the allocator by itself (Spec):                                   *)
(*   DecisionInv, LoopInv   what was decided, and what a loop has to visit; *)
(*   CountInv, EvictInv     counts by category, and the eviction order;    *)
(*   BudgetInv, ScoreInv    what the rest of the budget and the ranks say. *)
(* Then the compilation around it (CompileSpec):                           *)
(*   SearchInv, FitInv      what the phases so far ruled out;              *)
(*   OutcomeInv, ChoiceInv  what was settled, and how it came about.       *)
(***************************************************************************)
EXTENDS RenderCorrection, CandidateBatchProofs

-----------------------------------------------------------------------------
(* Facts about one step that every invariant below needs. *)

\* A step of a loop visits a block that loop still had to visit.
LEMMA VisitedIsPending ==
    ASSUME NEW b, Step(b)
    PROVE  b \in todo
    BY DEF Step, AllocateRequired, RequiredOverflows, AllocateMinimum, MinimumOverflows,
           ExcludeAtMaximum, ExcludeOverBudget, IncludeByScore, SkipProtected,
           AppendEvictable, NextRequired, NextMinimum, NextOptional, NextEviction, IsFirst

\* The kinds of change a step makes to the published decisions: it records an
\* inclusion that fits, an exclusion, an evictable block, or nothing.
Included(b) == \E r \in IncludeReasons : batch.tokens[b] <= remaining /\ Include(b, r)
Excluded(b) == \E r \in ExcludeReasons : Exclude(b, r)

\* One iteration of a loop includes, excludes, skips, appends or throws.
LEMMA StepKinds ==
    ASSUME NEW b \in Block, Step(b)
    PROVE  \/ phase \in {"required", "minimums", "optional"} /\ Included(b)
           \/ phase = "optional" /\ Excluded(b)
           \/ SkipProtected(b)
           \/ AppendEvictable(b)
           \/ \E codes \in SUBSET IssueCodes : Throw(codes)
    BY DEF Step, AllocateRequired, RequiredOverflows, AllocateMinimum, MinimumOverflows,
           ExcludeAtMaximum, ExcludeOverBudget, IncludeByScore, Included, Excluded, IncludeReasons, ExcludeReasons, IssueCodes

\* Everything Next can do, with the visits of blocks reduced to their kinds.
LEMMA NextKinds ==
    ASSUME [Next]_vars
    PROVE  \/ \E b \in Block : Step(b)
           \/ AcceptCounts \/ BeginMinimums \/ BeginOptional \/ BeginEviction
           \/ Reconcile
           \/ \E codes \in SUBSET IssueCodes : Throw(codes)
           \/ UNCHANGED vars
    BY DEF Next, RejectCounts, CountIssues, IssueCodes

-----------------------------------------------------------------------------
(* What one recorded decision does to the sets of decided blocks. *)

\* The sequences of decisions, spelled out for the provers.
LEMMA DecisionsTyped ==
    ASSUME TypeOK
    PROVE  /\ Len(included) \in Nat /\ DOMAIN included = 1..Len(included)
           /\ Len(excluded) \in Nat /\ DOMAIN excluded = 1..Len(excluded)
           /\ Len(eviction) \in Nat /\ DOMAIN eviction = 1..Len(eviction)
           /\ \A i \in DOMAIN included : included[i] \in Inclusion
           /\ \A i \in DOMAIN excluded : excluded[i] \in Exclusion
           /\ \A i \in DOMAIN eviction : eviction[i] \in Block
           /\ IncludedBlocks \in SUBSET Block
           /\ ExcludedBlocks \in SUBSET Block
           /\ EvictedBlocks \in SUBSET Block
<1>1. /\ Len(included) \in Nat /\ DOMAIN included = 1..Len(included)
      /\ Len(excluded) \in Nat /\ DOMAIN excluded = 1..Len(excluded)
      /\ Len(eviction) \in Nat /\ DOMAIN eviction = 1..Len(eviction)
    BY DEF TypeOK
<1>2. /\ \A i \in DOMAIN included : included[i] \in Inclusion
      /\ \A i \in DOMAIN excluded : excluded[i] \in Exclusion
      /\ \A i \in DOMAIN eviction : eviction[i] \in Block
    BY DEF TypeOK
<1>3. QED
    BY <1>1, <1>2 DEF IncludedBlocks, ExcludedBlocks, EvictedBlocks, Inclusion, Exclusion

\* What #include changes.
LEMMA IncludeEffect ==
    ASSUME TypeOK, NEW b \in Block, NEW r \in IncludeReasons, Include(b, r)
    PROVE  /\ Len(included') = Len(included) + 1
           /\ DOMAIN included' = 1..(Len(included) + 1)
           /\ \A i \in DOMAIN included : included'[i] = included[i]
           /\ included'[Len(included) + 1].block = b
           /\ included'[Len(included) + 1].before = remaining
           /\ included'[Len(included) + 1].after = remaining - batch.tokens[b]
           /\ IncludedBlocks' = IncludedBlocks \cup {b}
           /\ IncludedAs(r)' = IncludedAs(r) \cup {b}
           /\ \A x \in IncludeReasons \ {r} : IncludedAs(x)' = IncludedAs(x)
           /\ ExcludedBlocks' = ExcludedBlocks
           /\ EvictedBlocks' = EvictedBlocks
<1>1. /\ Len(included) \in Nat /\ DOMAIN included = 1..Len(included)
      /\ included \in Seq(Inclusion)
    BY DecisionsTyped DEF TypeOK
<1>2. /\ Len(included') = Len(included) + 1
      /\ DOMAIN included' = 1..(Len(included) + 1)
      /\ \A i \in DOMAIN included : included'[i] = included[i]
      /\ included'[Len(included) + 1] =
            [block |-> b, reason |-> r, before |-> remaining,
             after |-> remaining - batch.tokens[b]]
    BY <1>1 DEF Include
<1>3. /\ included'[Len(included) + 1].block = b
      /\ included'[Len(included) + 1].reason = r
      /\ included'[Len(included) + 1].before = remaining
      /\ included'[Len(included) + 1].after = remaining - batch.tokens[b]
    BY <1>2
<1>4. DOMAIN included' = DOMAIN included \cup {Len(included) + 1}
    BY <1>1, <1>2
<1> DEFINE e == Len(included) + 1
<1>5. /\ DOMAIN included' = DOMAIN included \cup {e}
      /\ \A i \in DOMAIN included : included'[i] = included[i]
      /\ included'[e].block = b /\ included'[e].reason = r
    BY <1>2, <1>3, <1>4
<1> HIDE DEF e
<1>6. IncludedBlocks' = IncludedBlocks \cup {b}
    BY <1>5 DEF IncludedBlocks
<1>7. IncludedAs(r)' = IncludedAs(r) \cup {b}
    BY <1>5 DEF IncludedAs
<1>8. \A x \in IncludeReasons \ {r} : IncludedAs(x)' = IncludedAs(x)
    BY <1>5 DEF IncludedAs
<1>9. ExcludedBlocks' = ExcludedBlocks /\ EvictedBlocks' = EvictedBlocks
    BY DEF Include, ExcludedBlocks, EvictedBlocks
<1>10. QED
    BY <1>2, <1>3, <1>6, <1>7, <1>8, <1>9

\* What #exclude changes.
LEMMA ExcludeEffect ==
    ASSUME TypeOK, NEW b \in Block, NEW r, Exclude(b, r)
    PROVE  /\ DOMAIN excluded' = DOMAIN excluded \cup {Len(excluded) + 1}
           /\ \A i \in DOMAIN excluded : excluded'[i] = excluded[i]
           /\ excluded'[Len(excluded) + 1].block = b
           /\ ExcludedBlocks' = ExcludedBlocks \cup {b}
           /\ IncludedBlocks' = IncludedBlocks
           /\ \A x : IncludedAs(x)' = IncludedAs(x)
           /\ EvictedBlocks' = EvictedBlocks
<1>1. /\ Len(excluded) \in Nat /\ DOMAIN excluded = 1..Len(excluded)
      /\ excluded \in Seq(Exclusion)
    BY DecisionsTyped DEF TypeOK
<1>2. /\ DOMAIN excluded' = DOMAIN excluded \cup {Len(excluded) + 1}
      /\ \A i \in DOMAIN excluded : excluded'[i] = excluded[i]
      /\ excluded'[Len(excluded) + 1].block = b
    BY <1>1 DEF Exclude
<1>3. ExcludedBlocks' = ExcludedBlocks \cup {b}
    BY <1>2 DEF ExcludedBlocks
<1>4. QED
    BY <1>2, <1>3 DEF Exclude, IncludedBlocks, IncludedAs, EvictedBlocks

\* What one entry of the eviction order changes.
LEMMA EvictEffect ==
    ASSUME TypeOK, NEW b \in Block, AppendEvictable(b)
    PROVE  /\ EvictedBlocks' = EvictedBlocks \cup {b}
           /\ IncludedBlocks' = IncludedBlocks
           /\ ExcludedBlocks' = ExcludedBlocks
<1>1. /\ Len(eviction) \in Nat /\ DOMAIN eviction = 1..Len(eviction)
      /\ eviction \in Seq(Block)
    BY DecisionsTyped DEF TypeOK
<1>2. /\ DOMAIN eviction' = DOMAIN eviction \cup {Len(eviction) + 1}
      /\ \A i \in DOMAIN eviction : eviction'[i] = eviction[i]
      /\ eviction'[Len(eviction) + 1] = b
    BY <1>1 DEF AppendEvictable
<1>3. EvictedBlocks' = EvictedBlocks \cup {b}
    BY <1>2 DEF EvictedBlocks
<1>4. QED
    BY <1>3 DEF AppendEvictable, IncludedBlocks, ExcludedBlocks

\* A step that leaves the published sequences alone leaves the sets alone.
LEMMA NoDecisionEffect ==
    ASSUME UNCHANGED <<included, excluded>>
    PROVE  /\ IncludedBlocks' = IncludedBlocks
           /\ ExcludedBlocks' = ExcludedBlocks
           /\ \A x : IncludedAs(x)' = IncludedAs(x)
    BY DEF IncludedBlocks, ExcludedBlocks, IncludedAs

-----------------------------------------------------------------------------
(* Type correctness. *)

\* Including a block that fits keeps the types, the budget included.
LEMMA InclusionTyped ==
    ASSUME TypeOK, NEW b \in Block, NEW r \in IncludeReasons,
           batch.tokens[b] <= remaining, Include(b, r)
    PROVE  TypeOK'
<1>1. /\ batch.tokens[b] \in Nat
      /\ remaining - batch.tokens[b] \in Nat
    BY BatchFacts DEF TypeOK
<1>2. [block |-> b, reason |-> r, before |-> remaining,
       after |-> remaining - batch.tokens[b]] \in Inclusion
    BY <1>1 DEF Inclusion, TypeOK
<1>3. included' \in Seq(Inclusion)
    BY <1>2 DEF TypeOK, Include
<1>4. selected' \in [Category -> Nat]
    BY DEF TypeOK, Include
<1>5. QED
    BY <1>1, <1>3, <1>4 DEF TypeOK, Include

\* Excluding keeps the types.
LEMMA ExclusionTyped ==
    ASSUME TypeOK, NEW b \in Block, NEW r \in ExcludeReasons, Exclude(b, r)
    PROVE  TypeOK'
<1>1. [block |-> b, reason |-> r, remaining |-> remaining] \in Exclusion
    BY DEF Exclusion, TypeOK
<1>2. excluded' \in Seq(Exclusion)
    BY <1>1 DEF TypeOK, Exclude
<1>3. QED
    BY <1>2 DEF TypeOK, Exclude

\* Appending to the eviction order keeps the types.
LEMMA EvictionTyped ==
    ASSUME TypeOK, NEW b \in Block, AppendEvictable(b)
    PROVE  TypeOK'
<1>1. ASSUME NEW c \in Category
      PROVE  (IF c = batch.category[b] THEN counts[c] - 1 ELSE counts[c]) \in Nat
    <2>1. CASE c = batch.category[b]
        <3>1. counts[c] \in Nat /\ batch.minBlocks[c] \in Nat
            BY BatchFacts DEF TypeOK
        <3>2. ~ (counts[c] < batch.minBlocks[c] + 1)
            BY <2>1, CategoryAssumption DEF AppendEvictable, Protected
        <3>3. QED BY <2>1, <3>1, <3>2
    <2>2. CASE c # batch.category[b]
        BY <2>2 DEF TypeOK
    <2>3. QED BY <2>1, <2>2
<1>2. counts' \in [Category -> Nat]
    BY <1>1 DEF AppendEvictable
<1>3. eviction' \in Seq(Block)
    BY DEF TypeOK, AppendEvictable
<1>4. QED
    BY <1>2, <1>3 DEF TypeOK, AppendEvictable

\* Every record the allocator publishes is well formed: in particular neither
\* the remaining tokens nor a simulated category count ever goes below zero.
THEOREM TypeCorrect == Spec => []TypeOK
<1>1. Init => TypeOK
    <2> SUFFICES ASSUME Init PROVE TypeOK
        OBVIOUS
    <2>1. batch.available \in Nat
        BY BatchesAssumption DEF Init, BatchType
    <2>2. QED
        BY <2>1 DEF Init, TypeOK, Phases, IssueCodes
<1>2. TypeOK /\ [Next]_vars => TypeOK'
    <2> SUFFICES ASSUME TypeOK, [Next]_vars PROVE TypeOK'
        OBVIOUS
    <2>1. ASSUME NEW b \in Block, Step(b) PROVE TypeOK'
        <3>1. CASE Included(b)
            BY <3>1, InclusionTyped DEF Included
        <3>2. CASE Excluded(b)
            BY <3>2, ExclusionTyped DEF Excluded
        <3>3. CASE SkipProtected(b)
            BY <3>3 DEF SkipProtected, TypeOK
        <3>4. CASE AppendEvictable(b)
            BY <3>4, EvictionTyped
        <3>5. CASE \E codes \in SUBSET IssueCodes : Throw(codes)
            BY <3>5 DEF Throw, TypeOK, Phases
        <3>6. QED BY <2>1, <3>1, <3>2, <3>3, <3>4, <3>5, StepKinds
    <2>2. CASE AcceptCounts
        BY <2>2, BatchFacts DEF AcceptCounts, Enter, TypeOK, Phases, Required
    <2>3. CASE BeginMinimums
        BY <2>3 DEF BeginMinimums, Enter, TypeOK, Phases, MinimumPicks, CheapestFor,
                    InCategory, Optional
    <2>4. CASE BeginOptional
        BY <2>4 DEF BeginOptional, Enter, TypeOK, Phases, Optional
    <2>5. CASE BeginEviction
        <3>1. QED
            BY <2>5, DecisionsTyped DEF BeginEviction, Enter, TypeOK, Phases
    <2>6. CASE Reconcile
        BY <2>6 DEF Reconcile, TypeOK, Phases, IssueCodes
    <2>7. CASE \E codes \in SUBSET IssueCodes : Throw(codes)
        BY <2>7 DEF Throw, TypeOK, Phases
    <2>8. CASE UNCHANGED vars
        BY <2>8 DEF vars, TypeOK
    <2>9. QED
        BY <2>1, <2>2, <2>3, <2>4, <2>5, <2>6, <2>7, <2>8, NextKinds
<1>3. QED
    BY <1>1, <1>2, PTL DEF Spec

-----------------------------------------------------------------------------
(* The budget chain. *)

\* Replaying the recorded transitions subtracts exactly the content tokens of
\* each included block from the available tokens and ends at the remainder.
THEOREM BudgetChainHolds == Spec => []BudgetChain
<1>1. Init => BudgetChain
    BY DEF Init, BudgetChain
<1>2. TypeOK /\ BudgetChain /\ [Next]_vars => BudgetChain'
    <2> SUFFICES ASSUME TypeOK, BudgetChain, [Next]_vars PROVE BudgetChain'
        OBVIOUS
    <2>1. ASSUME NEW b \in Block, NEW r \in IncludeReasons,
                 batch.tokens[b] <= remaining, Include(b, r)
          PROVE  BudgetChain'
        <3> DEFINE n == Len(included)
        <3>1. /\ n \in Nat /\ DOMAIN included = 1..n
              /\ DOMAIN included' = 1..(n + 1) /\ Len(included') = n + 1
              /\ \A i \in 1..n : included'[i] = included[i]
              /\ included'[n + 1].block = b
              /\ included'[n + 1].before = remaining
              /\ included'[n + 1].after = remaining - batch.tokens[b]
            BY <2>1, DecisionsTyped, IncludeEffect
        <3>2. batch.tokens[b] \in Nat /\ remaining \in Nat
            BY BatchFacts DEF TypeOK
        <3>3. batch' = batch /\ remaining' = remaining - batch.tokens[b]
            BY <2>1 DEF Include
        <3>4. remaining = IF n = 0 THEN batch.available ELSE included[n].after
            BY <3>1 DEF BudgetChain, TypeOK
        <3>5. included' # <<>>
            BY <3>1
        <3>6. ASSUME NEW i \in 1..(n + 1)
              PROVE  /\ included'[i].before = included'[i].after + batch.tokens[included'[i].block]
                     /\ included'[i].before =
                          IF i = 1 THEN batch.available ELSE included'[i - 1].after
            <4>1. CASE i = n + 1
                BY <3>1, <3>2, <3>4, <4>1
            <4>2. CASE i \in 1..n
                <5>1. /\ included[i].before = included[i].after + batch.tokens[included[i].block]
                      /\ included[i].before =
                           IF i = 1 THEN batch.available ELSE included[i - 1].after
                    BY <3>1, <4>2 DEF BudgetChain
                <5>2. i # 1 => i - 1 \in 1..n
                    BY <3>1, <4>2
                <5>3. QED BY <3>1, <4>2, <5>1, <5>2
            <4>3. QED BY <3>1, <4>1, <4>2
        <3>7. QED
            BY <3>1, <3>3, <3>5, <3>6 DEF BudgetChain
    <2>2. CASE UNCHANGED <<batch, remaining, included>>
        BY <2>2 DEF BudgetChain
    <2>3. ASSUME NEW b \in Block, Step(b) PROVE BudgetChain'
        BY <2>1, <2>2, <2>3, StepKinds
           DEF Included, Excluded, Exclude, SkipProtected, AppendEvictable, Throw
    <2>4. QED
        BY <2>2, <2>3, NextKinds
           DEF AcceptCounts, BeginMinimums, BeginOptional, BeginEviction, Enter, Reconcile,
               Throw, vars
<1>3. QED
    BY <1>1, <1>2, TypeCorrect, PTL DEF Spec

-----------------------------------------------------------------------------
(* The inductive invariant: what each loop has decided and still has to.     *)

Reserved == Required \cup MinimumPicks

\* Decisions are recorded once, and never again a candidate a loop will visit.
DecisionInv ==
    /\ \A i, j \in DOMAIN included : included[i].block = included[j].block => i = j
    /\ \A i, j \in DOMAIN excluded : excluded[i].block = excluded[j].block => i = j
    /\ IncludedBlocks \cap ExcludedBlocks = {}
    /\ ExcludedBlocks \cap Required = {}
    /\ phase \in {"required", "minimums", "optional"} =>
          todo \cap (IncludedBlocks \cup ExcludedBlocks) = {}

\* Each loop starts from the complete result of the one before it.
LoopInv ==
    /\ phase = "counts" =>
          /\ IncludedBlocks = {} /\ ExcludedBlocks = {}
          /\ \A r \in IncludeReasons : IncludedAs(r) = {}
    /\ phase \notin {"counts", "failed"} => CountIssues = {}
    /\ phase = "required" =>
          /\ todo \subseteq Required
          /\ IncludedBlocks = Required \ todo
          /\ ExcludedBlocks = {}
          /\ IncludedAs("INCLUDED_REQUIRED") = Required \ todo
          /\ IncludedAs("INCLUDED_CATEGORY_MINIMUM") = {}
    /\ phase = "minimums" =>
          /\ todo \subseteq MinimumPicks
          /\ IncludedBlocks = Required \cup (MinimumPicks \ todo)
          /\ ExcludedBlocks = {}
          /\ IncludedAs("INCLUDED_REQUIRED") = Required
          /\ IncludedAs("INCLUDED_CATEGORY_MINIMUM") = MinimumPicks \ todo
    /\ phase = "optional" =>
          /\ todo \subseteq Optional
          /\ Reserved \subseteq IncludedBlocks
          /\ IncludedBlocks \cup ExcludedBlocks = Block \ todo
          /\ IncludedAs("INCLUDED_REQUIRED") = Required
    /\ phase \in {"evict", "done"} =>
          /\ Reserved \subseteq IncludedBlocks
          /\ IncludedBlocks \cup ExcludedBlocks = Block

\* The running counts are the counts of what is included, within the maxima.
CountInv ==
    /\ \A c \in Category : selected[c] = CountIn(IncludedBlocks, c)
    /\ phase = "optional" => MeetsMaximums(IncludedBlocks)
    /\ phase \in {"evict", "done"} => MeetsMaximums(IncludedBlocks)

\* The simulated counts are the counts of what an eviction so far would leave.
EvictInv ==
    /\ phase \in {"counts", "required", "minimums", "optional"} => eviction = <<>>
    /\ phase \in {"evict", "done"} =>
          /\ EvictedBlocks \subseteq IncludedBlocks \ Required
          /\ todo \subseteq IncludedBlocks \ Required
          /\ todo \cap EvictedBlocks = {}
          /\ \A c \in Category :
                /\ counts[c] = CountIn(IncludedBlocks \ EvictedBlocks, c)
                /\ counts[c] >= batch.minBlocks[c]

\* Everything the invariants say of the batch alone survives every step.
LEMMA BatchFixed ==
    ASSUME batch' = batch
    PROVE  /\ Required' = Required /\ Optional' = Optional
           /\ MinimumPicks' = MinimumPicks /\ Reserved' = Reserved
           /\ CountIssues' = CountIssues
           /\ \A S, c : CountIn(S, c)' = CountIn(S, c)
    BY DEF Required, Optional, MinimumPicks, CheapestFor, InCategory, CheaperMinimum, Needed,
           CountIn, CountIssues, Reserved

\* The blocks picked for the minimums are optional ones.
LEMMA PicksAreOptional ==
    ASSUME TypeOK
    PROVE  /\ Required \in SUBSET Block /\ Optional = Block \ Required
           /\ MinimumPicks \subseteq Optional
    BY BatchFacts DEF TypeOK, Required, Optional, MinimumPicks, CheapestFor, InCategory

\* One more inclusion of a pending candidate keeps the decisions apart.
LEMMA IncludeKeepsDecisions ==
    ASSUME TypeOK, DecisionInv, phase \in {"required", "minimums", "optional"},
           NEW b \in todo, NEW r \in IncludeReasons, Include(b, r)
    PROVE  DecisionInv'
<1> DEFINE n == Len(included)
<1>1. /\ b \in Block
      /\ n \in Nat /\ DOMAIN included = 1..n /\ DOMAIN included' = 1..(n + 1)
      /\ \A i \in 1..n : included'[i] = included[i]
      /\ included'[n + 1].block = b
      /\ IncludedBlocks' = IncludedBlocks \cup {b}
      /\ ExcludedBlocks' = ExcludedBlocks
    BY DecisionsTyped, IncludeEffect DEF TypeOK
<1>2. b \notin IncludedBlocks /\ b \notin ExcludedBlocks
    BY DEF DecisionInv
<1>3. \A i, j \in DOMAIN included' : included'[i].block = included'[j].block => i = j
    <2> SUFFICES ASSUME NEW i \in 1..(n + 1), NEW j \in 1..(n + 1),
                        included'[i].block = included'[j].block
                 PROVE  i = j
        BY <1>1
    <2>1. \A k \in 1..n : included[k].block # b
        BY <1>1, <1>2 DEF IncludedBlocks
    <2>2. CASE i \in 1..n /\ j \in 1..n
        BY <1>1, <2>2 DEF DecisionInv
    <2>3. CASE i = n + 1 \/ j = n + 1
        BY <1>1, <2>1, <2>3
    <2>4. QED BY <1>1, <2>2, <2>3
<1>4. UNCHANGED <<batch, phase, excluded>> /\ todo' = todo \ {b}
    BY DEF Include
<1>5. QED
    BY <1>1, <1>2, <1>3, <1>4, BatchFixed DEF DecisionInv

\* Excluding a block that was never decided keeps the decisions a partition.
LEMMA ExcludeKeepsDecisions ==
    ASSUME TypeOK, DecisionInv, phase = "optional", todo \subseteq Optional,
           NEW b \in todo, NEW r \in ExcludeReasons, Exclude(b, r)
    PROVE  DecisionInv'
<1> DEFINE e == Len(excluded) + 1
<1>1. /\ b \in Block
      /\ DOMAIN excluded' = DOMAIN excluded \cup {e}
      /\ \A i \in DOMAIN excluded : excluded'[i] = excluded[i]
      /\ excluded'[e].block = b
      /\ ExcludedBlocks' = ExcludedBlocks \cup {b}
      /\ IncludedBlocks' = IncludedBlocks
    BY ExcludeEffect DEF TypeOK
<1> HIDE DEF e
<1>2. b \notin IncludedBlocks /\ b \notin ExcludedBlocks /\ b \notin Required
    BY DEF DecisionInv, Optional, Required
<1>3. \A i, j \in DOMAIN excluded' : excluded'[i].block = excluded'[j].block => i = j
    <2>1. \A k \in DOMAIN excluded : excluded[k].block # b
        BY <1>2 DEF ExcludedBlocks
    <2>2. QED
        BY <1>1, <2>1 DEF DecisionInv
<1>4. UNCHANGED <<batch, phase, included>> /\ todo' = todo \ {b}
    BY DEF Exclude
<1>5. QED
    BY <1>1, <1>2, <1>3, <1>4, BatchFixed DEF DecisionInv

\* The loops hand over to one another exactly the candidates still undecided.
LEMMA DecisionStep ==
    ASSUME TypeOK, DecisionInv, LoopInv, [Next]_vars
    PROVE  DecisionInv' /\ LoopInv'
<1>1. ASSUME NEW b \in Block, Step(b) PROVE DecisionInv' /\ LoopInv'
    <2>1. b \in todo
        BY <1>1, VisitedIsPending
    <2>2. CASE AllocateRequired(b)
        <3>1. phase = "required" /\ Include(b, "INCLUDED_REQUIRED")
            BY <2>2 DEF AllocateRequired
        <3>2. DecisionInv'
            BY <2>1, <3>1, IncludeKeepsDecisions DEF IncludeReasons
        <3>3. LoopInv'
            <4>1. UNCHANGED <<batch, phase>> /\ todo' = todo \ {b}
                BY <3>1 DEF Include
            <4>2. /\ IncludedBlocks' = IncludedBlocks \cup {b}
                  /\ ExcludedBlocks' = ExcludedBlocks
                  /\ IncludedAs("INCLUDED_REQUIRED")' = IncludedAs("INCLUDED_REQUIRED") \cup {b}
                  /\ IncludedAs("INCLUDED_CATEGORY_MINIMUM")'
                        = IncludedAs("INCLUDED_CATEGORY_MINIMUM")
                BY <3>1, IncludeEffect DEF IncludeReasons
            <4>3. QED
                BY <2>1, <3>1, <4>1, <4>2, BatchFixed DEF LoopInv
        <3>4. QED BY <3>2, <3>3
    <2>3. CASE AllocateMinimum(b)
        <3>1. phase = "minimums" /\ Include(b, "INCLUDED_CATEGORY_MINIMUM")
            BY <2>3 DEF AllocateMinimum
        <3>2. DecisionInv'
            BY <2>1, <3>1, IncludeKeepsDecisions DEF IncludeReasons
        <3>3. LoopInv'
            <4>1. UNCHANGED <<batch, phase>> /\ todo' = todo \ {b}
                BY <3>1 DEF Include
            <4>2. /\ IncludedBlocks' = IncludedBlocks \cup {b}
                  /\ ExcludedBlocks' = ExcludedBlocks
                  /\ IncludedAs("INCLUDED_REQUIRED")' = IncludedAs("INCLUDED_REQUIRED")
                  /\ IncludedAs("INCLUDED_CATEGORY_MINIMUM")'
                        = IncludedAs("INCLUDED_CATEGORY_MINIMUM") \cup {b}
                BY <3>1, IncludeEffect DEF IncludeReasons
            <4>3. QED
                BY <2>1, <3>1, <4>1, <4>2, BatchFixed DEF LoopInv
        <3>4. QED BY <3>2, <3>3
    <2>4. CASE IncludeByScore(b)
        <3>1. phase = "optional" /\ Include(b, "INCLUDED_SCORE_ORDER")
            BY <2>4 DEF IncludeByScore
        <3>2. DecisionInv'
            BY <2>1, <3>1, IncludeKeepsDecisions DEF IncludeReasons
        <3>3. LoopInv'
            <4>1. UNCHANGED <<batch, phase>> /\ todo' = todo \ {b}
                BY <3>1 DEF Include
            <4>2. /\ IncludedBlocks' = IncludedBlocks \cup {b}
                  /\ ExcludedBlocks' = ExcludedBlocks
                  /\ IncludedAs("INCLUDED_REQUIRED")' = IncludedAs("INCLUDED_REQUIRED")
                BY <3>1, IncludeEffect DEF IncludeReasons
            <4>3. QED
                BY <2>1, <3>1, <4>1, <4>2, BatchFixed DEF LoopInv
        <3>4. QED BY <3>2, <3>3
    <2>5. CASE ExcludeAtMaximum(b) \/ ExcludeOverBudget(b)
        <3>1. phase = "optional" /\ \E r \in ExcludeReasons : Exclude(b, r)
            BY <2>5 DEF ExcludeAtMaximum, ExcludeOverBudget, ExcludeReasons
        <3>2. PICK r \in ExcludeReasons : Exclude(b, r)
            BY <3>1
        <3>3. DecisionInv'
            BY <2>1, <3>1, <3>2, ExcludeKeepsDecisions DEF LoopInv
        <3>4. LoopInv'
            <4>1. UNCHANGED <<batch, phase>> /\ todo' = todo \ {b}
                BY <3>2 DEF Exclude
            <4>2. /\ IncludedBlocks' = IncludedBlocks
                  /\ ExcludedBlocks' = ExcludedBlocks \cup {b}
                  /\ IncludedAs("INCLUDED_REQUIRED")' = IncludedAs("INCLUDED_REQUIRED")
                BY <3>2, ExcludeEffect
            <4>3. QED
                BY <2>1, <3>1, <4>1, <4>2, BatchFixed DEF LoopInv
        <3>5. QED BY <3>3, <3>4
    <2>6. CASE SkipProtected(b) \/ AppendEvictable(b)
        <3>1. phase = "evict" /\ UNCHANGED <<batch, phase, included, excluded>>
            BY <2>6 DEF SkipProtected, AppendEvictable
        <3>2. QED
            BY <3>1, NoDecisionEffect, BatchFixed DEF DecisionInv, LoopInv
    <2>7. CASE RequiredOverflows(b) \/ MinimumOverflows(b)
        <3>1. phase' = "failed" /\ UNCHANGED <<batch, included, excluded>>
            BY <2>7 DEF RequiredOverflows, MinimumOverflows, Throw
        <3>2. QED
            BY <3>1, NoDecisionEffect, BatchFixed DEF DecisionInv, LoopInv
    <2>8. QED
        BY <1>1, <2>2, <2>3, <2>4, <2>5, <2>6, <2>7 DEF Step
<1>2. CASE AcceptCounts
    <2>1. /\ phase = "counts" /\ phase' = "required" /\ todo' = Required /\ CountIssues = {}
          /\ UNCHANGED <<batch, included, excluded>>
        BY <1>2 DEF AcceptCounts, Enter
    <2>2. QED
        BY <2>1, NoDecisionEffect, BatchFixed DEF DecisionInv, LoopInv, IncludeReasons
<1>3. CASE BeginMinimums
    <2>1. /\ phase = "required" /\ phase' = "minimums" /\ todo = {} /\ todo' = MinimumPicks
          /\ UNCHANGED <<batch, included, excluded>>
        BY <1>3 DEF BeginMinimums, Enter
    <2>2. QED
        BY <2>1, NoDecisionEffect, BatchFixed, PicksAreOptional DEF DecisionInv, LoopInv
<1>4. CASE BeginOptional
    <2>1. /\ phase = "minimums" /\ phase' = "optional" /\ todo = {}
          /\ todo' = Optional \ IncludedAs("INCLUDED_CATEGORY_MINIMUM")
          /\ UNCHANGED <<batch, included, excluded>>
        BY <1>4 DEF BeginOptional, Enter
    <2>2. QED
        BY <2>1, NoDecisionEffect, BatchFixed, PicksAreOptional
           DEF DecisionInv, LoopInv, Reserved
<1>5. CASE BeginEviction
    <2>1. /\ phase = "optional" /\ phase' = "evict" /\ todo = {}
          /\ UNCHANGED <<batch, included, excluded>>
        BY <1>5 DEF BeginEviction, Enter
    <2>2. QED
        BY <2>1, NoDecisionEffect, BatchFixed DEF DecisionInv, LoopInv
<1>6. CASE Reconcile
    <2>1. /\ phase = "evict" /\ phase' \in {"done", "failed"}
          /\ UNCHANGED <<batch, included, excluded>>
        BY <1>6 DEF Reconcile
    <2>2. QED
        BY <2>1, NoDecisionEffect, BatchFixed DEF DecisionInv, LoopInv
<1>7. CASE \E codes \in SUBSET IssueCodes : Throw(codes)
    <2>1. phase' = "failed" /\ UNCHANGED <<batch, included, excluded>>
        BY <1>7 DEF Throw
    <2>2. QED
        BY <2>1, NoDecisionEffect, BatchFixed DEF DecisionInv, LoopInv
<1>8. CASE UNCHANGED vars
    <2>1. UNCHANGED <<batch, phase, todo, included, excluded>>
        BY <1>8 DEF vars
    <2>2. QED
        BY <2>1, NoDecisionEffect, BatchFixed DEF DecisionInv, LoopInv
<1>9. QED
    BY <1>1, <1>2, <1>3, <1>4, <1>5, <1>6, <1>7, <1>8, NextKinds

\* Nothing is decided yet, and each loop starts with all of its blocks.
LEMMA DecisionInit ==
    ASSUME Init
    PROVE  DecisionInv /\ LoopInv
<1>1. phase = "counts" /\ included = <<>> /\ excluded = <<>>
    BY DEF Init
<1>2. IncludedBlocks = {} /\ ExcludedBlocks = {} /\ \A r : IncludedAs(r) = {}
    BY <1>1 DEF IncludedBlocks, ExcludedBlocks, IncludedAs
<1>3. QED
    BY <1>1, <1>2 DEF DecisionInv, LoopInv

\* Every candidate has exactly one decision when the allocator returns, and a
\* required one is never excluded, however the loops were entered.
THEOREM DecisionsPartitionHolds == Spec => []DecisionsPartition
<1>1. Init => DecisionInv /\ LoopInv
    BY DecisionInit
<1>2. TypeOK /\ DecisionInv /\ LoopInv /\ [Next]_vars => DecisionInv' /\ LoopInv'
    BY DecisionStep
<1>3. DecisionInv /\ LoopInv => DecisionsPartition
    BY DEF DecisionInv, LoopInv, DecisionsPartition
<1>4. QED
    BY <1>1, <1>2, <1>3, TypeCorrect, PTL DEF Spec

\* The published decisions replay the allocation (AllocatedCandidateSet).
THEOREM DecisionsReplayHolds == Spec => []DecisionsReplay
<1>1. BudgetChain /\ DecisionsPartition => DecisionsReplay
    BY DEF DecisionsReplay
<1>2. QED
    BY <1>1, BudgetChainHolds, DecisionsPartitionHolds, PTL

-----------------------------------------------------------------------------
(* Category limits. *)

\* The counts the constructor's policy and the batch allow: what is reserved
\* before the optional pass already meets every minimum and no maximum is passed.
LEMMA ReservedLimits ==
    ASSUME TypeOK, CountIssues = {}, NEW c \in Category
    PROVE  /\ CountIn(Reserved, c) >= batch.minBlocks[c]
           /\ CountIn(Reserved, c) <= batch.maxBlocks[c]
<1>1. /\ CountIn(Required, c) <= batch.maxBlocks[c]
      /\ CountIn(Optional, c) >= Needed(c)
    <2>1. batch.maxBlocks[c] \in Nat /\ Required \in SUBSET Block /\ Optional \in SUBSET Block
        BY BatchFacts, PicksAreOptional DEF TypeOK
    <2>2. CountIn(Required, c) \in Nat /\ CountIn(Optional, c) \in Nat /\ Needed(c) \in Nat
        BY <2>1, CountIsNat, CheapestForCount DEF TypeOK
    <2>3. ~ (CountIn(Required, c) > batch.maxBlocks[c])
        BY DEF CountIssues
    <2>4. ~ (CountIn(Optional, c) < Needed(c))
        BY DEF CountIssues
    <2>5. QED BY <2>1, <2>2, <2>3, <2>4
<1>2. CountIn(MinimumPicks, c) = Needed(c)
    <2>1. \A d \in Category : CheapestFor(d) \subseteq InCategory(Optional, d)
        BY CheapestForCount DEF TypeOK
    <2>2. InCategory(MinimumPicks, c) = CheapestFor(c)
        BY <2>1 DEF MinimumPicks, InCategory
    <2>3. QED
        BY <1>1, <2>2, CheapestForCount DEF CountIn, TypeOK
<1>3. CountIn(Reserved, c) = CountIn(Required, c) + Needed(c)
    BY <1>2, PicksAreOptional, CountUnion DEF Reserved
<1>4. /\ CountIn(Required, c) \in Nat /\ batch.minBlocks[c] \in Nat /\ batch.maxBlocks[c] \in Nat
      /\ batch.minBlocks[c] <= batch.maxBlocks[c]
    BY BatchFacts, PicksAreOptional, CountIsNat DEF TypeOK
<1>5. QED
    BY <1>1, <1>3, <1>4 DEF Needed

\* Including a block moves the count of its own category and no other.
LEMMA IncludedCountMoves ==
    ASSUME TypeOK, CountInv, NEW b \in Block, b \notin IncludedBlocks,
           NEW r \in IncludeReasons, Include(b, r), NEW c \in Category
    PROVE  /\ selected'[c] = CountIn(IncludedBlocks, c)'
           /\ selected'[c] = IF batch.category[b] = c THEN selected[c] + 1 ELSE selected[c]
<1>1. IncludedBlocks' = IncludedBlocks \cup {b}
    BY IncludeEffect
<1>2. CountIn(IncludedBlocks, c)' = CountIn(IncludedBlocks \cup {b}, c)
    BY <1>1 DEF Include, CountIn, InCategory
<1>3. CountIn(IncludedBlocks \cup {b}, c)
         = IF batch.category[b] = c THEN CountIn(IncludedBlocks, c) + 1
                                    ELSE CountIn(IncludedBlocks, c)
    BY DecisionsTyped, CountAdd
<1>4. selected'[c] = IF batch.category[b] = c THEN selected[c] + 1 ELSE selected[c]
    BY DEF Include
<1>5. QED
    BY <1>2, <1>3, <1>4 DEF CountInv

\* Nothing in CountInv moves when the inclusions and their counts do not.
LEMMA CountInvFrame ==
    ASSUME CountInv, UNCHANGED <<batch, included, selected>>,
           \/ phase' = phase
           \/ phase' \in {"required", "minimums", "failed"}
           \/ (phase = "optional" /\ phase' = "evict")
           \/ (phase = "evict" /\ phase' = "done")
    PROVE  CountInv'
<1>1. IncludedBlocks' = IncludedBlocks
    BY DEF IncludedBlocks
<1>2. \A c : CountIn(IncludedBlocks, c)' = CountIn(IncludedBlocks, c)
    BY <1>1 DEF CountIn, InCategory
<1>3. MeetsMaximums(IncludedBlocks)' = MeetsMaximums(IncludedBlocks)
    BY <1>2 DEF MeetsMaximums
<1>4. QED
    BY <1>2, <1>3 DEF CountInv

\* Every step keeps the counters equal to what is included.
LEMMA CountStep ==
    ASSUME TypeOK, DecisionInv, LoopInv, CountInv, [Next]_vars
    PROVE  CountInv'
<1>1. ASSUME NEW b \in Block, Step(b) PROVE CountInv'
    <2>1. b \in todo
        BY <1>1, VisitedIsPending
    <2>2. CASE AllocateRequired(b) \/ AllocateMinimum(b)
        <3>1. PICK r \in IncludeReasons : Include(b, r)
            BY <2>2 DEF AllocateRequired, AllocateMinimum, IncludeReasons
        <3>2. phase \in {"required", "minimums"} /\ phase' = phase
            BY <2>2, <3>1 DEF AllocateRequired, AllocateMinimum, Include
        <3>3. b \notin IncludedBlocks
            BY <2>1, <3>2 DEF DecisionInv
        <3>4. QED
            BY <3>1, <3>2, <3>3, IncludedCountMoves DEF CountInv
    <2>3. CASE IncludeByScore(b)
        <3>1. phase = "optional" /\ ~ AtMaximum(b) /\ Include(b, "INCLUDED_SCORE_ORDER")
            BY <2>3 DEF IncludeByScore
        <3>2. phase' = phase /\ batch' = batch
            BY <3>1 DEF Include
        <3>3. b \notin IncludedBlocks
            BY <2>1, <3>1 DEF DecisionInv
        <3>4. ASSUME NEW c \in Category
              PROVE  /\ selected'[c] = CountIn(IncludedBlocks, c)'
                     /\ selected'[c] <= batch.maxBlocks[c]
            <4>1. /\ selected'[c] = CountIn(IncludedBlocks, c)'
                  /\ selected'[c] = IF batch.category[b] = c THEN selected[c] + 1 ELSE selected[c]
                BY <3>1, <3>3, IncludedCountMoves DEF IncludeReasons
            <4>2. selected[c] <= batch.maxBlocks[c]
                BY <3>1 DEF CountInv, MeetsMaximums
            <4>3. batch.category[b] = c => ~ (selected[c] >= batch.maxBlocks[c])
                BY <3>1, CategoryAssumption DEF AtMaximum
            <4>4. selected[c] \in Nat /\ batch.maxBlocks[c] \in Nat
                BY BatchFacts DEF TypeOK
            <4>5. QED BY <4>1, <4>2, <4>3, <4>4
        <3>5. MeetsMaximums(IncludedBlocks)'
            BY <3>2, <3>4 DEF MeetsMaximums
        <3>6. QED
            BY <3>4, <3>5 DEF CountInv
    <2>4. CASE \/ ExcludeAtMaximum(b) \/ ExcludeOverBudget(b)
               \/ SkipProtected(b) \/ AppendEvictable(b)
               \/ RequiredOverflows(b) \/ MinimumOverflows(b)
        <3>1. /\ UNCHANGED <<batch, included, selected>>
              /\ phase' \in {phase, "failed"}
            BY <2>4 DEF ExcludeAtMaximum, ExcludeOverBudget, SkipProtected, AppendEvictable,
                        RequiredOverflows, MinimumOverflows, Throw, Exclude
        <3>2. QED BY <3>1, CountInvFrame
    <2>5. QED
        BY <1>1, <2>2, <2>3, <2>4 DEF Step
<1>2. CASE AcceptCounts \/ BeginMinimums
    BY <1>2, CountInvFrame DEF AcceptCounts, BeginMinimums, Enter
<1>3. CASE BeginOptional
    <2>1. /\ phase = "minimums" /\ todo = {} /\ phase' = "optional"
          /\ UNCHANGED <<batch, included, selected>>
        BY <1>3 DEF BeginOptional, Enter
    <2>2. IncludedBlocks = Reserved /\ CountIssues = {}
        BY <2>1 DEF LoopInv, Reserved
    <2>3. MeetsMaximums(IncludedBlocks)
        BY <2>2, ReservedLimits DEF MeetsMaximums
    <2>4. IncludedBlocks' = IncludedBlocks
        BY <2>1 DEF IncludedBlocks
    <2>5. \A c : CountIn(IncludedBlocks, c)' = CountIn(IncludedBlocks, c)
        BY <2>1, <2>4 DEF CountIn, InCategory
    <2>6. QED
        BY <2>1, <2>3, <2>5 DEF CountInv, MeetsMaximums
<1>4. CASE BeginEviction
    BY <1>4, CountInvFrame DEF BeginEviction, Enter
<1>5. CASE Reconcile
    BY <1>5, CountInvFrame DEF Reconcile
<1>6. CASE \E codes \in SUBSET IssueCodes : Throw(codes)
    BY <1>6, CountInvFrame DEF Throw
<1>7. CASE UNCHANGED vars
    BY <1>7, CountInvFrame DEF vars
<1>8. QED
    BY <1>1, <1>2, <1>3, <1>4, <1>5, <1>6, <1>7, NextKinds

\* The counters start at zero.
LEMMA CountInit ==
    ASSUME Init
    PROVE  CountInv
<1>1. IncludedBlocks = {}
    BY DEF Init, IncludedBlocks
<1>2. \A c : CountIn({}, c) = 0
    <2>1. \A c : InCategory({}, c) = {}
        BY DEF InCategory
    <2>2. QED BY <2>1, FS_EmptySet DEF CountIn
<1>3. QED
    BY <1>1, <1>2 DEF Init, CountInv

\* The invariants give the limits: a maximum holds on the way because the loop
\* only ever adds reserved blocks first, a minimum from the optional pass on.
LEMMA LimitsFollow ==
    ASSUME TypeOK, LoopInv, CountInv
    PROVE  CategoryLimits
<1>1. IncludedBlocks \in SUBSET Block /\ Reserved \in SUBSET Block
    BY DecisionsTyped, PicksAreOptional DEF Reserved
<1>2. ASSUME phase \in {"required", "minimums"} PROVE MeetsMaximums(IncludedBlocks)
    <2>1. IncludedBlocks \subseteq Reserved /\ CountIssues = {}
        BY <1>2 DEF LoopInv, Reserved
    <2>2. ASSUME NEW c \in Category PROVE CountIn(IncludedBlocks, c) <= batch.maxBlocks[c]
        <3>1. CountIn(IncludedBlocks, c) <= CountIn(Reserved, c)
            BY <1>1, <2>1, CountMonotone
        <3>2. CountIn(Reserved, c) <= batch.maxBlocks[c]
            BY <2>1, ReservedLimits
        <3>3. /\ CountIn(IncludedBlocks, c) \in Nat /\ CountIn(Reserved, c) \in Nat
              /\ batch.minBlocks[c] \in Nat /\ batch.maxBlocks[c] \in Nat
            BY <1>1, CountIsNat, BatchFacts DEF TypeOK
        <3>4. QED
            BY <3>1, <3>2, <3>3
    <2>3. QED BY <2>2 DEF MeetsMaximums
<1>3. ASSUME phase \in {"optional", "evict", "done"} PROVE MeetsMinimums(IncludedBlocks)
    <2>1. Reserved \subseteq IncludedBlocks /\ CountIssues = {}
        BY <1>3 DEF LoopInv
    <2>2. ASSUME NEW c \in Category PROVE CountIn(IncludedBlocks, c) >= batch.minBlocks[c]
        <3>1. CountIn(Reserved, c) <= CountIn(IncludedBlocks, c)
            BY <1>1, <2>1, CountMonotone
        <3>2. CountIn(Reserved, c) >= batch.minBlocks[c]
            BY <2>1, ReservedLimits
        <3>3. /\ CountIn(IncludedBlocks, c) \in Nat /\ CountIn(Reserved, c) \in Nat
              /\ batch.minBlocks[c] \in Nat /\ batch.maxBlocks[c] \in Nat
            BY <1>1, CountIsNat, BatchFacts DEF TypeOK
        <3>4. QED
            BY <3>1, <3>2, <3>3
    <2>3. QED BY <2>2 DEF MeetsMinimums
<1>4. QED
    BY <1>2, <1>3 DEF CategoryLimits, CountInv, TypeOK, Phases

\* No allocation on the way passes a category maximum, and none that reaches the
\* optional pass misses a minimum, whatever the policy, the batch and the ties.
THEOREM CategoryLimitsHold == Spec => []CategoryLimits
<1>1. Init => DecisionInv /\ LoopInv /\ CountInv
    BY DecisionInit, CountInit
<1>2. TypeOK /\ (DecisionInv /\ LoopInv /\ CountInv) /\ [Next]_vars
         => (DecisionInv /\ LoopInv /\ CountInv)'
    BY DecisionStep, CountStep
<1>3. TypeOK /\ (DecisionInv /\ LoopInv /\ CountInv) => CategoryLimits
    BY LimitsFollow
<1>4. QED
    BY <1>1, <1>2, <1>3, TypeCorrect, PTL DEF Spec

-----------------------------------------------------------------------------
(* The eviction order. *)

\* A step that touches neither the decisions nor the order keeps what is known of it.
LEMMA EvictFrame ==
    ASSUME EvictInv, UNCHANGED <<batch, included, eviction, counts>>,
           todo' \subseteq todo,
           \/ phase' = phase
           \/ phase' = "failed"
           \/ (phase = "evict" /\ phase' = "done")
           \/ (phase \in {"counts", "required", "minimums"}
                  /\ phase' \in {"required", "minimums", "optional"})
    PROVE  EvictInv'
<1>1. IncludedBlocks' = IncludedBlocks /\ EvictedBlocks' = EvictedBlocks
    BY DEF IncludedBlocks, EvictedBlocks
<1>2. /\ Required' = Required
      /\ \A c : CountIn(IncludedBlocks \ EvictedBlocks, c)'
                  = CountIn(IncludedBlocks \ EvictedBlocks, c)
    BY <1>1 DEF CountIn, InCategory, Required
<1>3. QED
    BY <1>1, <1>2 DEF EvictInv

\* Before the eviction phase the order is empty, whatever else a step does.
LEMMA EvictBefore ==
    ASSUME EvictInv, phase \in {"counts", "required", "minimums", "optional"},
           phase' \in {"counts", "required", "minimums", "optional", "failed"},
           UNCHANGED eviction
    PROVE  EvictInv'
    BY DEF EvictInv

\* The allowances of the eviction order start as what exceeds each minimum.
LEMMA EvictStarts ==
    ASSUME TypeOK, LoopInv, CountInv, EvictInv, BeginEviction
    PROVE  EvictInv'
<1>1. /\ phase = "optional" /\ phase' = "evict" /\ counts' = selected
      /\ todo' = IncludedBlocks \ IncludedAs("INCLUDED_REQUIRED")
      /\ UNCHANGED <<batch, included, eviction>>
    BY DEF BeginEviction, Enter
<1>2. /\ eviction' = <<>> /\ EvictedBlocks' = {}
      /\ IncludedBlocks' = IncludedBlocks /\ Required' = Required
      /\ IncludedAs("INCLUDED_REQUIRED") = Required
      /\ Reserved \subseteq IncludedBlocks /\ CountIssues = {}
    BY <1>1 DEF EvictInv, EvictedBlocks, IncludedBlocks, Required, LoopInv
<1>3. ASSUME NEW c \in Category
      PROVE  /\ counts'[c] = CountIn(IncludedBlocks \ EvictedBlocks, c)'
             /\ counts'[c] >= batch'.minBlocks[c]
    <2>1. CountIn(IncludedBlocks \ EvictedBlocks, c)' = CountIn(IncludedBlocks, c)
        BY <1>1, <1>2 DEF CountIn, InCategory
    <2>2. counts'[c] = CountIn(IncludedBlocks, c)
        BY <1>1 DEF CountInv
    <2>3. IncludedBlocks \in SUBSET Block /\ Reserved \in SUBSET Block
        BY DecisionsTyped, PicksAreOptional DEF Reserved
    <2>4. CountIn(Reserved, c) <= CountIn(IncludedBlocks, c)
        BY <1>2, <2>3, CountMonotone
    <2>5. CountIn(Reserved, c) >= batch.minBlocks[c]
        BY <1>2, ReservedLimits
    <2>6. /\ CountIn(IncludedBlocks, c) \in Nat /\ CountIn(Reserved, c) \in Nat
          /\ batch.minBlocks[c] \in Nat
        BY <2>3, CountIsNat, BatchFacts DEF TypeOK
    <2>7. QED
        BY <1>1, <2>1, <2>2, <2>4, <2>5, <2>6
<1>4. QED
    BY <1>1, <1>2, <1>3 DEF EvictInv

\* Appending one block uses up one of its category's allowances.
LEMMA EvictOne ==
    ASSUME TypeOK, EvictInv, NEW b \in Block, AppendEvictable(b)
    PROVE  EvictInv'
<1>1. /\ phase = "evict" /\ b \in todo /\ ~ Protected(b) /\ todo' = todo \ {b}
      /\ UNCHANGED <<batch, phase, included>>
    BY DEF AppendEvictable, NextEviction, IsFirst
<1>2. /\ EvictedBlocks' = EvictedBlocks \cup {b} /\ IncludedBlocks' = IncludedBlocks
      /\ Required' = Required
    BY <1>1, EvictEffect DEF Required
<1>3. b \in IncludedBlocks \ EvictedBlocks /\ IncludedBlocks \in SUBSET Block
    BY <1>1, DecisionsTyped DEF EvictInv
<1>4. ASSUME NEW c \in Category
      PROVE  /\ counts'[c] = CountIn(IncludedBlocks \ EvictedBlocks, c)'
             /\ counts'[c] >= batch'.minBlocks[c]
    <2>1. (IncludedBlocks \ EvictedBlocks)' = (IncludedBlocks \ EvictedBlocks) \ {b}
        BY <1>2
    <2>2. CountIn(IncludedBlocks \ EvictedBlocks, c)'
             = CountIn((IncludedBlocks \ EvictedBlocks) \ {b}, c)
        BY <1>1, <2>1 DEF CountIn, InCategory
    <2>3. CountIn((IncludedBlocks \ EvictedBlocks) \ {b}, c)
             = IF batch.category[b] = c THEN CountIn(IncludedBlocks \ EvictedBlocks, c) - 1
                                        ELSE CountIn(IncludedBlocks \ EvictedBlocks, c)
        BY <1>3, CountRemove
    <2>4. counts[c] = CountIn(IncludedBlocks \ EvictedBlocks, c) /\ counts[c] >= batch.minBlocks[c]
        BY <1>1 DEF EvictInv
    <2>5. counts'[c] = IF c = batch.category[b] THEN counts[c] - 1 ELSE counts[c]
        BY DEF AppendEvictable
    <2>6. c = batch.category[b] => ~ (counts[c] < batch.minBlocks[c] + 1)
        BY <1>1, CategoryAssumption DEF Protected
    <2>7. counts[c] \in Nat /\ batch.minBlocks[c] \in Nat
        BY BatchFacts DEF TypeOK
    <2>8. counts'[c] >= batch.minBlocks[c]
        BY <2>4, <2>5, <2>6, <2>7
    <2>9. QED
        BY <1>1, <2>2, <2>3, <2>4, <2>5, <2>8
<1>5. QED
    BY <1>1, <1>2, <1>3, <1>4 DEF EvictInv

\* Every step keeps the allowances of the eviction order exact.
LEMMA EvictStep ==
    ASSUME TypeOK, LoopInv, CountInv, EvictInv, [Next]_vars
    PROVE  EvictInv'
<1>1. ASSUME NEW b \in Block, Step(b) PROVE EvictInv'
    <2>1. CASE phase \in {"required", "minimums", "optional"} /\ Included(b)
        BY <2>1, EvictBefore DEF Included, Include
    <2>2. CASE phase = "optional" /\ Excluded(b)
        BY <2>2, EvictBefore DEF Excluded, Exclude
    <2>3. CASE SkipProtected(b)
        BY <2>3, EvictFrame DEF SkipProtected
    <2>4. CASE AppendEvictable(b)
        BY <2>4, EvictOne
    <2>5. CASE \E codes \in SUBSET IssueCodes : Throw(codes)
        BY <2>5, EvictFrame DEF Throw
    <2>6. QED BY <1>1, <2>1, <2>2, <2>3, <2>4, <2>5, StepKinds
<1>2. CASE AcceptCounts \/ BeginMinimums \/ BeginOptional
    BY <1>2, EvictBefore DEF AcceptCounts, BeginMinimums, BeginOptional, Enter
<1>3. CASE BeginEviction
    BY <1>3, EvictStarts
<1>4. CASE Reconcile
    BY <1>4, EvictFrame DEF Reconcile
<1>5. CASE \E codes \in SUBSET IssueCodes : Throw(codes)
    BY <1>5, EvictFrame DEF Throw
<1>6. CASE UNCHANGED vars
    BY <1>6, EvictFrame DEF vars
<1>7. QED
    BY <1>1, <1>2, <1>3, <1>4, <1>5, <1>6, NextKinds

\* Exact allowances leave every category its minimum after any prefix.
LEMMA EvictSafeFollows ==
    ASSUME TypeOK, LoopInv, EvictInv
    PROVE  EvictionPrefixSafe
<1> SUFFICES ASSUME phase = "done", NEW n \in 0..Len(eviction)
             PROVE  LET kept == IncludedBlocks \ { eviction[i] : i \in 1..n }
                    IN  Required \subseteq kept /\ MeetsMinimums(kept)
    BY DEF EvictionPrefixSafe
<1> DEFINE given == { eviction[i] : i \in 1..n }
           kept == IncludedBlocks \ given
<1>1. given \subseteq EvictedBlocks
    BY DecisionsTyped DEF EvictedBlocks
<1>2. /\ EvictedBlocks \subseteq IncludedBlocks \ Required
      /\ Required \subseteq IncludedBlocks
    BY DEF EvictInv, LoopInv, Reserved
<1>3. Required \subseteq kept
    BY <1>1, <1>2
<1>4. ASSUME NEW c \in Category PROVE CountIn(kept, c) >= batch.minBlocks[c]
    <2>1. /\ kept \in SUBSET Block
          /\ (IncludedBlocks \ EvictedBlocks) \in SUBSET kept
        BY <1>1, DecisionsTyped
    <2>2. CountIn(IncludedBlocks \ EvictedBlocks, c) <= CountIn(kept, c)
        BY <2>1, CountMonotone
    <2>3. CountIn(IncludedBlocks \ EvictedBlocks, c) >= batch.minBlocks[c]
        BY DEF EvictInv
    <2>4. /\ CountIn(kept, c) \in Nat
          /\ CountIn(IncludedBlocks \ EvictedBlocks, c) \in Nat
          /\ batch.minBlocks[c] \in Nat
        BY <2>1, CountIsNat, BatchFacts DEF TypeOK
    <2> HIDE DEF kept
    <2>5. QED BY <2>2, <2>3, <2>4
<1>5. MeetsMinimums(kept)
    BY <1>4 DEF MeetsMinimums
<1>6. QED BY <1>3, <1>5

\* The render-correction loop may remove any prefix of the eviction order: no
\* required block leaves and no category falls below its minimum.
THEOREM EvictionPrefixSafeHolds == Spec => []EvictionPrefixSafe
<1>1. Init => DecisionInv /\ LoopInv /\ CountInv /\ EvictInv
    BY DecisionInit, CountInit DEF Init, EvictInv
<1>2. TypeOK /\ (DecisionInv /\ LoopInv /\ CountInv /\ EvictInv) /\ [Next]_vars
         => (DecisionInv /\ LoopInv /\ CountInv /\ EvictInv)'
    BY DecisionStep, CountStep, EvictStep
<1>3. TypeOK /\ (DecisionInv /\ LoopInv /\ CountInv /\ EvictInv) => EvictionPrefixSafe
    BY EvictSafeFollows
<1>4. QED
    BY <1>1, <1>2, <1>3, TypeCorrect, PTL DEF Spec

-----------------------------------------------------------------------------
(* The budget and the score order. *)

\* What is included and what remains make up the available tokens.
BudgetInv == ContentTokens(IncludedBlocks) + remaining = batch.available

\* The optional pass has decided the candidates that outrank those it still has
\* to visit, and nothing was excluded or included by score before it.
ScoreInv ==
    /\ phase \in {"counts", "required", "minimums"} =>
          ExcludedBlocks = {} /\ IncludedAs("INCLUDED_SCORE_ORDER") = {}
    /\ phase = "optional" =>
          \A a \in IncludedAs("INCLUDED_SCORE_ORDER") \cup ExcludedBlocks, b \in todo :
              HigherScore(a, b)

AllocatorInv == TypeOK /\ DecisionInv /\ LoopInv /\ CountInv /\ EvictInv

\* The invariants above hold together.
LEMMA AllocatorInvHolds == Spec => []AllocatorInv
<1>1. Init => DecisionInv /\ LoopInv /\ CountInv /\ EvictInv
    BY DecisionInit, CountInit DEF Init, EvictInv
<1>2. TypeOK /\ (DecisionInv /\ LoopInv /\ CountInv /\ EvictInv) /\ [Next]_vars
         => (DecisionInv /\ LoopInv /\ CountInv /\ EvictInv)'
    BY DecisionStep, CountStep, EvictStep
<1>3. QED
    BY <1>1, <1>2, TypeCorrect, PTL DEF Spec, AllocatorInv

\* The content of a selection and the comparators depend on the batch alone.
LEMMA ContentFixed ==
    ASSUME batch' = batch
    PROVE  /\ \A S : ContentTokens(S)' = ContentTokens(S)
           /\ \A a, b : HigherScore(a, b)' = HigherScore(a, b)
    BY DEF ContentTokens, HigherScore

\* Score and identifier order the candidates strictly.
LEMMA ScoreOrder ==
    ASSUME TypeOK
    PROVE  \A a, b \in Block : /\ ~ (HigherScore(a, b) /\ HigherScore(b, a))
                               /\ ~ HigherScore(a, a)
    BY BlockAssumption, BatchFacts DEF TypeOK, HigherScore

\* Every step keeps the remainder equal to what the inclusions leave.
LEMMA BudgetStep ==
    ASSUME AllocatorInv, BudgetInv, [Next]_vars
    PROVE  BudgetInv'
<1>1. CASE UNCHANGED <<batch, remaining, included>>
    BY <1>1 DEF BudgetInv, IncludedBlocks, ContentTokens
<1>2. ASSUME NEW b \in Block, Step(b), phase \in {"required", "minimums", "optional"}, Included(b)
      PROVE  BudgetInv'
    <2>1. PICK r \in IncludeReasons : batch.tokens[b] <= remaining /\ Include(b, r)
        BY <1>2 DEF Included
    <2>2. b \in Block \ IncludedBlocks /\ IncludedBlocks \in SUBSET Block
        BY <1>2, VisitedIsPending, DecisionsTyped DEF AllocatorInv, DecisionInv
    <2>3. IncludedBlocks' = IncludedBlocks \cup {b} /\ batch' = batch
          /\ remaining' = remaining - batch.tokens[b]
        BY <2>1, IncludeEffect DEF AllocatorInv, Include
    <2>4. ContentTokens(IncludedBlocks)' = ContentTokens(IncludedBlocks \cup {b})
        BY <2>3, Zenon DEF ContentTokens
    <2>5. /\ ContentTokens(IncludedBlocks \cup {b})
                = ContentTokens(IncludedBlocks) + batch.tokens[b]
          /\ ContentTokens(IncludedBlocks) \in Nat
        BY <2>2, ContentFacts DEF AllocatorInv, TypeOK
    <2>6. batch.tokens[b] \in Nat /\ remaining \in Nat
        BY BatchFacts DEF AllocatorInv, TypeOK
    <2>7. ContentTokens(IncludedBlocks)' + remaining' = ContentTokens(IncludedBlocks) + remaining
        BY <2>3, <2>4, <2>5, <2>6
    <2>8. QED BY <2>3, <2>7 DEF BudgetInv
<1>3. ASSUME NEW b \in Block, Step(b) PROVE BudgetInv'
    BY <1>1, <1>2, <1>3, StepKinds
       DEF Excluded, Exclude, SkipProtected, AppendEvictable, Throw
<1>4. QED
    BY <1>1, <1>3, NextKinds
       DEF AcceptCounts, BeginMinimums, BeginOptional, BeginEviction, Enter, Reconcile,
           Throw, vars

\* The sum of nothing is what the budget starts from.
LEMMA BudgetInit ==
    ASSUME Init
    PROVE  BudgetInv
<1>1. IncludedBlocks = {} /\ remaining = batch.available /\ batch.available \in Nat
    BY BatchFacts DEF Init, IncludedBlocks
<1>2. TokenSum(batch.tokens, {}) = 0
    BY SumStarts, FS_EmptySet
<1>3. ContentTokens(IncludedBlocks) = TokenSum(batch.tokens, {})
    BY <1>1, Zenon DEF ContentTokens
<1>4. QED BY <1>1, <1>2, <1>3 DEF BudgetInv

\* Every step keeps the score order of the optional pass.
LEMMA ScoreInvStep ==
    ASSUME AllocatorInv, ScoreInv, [Next]_vars
    PROVE  ScoreInv'
<1> USE DEF AllocatorInv
<1>1. CASE /\ UNCHANGED <<batch, included, excluded>> /\ todo' \subseteq todo
           /\ \/ phase' = phase
              \/ phase' \in {"evict", "done", "failed"}
              \/ phase \in {"counts", "required"} /\ phase' \in {"required", "minimums"}
    BY <1>1, NoDecisionEffect, ContentFixed DEF ScoreInv
<1>2. CASE AcceptCounts \/ BeginMinimums \/ BeginEviction \/ Reconcile
    <2>1. /\ UNCHANGED <<batch, included, excluded>>
          /\ \/ phase' \in {"evict", "done", "failed"}
             \/ phase \in {"counts", "required"} /\ phase' \in {"required", "minimums"}
        BY <1>2 DEF AcceptCounts, BeginMinimums, BeginEviction, Reconcile, Enter
    <2>2. QED BY <2>1, NoDecisionEffect, ContentFixed DEF ScoreInv
<1>3. CASE BeginOptional
    <2>1. phase = "minimums" /\ phase' = "optional" /\ UNCHANGED <<batch, included, excluded>>
        BY <1>3 DEF BeginOptional, Enter
    <2>2. QED BY <2>1, NoDecisionEffect DEF ScoreInv
<1>4. ASSUME NEW b \in Block, Step(b) PROVE ScoreInv'
    <2>1. b \in todo /\ todo \in SUBSET Block
        BY <1>4, VisitedIsPending DEF TypeOK
    <2>2. CASE AllocateRequired(b) \/ AllocateMinimum(b)
        <3>1. PICK r \in IncludeReasons \ {"INCLUDED_SCORE_ORDER"} : Include(b, r)
            BY <2>2 DEF AllocateRequired, AllocateMinimum, IncludeReasons
        <3>2. phase \in {"required", "minimums"} /\ phase' = phase
            BY <2>2, <3>1 DEF AllocateRequired, AllocateMinimum, Include
        <3>3. /\ IncludedAs("INCLUDED_SCORE_ORDER")' = IncludedAs("INCLUDED_SCORE_ORDER")
              /\ ExcludedBlocks' = ExcludedBlocks
            BY <3>1, IncludeEffect DEF IncludeReasons
        <3>4. QED BY <3>2, <3>3 DEF ScoreInv
    <2>3. CASE IncludeByScore(b) \/ ExcludeAtMaximum(b) \/ ExcludeOverBudget(b)
        <3>1. /\ phase = "optional" /\ phase' = phase /\ batch' = batch /\ todo' = todo \ {b}
              /\ \A x \in todo \ {b} : HigherScore(b, x)
            BY <2>3 DEF IncludeByScore, ExcludeAtMaximum, ExcludeOverBudget, Include, Exclude,
                        NextOptional, IsFirst
        <3>2. \/ /\ IncludedAs("INCLUDED_SCORE_ORDER")'
                       = IncludedAs("INCLUDED_SCORE_ORDER") \cup {b}
                 /\ ExcludedBlocks' = ExcludedBlocks
              \/ /\ IncludedAs("INCLUDED_SCORE_ORDER")' = IncludedAs("INCLUDED_SCORE_ORDER")
                 /\ ExcludedBlocks' = ExcludedBlocks \cup {b}
            <4>1. CASE IncludeByScore(b)
                BY <4>1, IncludeEffect DEF IncludeByScore, IncludeReasons
            <4>2. CASE ExcludeAtMaximum(b) \/ ExcludeOverBudget(b)
                BY <4>2, ExcludeEffect DEF ExcludeAtMaximum, ExcludeOverBudget
            <4>3. QED BY <2>3, <4>1, <4>2
        <3>3. \A a, x : HigherScore(a, x)' = HigherScore(a, x)
            BY <3>1, ContentFixed
        <3>4. \A a \in (IncludedAs("INCLUDED_SCORE_ORDER") \cup ExcludedBlocks) \cup {b},
                 x \in todo \ {b} : HigherScore(a, x)
            BY <3>1 DEF ScoreInv
        <3>5. QED BY <3>1, <3>2, <3>3, <3>4 DEF ScoreInv
    <2>4. CASE SkipProtected(b) \/ AppendEvictable(b) \/ RequiredOverflows(b) \/ MinimumOverflows(b)
        BY <1>1, <2>4 DEF SkipProtected, AppendEvictable, RequiredOverflows, MinimumOverflows, Throw
    <2>5. QED BY <1>4, <2>2, <2>3, <2>4 DEF Step
<1>5. QED
    BY <1>1, <1>2, <1>3, <1>4, NextKinds DEF Throw, vars

\* While the optional pass runs, everything it included so far outranks the
\* block it visits.
LEMMA OutrankedIsIncluded ==
    ASSUME ScoreInv, phase = "optional", NEW b \in todo
    PROVE  OutrankedBy(b) = IncludedBlocks
    BY DEF ScoreInv, OutrankedBy

\* What the exclusion of b for the reason r has to show.
Justified(b, r) ==
    /\ r = "EXCLUDED_BUDGET_EXHAUSTED" =>
          ContentTokens(OutrankedBy(b)) + batch.tokens[b] > batch.available
    /\ r = "EXCLUDED_CATEGORY_MAXIMUM" =>
          /\ batch.category[b] \in Category
          /\ CountIn(OutrankedBy(b), batch.category[b]) = batch.maxBlocks[batch.category[b]]

\* Every exclusion on record shows it.
ExclusionsJustified ==
    \A i \in DOMAIN excluded : Justified(excluded[i].block, excluded[i].reason)

\* It stays shown while the blocks that outrank b stay the same.
LEMMA JustifiedStays ==
    ASSUME batch' = batch, NEW b, OutrankedBy(b)' = OutrankedBy(b), NEW r, Justified(b, r)
    PROVE  Justified(b, r)'
<1>1. /\ ContentTokens(OutrankedBy(b))' = ContentTokens(OutrankedBy(b))
      /\ CountIn(OutrankedBy(b), batch.category[b])' = CountIn(OutrankedBy(b), batch.category[b])
    BY Zenon DEF ContentTokens, CountIn, InCategory
<1>2. QED BY <1>1 DEF Justified

\* A block that the optional pass excludes is justified by what it included.
LEMMA ExclusionJustified ==
    ASSUME AllocatorInv, BudgetInv, ScoreInv, phase = "optional", NEW b \in todo, NEW r,
           r = "EXCLUDED_BUDGET_EXHAUSTED" => batch.tokens[b] > remaining,
           r = "EXCLUDED_CATEGORY_MAXIMUM" => AtMaximum(b)
    PROVE  Justified(b, r)
<1> USE DEF AllocatorInv
<1>1. OutrankedBy(b) = IncludedBlocks /\ b \in Block
    BY OutrankedIsIncluded DEF TypeOK
<1>2. /\ IncludedBlocks \in SUBSET Block
      /\ ContentTokens(IncludedBlocks) \in Nat /\ remaining \in Nat
      /\ batch.tokens[b] \in Nat /\ batch.available \in Nat
    BY <1>1, DecisionsTyped, ContentFacts, BatchFacts DEF TypeOK
<1>3. r = "EXCLUDED_BUDGET_EXHAUSTED" =>
         ContentTokens(IncludedBlocks) + batch.tokens[b] > batch.available
    BY <1>2 DEF BudgetInv
<1>4. r = "EXCLUDED_CATEGORY_MAXIMUM" =>
         /\ batch.category[b] \in Category
         /\ CountIn(IncludedBlocks, batch.category[b]) = batch.maxBlocks[batch.category[b]]
    <2> SUFFICES ASSUME AtMaximum(b)
                 PROVE  /\ batch.category[b] \in Category
                        /\ CountIn(IncludedBlocks, batch.category[b])
                              = batch.maxBlocks[batch.category[b]]
        OBVIOUS
    <2> DEFINE c == batch.category[b]
    <2>1. c \in Category /\ selected[c] >= batch.maxBlocks[c]
        BY <1>1, BatchFacts DEF AtMaximum, TypeOK
    <2>2. selected[c] = CountIn(IncludedBlocks, c) /\ selected[c] <= batch.maxBlocks[c]
        BY <2>1 DEF CountInv, MeetsMaximums
    <2>3. selected[c] \in Nat /\ batch.maxBlocks[c] \in Nat
        BY <2>1, BatchFacts DEF TypeOK
    <2> HIDE DEF c
    <2>4. CountIn(IncludedBlocks, c) = batch.maxBlocks[c]
        BY <2>1, <2>2, <2>3
    <2>5. QED BY <2>1, <2>4 DEF c
<1>5. /\ ContentTokens(OutrankedBy(b)) = ContentTokens(IncludedBlocks)
      /\ CountIn(OutrankedBy(b), batch.category[b]) = CountIn(IncludedBlocks, batch.category[b])
    BY <1>1, Zenon
<1>6. QED BY <1>3, <1>4, <1>5 DEF Justified

\* Every step keeps the exclusions explained by what outranks them.
LEMMA ScoreOrderStep ==
    ASSUME AllocatorInv, BudgetInv, ScoreInv, ExclusionsJustified, [Next]_vars
    PROVE  ExclusionsJustified'
<1> USE DEF AllocatorInv
<1>2. ASSUME batch' = batch, \A b \in ExcludedBlocks : OutrankedBy(b)' = OutrankedBy(b),
             NEW i \in DOMAIN excluded, NEW b, b = excluded[i].block, NEW r, r = excluded[i].reason
      PROVE  Justified(b, r)'
    <2>1. Justified(b, r) /\ b \in ExcludedBlocks
        BY <1>2 DEF ExclusionsJustified, ExcludedBlocks
    <2>2. QED BY <1>2, <2>1, JustifiedStays
<1>3. ASSUME UNCHANGED <<batch, excluded>>, \A b \in ExcludedBlocks : OutrankedBy(b)' = OutrankedBy(b)
      PROVE  ExclusionsJustified'
    <2>1. \A i \in DOMAIN excluded' : \A b, r :
             b = excluded'[i].block /\ r = excluded'[i].reason => Justified(b, r)'
        BY <1>2, <1>3
    <2>2. QED BY <2>1 DEF ExclusionsJustified
<1>4. CASE UNCHANGED <<batch, included, excluded>>
    <2>1. \A b : OutrankedBy(b)' = OutrankedBy(b)
        BY <1>4, NoDecisionEffect, ContentFixed DEF OutrankedBy
    <2>2. QED BY <1>3, <1>4, <2>1
<1>5. ASSUME NEW b \in Block, Step(b) PROVE ExclusionsJustified'
    <2>1. b \in todo /\ todo \in SUBSET Block
        BY <1>5, VisitedIsPending DEF TypeOK
    <2>2. CASE AllocateRequired(b) \/ AllocateMinimum(b)
        <3>1. phase \in {"required", "minimums"} /\ UNCHANGED <<batch, excluded>>
            BY <2>2 DEF AllocateRequired, AllocateMinimum, Include
        <3>2. ExcludedBlocks = {}
            BY <3>1 DEF ScoreInv
        <3>3. QED BY <1>3, <3>1, <3>2
    <2>3. CASE IncludeByScore(b)
        <3>1. /\ phase = "optional" /\ Include(b, "INCLUDED_SCORE_ORDER")
              /\ UNCHANGED <<batch, excluded>>
            BY <2>3 DEF IncludeByScore, Include
        <3>2. /\ IncludedBlocks' = IncludedBlocks \cup {b}
              /\ IncludedAs("INCLUDED_SCORE_ORDER")' = IncludedAs("INCLUDED_SCORE_ORDER") \cup {b}
            BY <3>1, IncludeEffect DEF IncludeReasons
        <3>3. ASSUME NEW e \in ExcludedBlocks PROVE OutrankedBy(e)' = OutrankedBy(e)
            <4>1. e \in Block
                BY DecisionsTyped
            <4>2. HigherScore(e, b) /\ b \notin IncludedBlocks
                BY <2>1, <3>1 DEF ScoreInv, DecisionInv
            <4>3. ~ HigherScore(b, e)
                BY <4>1, <4>2, ScoreOrder
            <4>4. \A a, x : HigherScore(a, x)' = HigherScore(a, x)
                BY <3>1, ContentFixed
            <4>5. QED BY <3>2, <4>2, <4>3, <4>4 DEF OutrankedBy
        <3>4. QED BY <1>3, <3>1, <3>3
    <2>4. CASE ExcludeAtMaximum(b) \/ ExcludeOverBudget(b)
        <3>1. PICK r \in ExcludeReasons :
                 /\ phase = "optional" /\ Exclude(b, r)
                 /\ r = "EXCLUDED_BUDGET_EXHAUSTED" => batch.tokens[b] > remaining
                 /\ r = "EXCLUDED_CATEGORY_MAXIMUM" => AtMaximum(b)
            BY <2>4 DEF ExcludeAtMaximum, ExcludeOverBudget, ExcludeReasons
        <3>2. Justified(b, r)
            BY <2>1, <3>1, ExclusionJustified
        <3>3. batch' = batch /\ \A x : OutrankedBy(x)' = OutrankedBy(x)
            <4>1. /\ IncludedBlocks' = IncludedBlocks
                  /\ IncludedAs("INCLUDED_SCORE_ORDER")' = IncludedAs("INCLUDED_SCORE_ORDER")
                  /\ batch' = batch
                BY <3>1, ExcludeEffect DEF Exclude
            <4>2. QED BY <4>1, ContentFixed DEF OutrankedBy
        <3>4. Justified(b, r)'
            BY <3>2, <3>3, JustifiedStays
        <3> DEFINE e == Len(excluded) + 1
        <3>5. /\ DOMAIN excluded' = DOMAIN excluded \cup {e}
              /\ \A i \in DOMAIN excluded : excluded'[i] = excluded[i]
            BY <3>1, ExcludeEffect
        <3>6. excluded'[e].block = b /\ excluded'[e].reason = r
            <4>1. excluded'[e] = [block |-> b, reason |-> r, remaining |-> remaining]
                BY <3>1 DEF TypeOK, Exclude
            <4>2. QED BY <4>1
        <3> HIDE DEF e
        <3>7. ASSUME NEW i \in DOMAIN excluded', NEW x, x = excluded'[i].block,
                     NEW y, y = excluded'[i].reason
              PROVE  Justified(x, y)'
            <4>1. CASE i \in DOMAIN excluded
                BY <1>2, <3>3, <3>5, <3>7, <4>1
            <4>2. CASE i = e
                BY <3>4, <3>6, <3>7, <4>2
            <4>3. QED BY <3>5, <3>7, <4>1, <4>2
        <3>8. QED BY <3>7 DEF ExclusionsJustified
    <2>5. CASE SkipProtected(b) \/ AppendEvictable(b) \/ RequiredOverflows(b) \/ MinimumOverflows(b)
        BY <1>4, <2>5 DEF SkipProtected, AppendEvictable, RequiredOverflows, MinimumOverflows, Throw
    <2>6. QED BY <1>5, <2>2, <2>3, <2>4, <2>5 DEF Step
<1>6. QED
    BY <1>4, <1>5, NextKinds
       DEF AcceptCounts, BeginMinimums, BeginOptional, BeginEviction, Enter, Reconcile, Throw, vars

ScoreContext == AllocatorInv /\ BudgetInv /\ ScoreInv /\ ExclusionsJustified

\* The invariants of the score order hold with those of the loops.
LEMMA ScoreContextHolds == Spec => []ScoreContext
<1>1. Init => BudgetInv /\ ScoreInv /\ ExclusionsJustified
    <2> SUFFICES ASSUME Init PROVE BudgetInv /\ ScoreInv /\ ExclusionsJustified
        OBVIOUS
    <2>1. excluded = <<>> /\ included = <<>> /\ phase = "counts"
        BY DEF Init
    <2>2. ScoreInv /\ ExclusionsJustified
        BY <2>1 DEF ScoreInv, ExclusionsJustified, ExcludedBlocks, IncludedAs
    <2>3. QED BY <2>2, BudgetInit
<1>2. AllocatorInv /\ (BudgetInv /\ ScoreInv /\ ExclusionsJustified) /\ [Next]_vars
         => (BudgetInv /\ ScoreInv /\ ExclusionsJustified)'
    BY BudgetStep, ScoreInvStep, ScoreOrderStep
<1>3. QED
    BY <1>1, <1>2, AllocatorInvHolds, PTL DEF Spec, ScoreContext

\* An exclusion for budget is explained by reserved and higher-ranked blocks
\* alone, and one for a maximum by blocks of its category that outrank it: no
\* candidate ever takes the place of one that ranks before it.
THEOREM ScoreOrderJustifiedHolds == Spec => []ScoreOrderJustified
<1>1. ScoreContext => ScoreOrderJustified
    BY DEF ScoreContext, ExclusionsJustified, Justified, ScoreOrderJustified
<1>2. QED
    BY <1>1, ScoreContextHolds, PTL

-----------------------------------------------------------------------------
(* The allocator implements its contract. *)

\* The categories that blocks of the batch declare are finitely many.
Declared == { batch.category[b] : b \in Block } \cap Category

\* The blocks of S that declare a category of D.
Within(S, D) == { b \in S : batch.category[b] \in D }

\* A selection that satisfies the policy holds, per category, at least as many
\* optional blocks as its minimum needs.
LEMMA ValidMeetsNeeds ==
    ASSUME TypeOK, NEW S \in SUBSET Block, PolicyValid(S), NEW c \in Category
    PROVE  Cardinality(InCategory(S \ Required, c)) >= Needed(c)
<1>1. Required \in SUBSET S /\ S \ Required \in SUBSET Block /\ Required \in SUBSET Block
    BY PicksAreOptional DEF PolicyValid
<1>2. CountIn(Required \cup (S \ Required), c)
         = CountIn(Required, c) + CountIn(S \ Required, c)
    BY <1>1, CountUnion
<1>3. Required \cup (S \ Required) = S
    BY <1>1
<1>4. CountIn(Required \cup (S \ Required), c) = CountIn(S, c)
    BY <1>3, Zenon
<1>5. CountIn(S, c) >= batch.minBlocks[c]
    BY DEF PolicyValid, MeetsMinimums
<1>6. /\ CountIn(S, c) \in Nat /\ CountIn(Required, c) \in Nat /\ CountIn(S \ Required, c) \in Nat
      /\ batch.minBlocks[c] \in Nat
    BY <1>1, CountIsNat, BatchFacts DEF TypeOK
<1>7. CountIn(S \ Required, c) >= Needed(c)
    BY <1>2, <1>4, <1>5, <1>6 DEF Needed
<1>8. QED BY <1>7 DEF CountIn

\* No selection that satisfies the policy costs less than what the allocator
\* reserves: the required blocks and the cheapest ones the minimums need.
LEMMA ReservedIsCheapest ==
    ASSUME TypeOK, NEW S \in SUBSET Block, PolicyValid(S)
    PROVE  ContentTokens(Reserved) <= ContentTokens(S)
<1> DEFINE O == S \ Required
           M == MinimumPicks
           G == { D \in SUBSET Declared : ContentTokens(Within(M, D)) <= ContentTokens(Within(O, D)) }
<1>1. /\ batch \in Batches /\ Required \in SUBSET Block /\ Optional = Block \ Required
      /\ M \in SUBSET Optional /\ O \in SUBSET Optional /\ Required \subseteq S
      /\ batch.category \in [Block -> Category \cup {NoCategory}]
    BY PicksAreOptional, BatchFacts DEF TypeOK, PolicyValid
<1>2. IsFiniteSet(Declared)
    <2> DEFINE T == { batch.category[b] : b \in Block }
               f == [b \in Block |-> batch.category[b]]
    <2>1. f \in Surjection(Block, T)
        <3>1. f \in [Block -> T] /\ \A t \in T : \E b \in Block : f[b] = t
            OBVIOUS
        <3> HIDE DEF f, T
        <3>2. QED BY <3>1, Fun_IsSurj
    <2>2. IsFiniteSet(T)
        <3> HIDE DEF f, T
        <3>1. QED BY <2>1, BlockAssumption, FS_Surjection
    <2>3. Declared \in SUBSET T
        BY DEF Declared
    <2>4. QED BY <2>2, <2>3, FS_Subset
<1>3. {} \in G
    <2>1. Within(M, {}) = {} /\ Within(O, {}) = {}
        BY DEF Within
    <2>2. ContentTokens(Within(M, {})) = ContentTokens({}) /\ ContentTokens(Within(O, {})) = ContentTokens({})
        BY <2>1, Zenon
    <2>3. ContentTokens({}) \in Nat
        BY <1>1, ContentFacts
    <2>4. QED BY <2>2, <2>3
<1>4. ASSUME NEW D \in G, NEW c \in Declared \ D PROVE D \cup {c} \in G
    <2>1. /\ D \in SUBSET Declared /\ c \in Category
          /\ ContentTokens(Within(M, D)) <= ContentTokens(Within(O, D))
        BY <1>4 DEF Declared
    <2>2. /\ Within(M, D \cup {c}) = Within(M, D) \cup InCategory(M, c)
          /\ Within(O, D \cup {c}) = Within(O, D) \cup InCategory(O, c)
          /\ Within(M, D) \cap InCategory(M, c) = {} /\ Within(O, D) \cap InCategory(O, c) = {}
          /\ Within(M, D) \in SUBSET Block /\ InCategory(M, c) \in SUBSET Block
          /\ Within(O, D) \in SUBSET Block /\ InCategory(O, c) \in SUBSET Block
        BY <1>1, <1>4 DEF Within, InCategory
    <2>3. InCategory(M, c) = CheapestFor(c)
        <3>1. \A d \in Category : CheapestFor(d) \subseteq InCategory(Optional, d)
            BY <1>1, CheapestForCount
        <3>2. QED BY <2>1, <3>1 DEF MinimumPicks, InCategory
    <2>4. ContentTokens(InCategory(M, c)) <= ContentTokens(InCategory(O, c))
        <3>1. InCategory(O, c) \in SUBSET InCategory(Optional, c)
            BY <1>1 DEF InCategory
        <3>2. Cardinality(InCategory(O, c)) >= Needed(c)
            BY <2>1, ValidMeetsNeeds
        <3>3. ContentTokens(CheapestFor(c)) <= ContentTokens(InCategory(O, c))
            BY <1>1, <2>1, <3>1, <3>2, CheapestIsCheapest
        <3>4. ContentTokens(InCategory(M, c)) = ContentTokens(CheapestFor(c))
            BY <2>3, Zenon
        <3>5. QED BY <3>3, <3>4
    <2> HIDE DEF M, O
    <2>5. /\ ContentTokens(Within(M, D \cup {c}))
                = ContentTokens(Within(M, D)) + ContentTokens(InCategory(M, c))
          /\ ContentTokens(Within(O, D \cup {c}))
                = ContentTokens(Within(O, D)) + ContentTokens(InCategory(O, c))
        <3>1. /\ ContentTokens(Within(M, D \cup {c}))
                    = ContentTokens(Within(M, D) \cup InCategory(M, c))
              /\ ContentTokens(Within(O, D \cup {c}))
                    = ContentTokens(Within(O, D) \cup InCategory(O, c))
            BY <2>2, Zenon
        <3>2. QED BY <1>1, <2>2, <3>1, ContentUnion
    <2>6. /\ ContentTokens(Within(M, D)) \in Nat /\ ContentTokens(InCategory(M, c)) \in Nat
          /\ ContentTokens(Within(O, D)) \in Nat /\ ContentTokens(InCategory(O, c)) \in Nat
        BY <1>1, <2>2, ContentFacts
    <2>7. ContentTokens(Within(M, D \cup {c})) <= ContentTokens(Within(O, D \cup {c}))
        BY <2>1, <2>4, <2>5, <2>6
    <2>8. QED BY <1>4, <2>1, <2>7
<1>5. Declared \in G
    <2>1. G \in SUBSET SUBSET Declared
        OBVIOUS
    <2> HIDE DEF G
    <2>2. QED BY <1>2, <1>3, <1>4, <2>1, SubsetInduction
<1>6. Within(M, Declared) = M /\ Within(O, Declared) \in SUBSET O
    <2>1. \A b \in M : batch.category[b] \in Category
        <3>1. \A d \in Category : CheapestFor(d) \subseteq InCategory(Optional, d)
            BY <1>1, CheapestForCount
        <3>2. QED BY <3>1 DEF MinimumPicks, InCategory
    <2>2. QED BY <1>1, <2>1 DEF Within, Declared
<1>7. ContentTokens(M) <= ContentTokens(O)
    <2>1. ContentTokens(Within(M, Declared)) <= ContentTokens(Within(O, Declared))
        BY <1>5
    <2>2. ContentTokens(Within(M, Declared)) = ContentTokens(M)
        BY <1>6, Zenon
    <2>3. M \in SUBSET Block /\ O \in SUBSET Block
        BY <1>1
    <2> HIDE DEF M, O
    <2>4. Within(O, Declared) \in SUBSET Block
        BY <1>6, <2>3
    <2>5. /\ ContentTokens(Within(O, Declared)) <= ContentTokens(O)
          /\ ContentTokens(Within(O, Declared)) \in Nat /\ ContentTokens(O) \in Nat
          /\ ContentTokens(M) \in Nat
        BY <1>1, <1>6, <2>3, <2>4, ContentFacts
    <2>6. QED BY <2>1, <2>2, <2>5
<1>8. /\ ContentTokens(Required \cup M) = ContentTokens(Required) + ContentTokens(M)
      /\ ContentTokens(Required \cup O) = ContentTokens(Required) + ContentTokens(O)
      /\ ContentTokens(Required) \in Nat /\ ContentTokens(M) \in Nat /\ ContentTokens(O) \in Nat
    <2>1. M \in SUBSET Block /\ O \in SUBSET Block /\ Required \cap M = {} /\ Required \cap O = {}
        BY <1>1
    <2> HIDE DEF M, O
    <2>2. QED BY <1>1, <2>1, ContentUnion, ContentFacts
<1>9. ContentTokens(Required \cup M) = ContentTokens(Reserved) /\ ContentTokens(Required \cup O) = ContentTokens(S)
    <2>1. Required \cup O = S
        BY <1>1
    <2>2. QED BY <2>1, Zenon DEF Reserved
<1>10. QED
    <2> HIDE DEF M, O
    <2>1. QED BY <1>7, <1>8, <1>9

\* A batch whose counts are impossible has no selection that satisfies the policy.
LEMMA CountsRefuse ==
    ASSUME TypeOK, CountIssues # {}
    PROVE  Feasible = {}
<1> SUFFICES ASSUME NEW S \in Feasible PROVE FALSE
    OBVIOUS
<1>1. S \in SUBSET Block /\ PolicyValid(S) /\ Required \in SUBSET S /\ batch \in Batches
    BY DEF Feasible, PolicyValid, TypeOK
<1>2. PICK c \in Category : \/ CountIn(Required, c) > batch.maxBlocks[c]
                            \/ CountIn(Optional, c) < Needed(c)
    BY DEF CountIssues
<1>3. /\ CountIn(Required, c) \in Nat /\ CountIn(Optional, c) \in Nat /\ CountIn(S, c) \in Nat
      /\ batch.maxBlocks[c] \in Nat /\ Needed(c) \in Nat
      /\ Required \in SUBSET Block /\ Optional = Block \ Required
    BY <1>1, CountIsNat, BatchFacts, CheapestForCount, PicksAreOptional
<1>4. CASE CountIn(Required, c) > batch.maxBlocks[c]
    <2>1. CountIn(Required, c) <= CountIn(S, c)
        BY <1>1, CountMonotone
    <2>2. CountIn(S, c) <= batch.maxBlocks[c]
        BY <1>1 DEF PolicyValid, MeetsMaximums
    <2>3. QED BY <1>3, <1>4, <2>1, <2>2
<1>5. CASE CountIn(Optional, c) < Needed(c)
    <2>1. S \ Required \in SUBSET Optional /\ S \ Required \in SUBSET Block /\ Optional \in SUBSET Block
        BY <1>1, <1>3
    <2>2. CountIn(S \ Required, c) >= Needed(c)
        BY <1>1, ValidMeetsNeeds DEF CountIn
    <2>3. CountIn(S \ Required, c) <= CountIn(Optional, c)
        BY <2>1, CountMonotone
    <2>4. CountIn(S \ Required, c) \in Nat
        BY <2>1, CountIsNat
    <2>5. QED BY <1>3, <1>5, <2>2, <2>3, <2>4
<1>6. QED BY <1>2, <1>4, <1>5

\* A reserved block that no longer fits leaves nothing feasible: the reserved
\* blocks are the cheapest selection there is.
LEMMA OverflowRefuses ==
    ASSUME AllocatorInv, BudgetInv, NEW b \in Block \ IncludedBlocks,
           IncludedBlocks \cup {b} \in SUBSET Reserved, batch.tokens[b] > remaining
    PROVE  Feasible = {}
<1> SUFFICES ASSUME NEW S \in Feasible PROVE FALSE
    OBVIOUS
<1>1. /\ S \in SUBSET Block /\ PolicyValid(S) /\ ContentTokens(S) <= batch.available
      /\ batch \in Batches /\ IncludedBlocks \in SUBSET Block /\ Reserved \in SUBSET Block
    BY DecisionsTyped, PicksAreOptional DEF Feasible, AllocatorInv, TypeOK, Reserved
<1>2. ContentTokens(Reserved) <= ContentTokens(S)
    BY <1>1, ReservedIsCheapest DEF AllocatorInv
<1>3. /\ ContentTokens(IncludedBlocks \cup {b}) = ContentTokens(IncludedBlocks) + batch.tokens[b]
      /\ ContentTokens(IncludedBlocks \cup {b}) <= ContentTokens(Reserved)
    BY <1>1, ContentFacts
<1>4. /\ ContentTokens(IncludedBlocks) \in Nat /\ ContentTokens(Reserved) \in Nat
      /\ ContentTokens(S) \in Nat /\ batch.tokens[b] \in Nat /\ remaining \in Nat
      /\ batch.available \in Nat
    BY <1>1, ContentFacts, BatchFacts DEF AllocatorInv, TypeOK
<1>5. ContentTokens(IncludedBlocks) + remaining = batch.available
    BY DEF BudgetInv
<1>6. QED BY <1>1, <1>2, <1>3, <1>4, <1>5

\* allocate() throws only for a batch nothing can satisfy.
LEMMA RefusalIsRight ==
    ASSUME AllocatorInv, BudgetInv,
           \/ RejectCounts
           \/ \E b \in Block : RequiredOverflows(b) \/ MinimumOverflows(b)
    PROVE  Feasible = {}
<1> USE DEF AllocatorInv
<1>1. CASE RejectCounts
    BY <1>1, CountsRefuse DEF RejectCounts
<1>2. ASSUME NEW b \in Block, RequiredOverflows(b) \/ MinimumOverflows(b)
      PROVE  Feasible = {}
    <2>1. phase \in {"required", "minimums"} /\ b \in todo /\ batch.tokens[b] > remaining
        BY <1>2 DEF RequiredOverflows, MinimumOverflows, NextRequired, NextMinimum, IsFirst
    <2>2. IncludedBlocks \cup {b} \in SUBSET Reserved /\ b \notin IncludedBlocks
        BY <2>1 DEF LoopInv, DecisionInv, Reserved
    <2>3. QED BY <2>1, <2>2, OverflowRefuses
<1>3. QED BY <1>1, <1>2

\* A list of decisions about different blocks is as long as the set of them.
LEMMA DecisionsCount ==
    ASSUME NEW T, NEW s \in Seq(T), \A i, j \in DOMAIN s : s[i].block = s[j].block => i = j
    PROVE  Cardinality({ s[i].block : i \in DOMAIN s }) = Len(s)
<1> DEFINE B == { s[i].block : i \in DOMAIN s }
           f == [i \in 1..Len(s) |-> s[i].block]
<1>1. Len(s) \in Nat /\ DOMAIN s = 1..Len(s)
    OBVIOUS
<1>2. f \in Bijection(1..Len(s), B)
    <2>1. f \in [1..Len(s) -> B] /\ (\A i, j \in 1..Len(s) : f[i] = f[j] => i = j)
        BY <1>1
    <2>2. \A x \in B : \E i \in 1..Len(s) : f[i] = x
        BY <1>1
    <2> HIDE DEF f, B
    <2>3. f \in Injection(1..Len(s), B) /\ f \in Surjection(1..Len(s), B)
        BY <2>1, <2>2, Fun_IsInj, Fun_IsSurj
    <2>4. QED BY <2>3 DEF Bijection
<1>3. IsFiniteSet(1..Len(s)) /\ Cardinality(1..Len(s)) = Len(s)
    BY <1>1, FS_Interval
<1>4. QED
    <2> HIDE DEF f
    <2>1. QED BY <1>2, <1>3, FS_Bijection DEF ExistsBijection

\* reconcile never finds a disagreement, so its error is unreachable.
LEMMA ReconcileSucceeds ==
    ASSUME AllocatorInv, BudgetInv, phase = "evict"
    PROVE  Reconciled
<1> USE DEF AllocatorInv
<1>1. IncludedBlocks \cup ExcludedBlocks = Block /\ IncludedBlocks \cap ExcludedBlocks = {}
    BY DEF LoopInv, DecisionInv
<1>2. Cardinality(IncludedBlocks) = Len(included) /\ Cardinality(ExcludedBlocks) = Len(excluded)
    BY DecisionsCount DEF TypeOK, DecisionInv, IncludedBlocks, ExcludedBlocks
<1>3. IsFiniteSet(IncludedBlocks) /\ IsFiniteSet(ExcludedBlocks) /\ IncludedBlocks \in SUBSET Block
    BY DecisionsTyped, BlockAssumption, FS_Subset
<1>4. Cardinality(IncludedBlocks \cup ExcludedBlocks) = Len(included) + Len(excluded)
    BY <1>1, <1>2, <1>3, DisjointCount
<1>5. Cardinality(Block) = Len(included) + Len(excluded)
    BY <1>1, <1>4, Zenon
<1>6. /\ ContentTokens(IncludedBlocks) \in Nat /\ remaining \in Nat
      /\ ContentTokens(IncludedBlocks) + remaining = batch.available
    BY <1>3, ContentFacts DEF TypeOK, BudgetInv
<1>7. /\ ContentTokens(IncludedBlocks) = batch.available - remaining
      /\ ContentTokens(IncludedBlocks) <= batch.available
    BY <1>6
<1>8. QED BY <1>1, <1>5, <1>7 DEF Reconciled

\* What allocate() returns satisfies the policy within the budget, and nothing
\* it left out could join.
LEMMA AllocationIsRight ==
    ASSUME ScoreContext, phase = "evict"
    PROVE  IncludedBlocks \in Feasible /\ \A b \in Block \ IncludedBlocks : CannotJoin(b, IncludedBlocks)
<1> USE DEF ScoreContext, AllocatorInv
<1>1. Reconciled /\ CategoryLimits /\ IncludedBlocks \in SUBSET Block /\ batch \in Batches
    BY ReconcileSucceeds, LimitsFollow, DecisionsTyped DEF TypeOK
<1>2. PolicyValid(IncludedBlocks)
    BY <1>1 DEF CategoryLimits, PolicyValid, LoopInv, Reserved
<1>3. IncludedBlocks \in Feasible
    BY <1>1, <1>2 DEF Feasible, Reconciled
<1>4. ASSUME NEW b \in Block \ IncludedBlocks PROVE CannotJoin(b, IncludedBlocks)
    <2>1. PICK i \in DOMAIN excluded : b = excluded[i].block
        BY <1>4 DEF LoopInv, ExcludedBlocks
    <2>2. excluded[i].reason \in ExcludeReasons
        BY DecisionsTyped DEF Exclusion
    <2>3. Justified(b, excluded[i].reason)
        BY <2>1 DEF ExclusionsJustified
    <2>4. OutrankedBy(b) \in SUBSET IncludedBlocks
        BY DEF OutrankedBy
    <2>5. CASE excluded[i].reason = "EXCLUDED_BUDGET_EXHAUSTED"
        <3>1. ContentTokens(OutrankedBy(b)) + batch.tokens[b] > batch.available
            BY <2>3, <2>5 DEF Justified
        <3>2. /\ ContentTokens(OutrankedBy(b)) <= ContentTokens(IncludedBlocks)
              /\ ContentTokens(IncludedBlocks \cup {b})
                    = ContentTokens(IncludedBlocks) + batch.tokens[b]
            BY <1>1, <2>4, ContentFacts
        <3>3. OutrankedBy(b) \in SUBSET Block
            BY <1>1, <2>4
        <3>4. /\ ContentTokens(OutrankedBy(b)) \in Nat /\ ContentTokens(IncludedBlocks) \in Nat
              /\ batch.tokens[b] \in Nat /\ batch.available \in Nat
            BY <1>1, <3>3, ContentFacts, BatchFacts
        <3>5. ContentTokens(IncludedBlocks \cup {b}) > batch.available
            BY <3>1, <3>2, <3>4
        <3>6. QED BY <3>5 DEF CannotJoin
    <2>6. CASE excluded[i].reason = "EXCLUDED_CATEGORY_MAXIMUM"
        <3> DEFINE c == batch.category[b]
        <3>1. CountIn(OutrankedBy(b), c) = batch.maxBlocks[c]
            BY <2>3, <2>6 DEF Justified
        <3>2. CountIn(OutrankedBy(b), c) <= CountIn(IncludedBlocks, c)
            BY <1>1, <2>4, CountMonotone
        <3>3. CountIn(IncludedBlocks \cup {b}, c) = CountIn(IncludedBlocks, c) + 1
            BY <1>1, <1>4, CountAdd
        <3>4. /\ c \in Category /\ CountIn(IncludedBlocks, c) \in Nat
              /\ CountIn(OutrankedBy(b), c) \in Nat /\ batch.maxBlocks[c] \in Nat
            <4>1. c \in Category /\ OutrankedBy(b) \in SUBSET Block
                BY <1>1, <2>3, <2>4, <2>6 DEF Justified
            <4>2. QED BY <1>1, <4>1, CountIsNat, BatchFacts
        <3> HIDE DEF c
        <3>5. ~ (CountIn(IncludedBlocks \cup {b}, c) <= batch.maxBlocks[c])
            BY <3>1, <3>2, <3>3, <3>4
        <3>6. QED BY <3>4, <3>5 DEF CannotJoin, MeetsMaximums
    <2>7. QED BY <2>2, <2>5, <2>6 DEF ExcludeReasons
<1>5. QED BY <1>3, <1>4

\* The contract's operators are the allocator's, on the same batch.
LEMMA ContractTerms ==
    /\ Contract!Feasible = Feasible
    /\ \A b, S : Contract!CannotJoin(b, S) <=> CannotJoin(b, S)
<1>1. \A S : Contract!ContentTokens(S) = ContentTokens(S)
    BY DEF Contract!ContentTokens, Contract!TokenSum, Contract!MapThenSumSet,
           Contract!MapThenFoldSet, ContentTokens, TokenSum, MapThenSumSet, MapThenFoldSet
<1>2. \A S, c : Contract!CountIn(S, c) = CountIn(S, c)
    BY DEF Contract!CountIn, Contract!InCategory, Contract!Cardinality, CountIn, InCategory, Cardinality
<1>3. \A S : /\ Contract!MeetsMaximums(S) <=> MeetsMaximums(S)
             /\ Contract!MeetsMinimums(S) <=> MeetsMinimums(S)
    BY <1>2 DEF Contract!MeetsMaximums, MeetsMaximums, Contract!MeetsMinimums, MeetsMinimums
<1>4. \A S : Contract!PolicyValid(S) <=> PolicyValid(S)
    BY <1>3 DEF Contract!PolicyValid, PolicyValid, Contract!Required, Required
<1>5. QED
    BY <1>1, <1>3, <1>4 DEF Contract!Feasible, Feasible, Contract!CannotJoin, CannotJoin

\* What allocate() decided, as its contract sees it.
Verdict == CASE phase = "done"   -> "allocated"
             [] phase = "failed" -> "refused"
             [] OTHER            -> "pending"
Selected == IF phase = "done" THEN IncludedBlocks ELSE {}

\* One step of the allocator is one step of the contract, or none.
LEMMA ContractStep ==
    ASSUME ScoreContext, [Next]_vars
    PROVE  [Contract!Next]_<<batch, Verdict, Selected>>
<1> USE DEF ScoreContext
<1>1. CASE UNCHANGED <<batch, phase, included>>
    BY <1>1 DEF Verdict, Selected, IncludedBlocks
<1>2. CASE batch' = batch /\ phase \notin {"done", "failed"} /\ phase' \notin {"done", "failed"}
    BY <1>2 DEF Verdict, Selected
<1>3. CASE /\ batch' = batch /\ phase \notin {"done", "failed"} /\ phase' = "failed"
           /\ Feasible = {}
    <2>1. Verdict = "pending" /\ Verdict' = "refused" /\ Selected' = Selected
        BY <1>3 DEF Verdict, Selected
    <2>2. Contract!Refuse
        BY <1>3, <2>1, ContractTerms DEF Contract!Refuse, Verdict, Selected
    <2>3. QED BY <2>2 DEF Contract!Next
<1>4. CASE Reconcile
    <2>1. /\ phase = "evict" /\ phase' = "done" /\ UNCHANGED <<batch, included>>
        BY <1>4, ReconcileSucceeds DEF Reconcile
    <2>2. /\ IncludedBlocks \in Feasible
          /\ \A b \in Block \ IncludedBlocks : CannotJoin(b, IncludedBlocks)
        BY <2>1, AllocationIsRight
    <2>3. Verdict = "pending" /\ Verdict' = "allocated" /\ Selected' = IncludedBlocks
        BY <2>1 DEF Verdict, Selected, IncludedBlocks
    <2>4. Contract!Allocate(IncludedBlocks)
        BY <2>1, <2>2, <2>3, ContractTerms DEF Contract!Allocate, Verdict, Selected
    <2>5. QED BY <2>2, <2>4, ContractTerms DEF Contract!Next
<1>5. CASE RejectCounts
    BY <1>3, <1>5, RefusalIsRight DEF RejectCounts, Throw
<1>6. CASE AcceptCounts \/ BeginMinimums \/ BeginOptional \/ BeginEviction
    BY <1>2, <1>6 DEF AcceptCounts, BeginMinimums, BeginOptional, BeginEviction, Enter
<1>7. ASSUME NEW b \in Block, Step(b) PROVE [Contract!Next]_<<batch, Verdict, Selected>>
    <2>1. CASE RequiredOverflows(b) \/ MinimumOverflows(b)
        BY <1>3, <2>1, RefusalIsRight DEF RequiredOverflows, MinimumOverflows, Throw
    <2>2. CASE \/ AllocateRequired(b) \/ AllocateMinimum(b) \/ IncludeByScore(b)
               \/ ExcludeAtMaximum(b) \/ ExcludeOverBudget(b)
        BY <1>2, <2>2 DEF AllocateRequired, AllocateMinimum, IncludeByScore, ExcludeAtMaximum,
                          ExcludeOverBudget, Include, Exclude
    <2>3. CASE SkipProtected(b) \/ AppendEvictable(b)
        BY <1>1, <2>3 DEF SkipProtected, AppendEvictable
    <2>4. QED BY <1>7, <2>1, <2>2, <2>3 DEF Step
<1>8. CASE UNCHANGED vars
    BY <1>1, <1>8 DEF vars
<1>9. QED
    BY <1>4, <1>5, <1>6, <1>7, <1>8 DEF Next

\* allocate() refuses a batch exactly when no selection satisfies the policy
\* within the content budget, and otherwise returns a selection that does and
\* that no left-out block could join: every step is a step of the contract.
THEOREM AllocatorImplementsContract == Spec => ImplementsContract
<1>1. Init => Contract!Init
    BY DEF Init, Contract!Init
<1>2. ScoreContext /\ [Next]_vars => [Contract!Next]_<<batch, Verdict, Selected>>
    BY ContractStep
<1>3. QED
    BY <1>1, <1>2, ScoreContextHolds, PTL
       DEF Spec, ImplementsContract, Contract!Spec, Verdict, Selected

-----------------------------------------------------------------------------
(* The roles the allocator gives its inclusions. *)

\* Once the minimums are charged, the blocks included for them and the required
\* ones are those the batch names.
RolesInv ==
    phase \in {"optional", "evict", "done"} =>
        /\ IncludedAs("INCLUDED_REQUIRED") = Required
        /\ IncludedAs("INCLUDED_CATEGORY_MINIMUM") = MinimumPicks

\* No step after the minimums changes who was included for what.
LEMMA RolesStep ==
    ASSUME TypeOK, LoopInv, RolesInv, [Next]_vars
    PROVE  RolesInv'
<1>1. ASSUME NEW b \in Block, Step(b) PROVE RolesInv'
    <2>1. CASE AllocateRequired(b)
        BY <2>1 DEF AllocateRequired, Include, RolesInv
    <2>2. CASE AllocateMinimum(b)
        BY <2>2 DEF AllocateMinimum, Include, RolesInv
    <2>3. CASE IncludeByScore(b)
        <3>1. /\ Include(b, "INCLUDED_SCORE_ORDER") /\ phase = "optional"
              /\ UNCHANGED <<batch, phase>>
            BY <2>3 DEF IncludeByScore, Include
        <3>2. \A x \in IncludeReasons \ {"INCLUDED_SCORE_ORDER"} : IncludedAs(x)' = IncludedAs(x)
            BY <3>1, IncludeEffect DEF IncludeReasons
        <3>3. QED BY <3>1, <3>2, BatchFixed DEF RolesInv, IncludeReasons
    <2>4. CASE ExcludeAtMaximum(b) \/ ExcludeOverBudget(b) \/ SkipProtected(b)
                  \/ AppendEvictable(b)
        <3>1. UNCHANGED <<batch, phase, included>>
            BY <2>4 DEF ExcludeAtMaximum, ExcludeOverBudget, Exclude, SkipProtected,
                        AppendEvictable
        <3>2. QED BY <3>1, BatchFixed DEF RolesInv, IncludedAs
    <2>5. CASE RequiredOverflows(b) \/ MinimumOverflows(b)
        BY <2>5 DEF RequiredOverflows, MinimumOverflows, Throw, RolesInv
    <2>6. QED BY <1>1, <2>1, <2>2, <2>3, <2>4, <2>5 DEF Step
<1>2. CASE AcceptCounts \/ BeginMinimums
    BY <1>2 DEF AcceptCounts, BeginMinimums, Enter, RolesInv
<1>3. CASE BeginOptional
    <2>1. /\ phase = "minimums" /\ todo = {} /\ UNCHANGED <<batch, included, excluded>>
        BY <1>3 DEF BeginOptional, Enter
    <2>2. QED BY <2>1, NoDecisionEffect, BatchFixed DEF LoopInv, RolesInv
<1>4. CASE BeginEviction \/ Reconcile
    <2>1. /\ phase \in {"optional", "evict"} /\ UNCHANGED <<batch, included, excluded>>
        BY <1>4 DEF BeginEviction, Enter, Reconcile
    <2>2. QED BY <2>1, NoDecisionEffect, BatchFixed DEF RolesInv
<1>5. CASE \E codes \in SUBSET IssueCodes : Throw(codes)
    BY <1>5 DEF Throw, RolesInv
<1>6. CASE UNCHANGED vars
    <2>1. UNCHANGED <<batch, phase, included, excluded>>
        BY <1>6 DEF vars
    <2>2. QED BY <2>1, NoDecisionEffect, BatchFixed DEF RolesInv
<1>7. QED BY <1>1, <1>2, <1>3, <1>4, <1>5, <1>6, NextKinds

\* The roles hold throughout an allocation.
LEMMA RolesHold == Spec => []RolesInv
<1>1. Init => RolesInv
    BY DEF Init, RolesInv
<1>2. AllocatorInv => TypeOK /\ LoopInv
    BY DEF AllocatorInv
<1>3. TypeOK /\ LoopInv /\ RolesInv /\ [Next]_vars => RolesInv'
    BY RolesStep
<1>4. QED
    BY <1>1, <1>2, <1>3, AllocatorInvHolds, PTL DEF Spec

\* What the minimums pick holds exactly what each of them needs.
LEMMA PicksMeetNeeds ==
    ASSUME TypeOK, CountIssues = {}, NEW c \in Category
    PROVE  InCategory(MinimumPicks, c) = CheapestFor(c) /\ CountIn(MinimumPicks, c) = Needed(c)
<1>1. \A d \in Category : CheapestFor(d) \subseteq InCategory(Optional, d)
    BY CheapestForCount DEF TypeOK
<1>2. InCategory(MinimumPicks, c) = CheapestFor(c)
    BY <1>1 DEF MinimumPicks, InCategory
<1>3. Optional \in SUBSET Block
    BY PicksAreOptional
<1>4. CountIn(Optional, c) \in Nat /\ Needed(c) \in Nat
    BY <1>3, CountIsNat, CheapestForCount DEF TypeOK
<1>5. ~ (CountIn(Optional, c) < Needed(c))
    BY DEF CountIssues
<1>6. CountIn(Optional, c) >= Needed(c)
    BY <1>4, <1>5
<1>7. Cardinality(CheapestFor(c)) = Needed(c)
    BY <1>6, CheapestForCount DEF TypeOK
<1>8. CountIn(MinimumPicks, c) = Cardinality(CheapestFor(c))
    BY <1>2, Zenon DEF CountIn
<1>9. QED BY <1>2, <1>7, <1>8

-----------------------------------------------------------------------------
(* The compilation.                                                        *)

\* The search relies on an allocation that is done, and each of its phases
\* starts from the failure of the one before it.
SearchInv ==
    /\ stage # "allocation" => phase = "done" /\ evicted <= Len(eviction)
    /\ stage = "allocation" => evicted = 0 /\ visited = {} /\ failure = "none"
    /\ stage = "eviction" =>
          visited = {} /\ \A n \in 0..evicted : Rejected(Kept(n))
    /\ stage = "hard-base" =>
          /\ pending \subseteq HardBases
          /\ \A S \in HardBases : S \in pending \/ Rejected(S)
          /\ \A n \in 0..Len(eviction) : Rejected(Kept(n))
    /\ stage = "rescue" =>
          /\ pending \subseteq RescueSelections
          /\ \A S \in RescueSelections : S \in pending \/ Rejected(S)
          /\ \A S \in HardBases : Rejected(S)
          /\ \A n \in 0..Len(eviction) : Rejected(Kept(n))
    /\ stage \in {"result", "settled"} => chosen \in Selection /\ PolicyValid(chosen)
    /\ Cardinality(visited) <= limit

\* What the search may assume of the allocation while it runs.
AllocationInv == TypeOK /\ CategoryLimits /\ EvictionPrefixSafe

-----------------------------------------------------------------------------
(* The allocator runs unchanged inside the compilation. *)

\* Every behaviour of a compilation is one of the allocator, so everything
\* proved of BudgetAllocator holds while the search runs.
THEOREM CompilationRunsAllocator == CompileSpec => Spec
<1>1. CompileInit => Init
    BY DEF CompileInit
<1>2. [CompileNext]_<<vars, searchVars>> => [Next]_vars
    BY DEF CompileNext, Allocation, Correction
<1>3. QED
    BY <1>1, <1>2, PTL DEF CompileSpec, Spec

\* The allocator's invariants hold while the search runs.
LEMMA AllocationInvHolds == CompileSpec => []AllocationInv
    BY CompilationRunsAllocator, TypeCorrect, CategoryLimitsHold, EvictionPrefixSafeHolds, PTL
       DEF AllocationInv

-----------------------------------------------------------------------------
(* What the steps of the search do to the cache and the visited set. *)

\* What is derived from the batch alone does not change.
LEMMA BatchFixedSearch ==
    ASSUME batch' = batch
    PROVE  /\ \A S : OverCeiling(S)' = OverCeiling(S)
           /\ \A S : PolicyValid(S)' = PolicyValid(S)
           /\ RescueSelections' = RescueSelections
           /\ HardBases' = HardBases
<1>1. \A S : OverCeiling(S)' = OverCeiling(S)
    BY DEF OverCeiling, ContentTokens
<1>2. \A S : PolicyValid(S)' = PolicyValid(S)
    BY BatchFixed DEF PolicyValid, MeetsMinimums, MeetsMaximums
<1>3. RescueSelections' = RescueSelections
    BY DEF RescueSelections, PolicyValid, MeetsMinimums, MeetsMaximums, CountIn, InCategory,
           Required
<1>4. HardBases' = HardBases
    BY DEF HardBases, CountIn, InCategory, Required, Needed
<1>5. QED BY <1>1, <1>2, <1>3, <1>4

\* A measurement is remembered and replaces none.
LEMMA MeasureEffect ==
    ASSUME SearchTypeOK, NEW S \in Selection, NEW verdict, Measure(S, verdict)
    PROVE  /\ measured' \in [Selection -> Verdicts]
           /\ calls' \in Nat
           /\ verdict \in {"fits", "over", "error"}
           /\ \A T \in Selection : measured[T] # "unmeasured" => measured'[T] = measured[T]
           /\ verdict # "error" => measured'[S] = verdict
    BY DEF SearchTypeOK, Measure, Verdicts

\* The selections the phases start from are sets of blocks.
LEMMA SelectionsTyped ==
    ASSUME TypeOK
    PROVE  /\ Required \in Selection /\ IncludedBlocks \in Selection
           /\ \A n \in Nat : Kept(n) \in Selection
    BY PicksAreOptional, DecisionsTyped DEF Selection, Kept

\* There are finitely many selections.
LEMMA SelectionsFinite ==
    IsFiniteSet(Selection) /\ (\A V \in SUBSET Selection : IsFiniteSet(V))
    BY BlockAssumption, FS_SUBSET, FS_Subset DEF Selection

\* A visit records its selection and rules it out by its content or its render.
LEMMA VisitEffect ==
    ASSUME SearchTypeOK, NEW S \in Selection, NEW verdict, Visit(S, verdict)
    PROVE  /\ measured' \in [Selection -> Verdicts]
           /\ calls' \in Nat
           /\ visited' = visited \cup {S}
           /\ verdict \in {"fits", "over", "error", "ceiling"}
           /\ \A T \in Selection : measured[T] # "unmeasured" => measured'[T] = measured[T]
           /\ verdict \in {"fits", "over"} => measured'[S] = verdict
           /\ verdict = "ceiling" => OverCeiling(S)
<1>1. CASE OverCeiling(S)
    BY <1>1 DEF Visit, SearchTypeOK
<1>2. CASE ~ OverCeiling(S)
    <2>1. Measure(S, verdict) /\ verdict # "ceiling" /\ visited' = visited \cup {S}
        BY <1>2 DEF Visit
    <2>2. QED BY <2>1, MeasureEffect
<1>3. QED BY <1>1, <1>2

\* What was ruled out stays ruled out: the cache only grows.
LEMMA RejectedStays ==
    ASSUME batch' = batch,
           \A T \in Selection : measured[T] # "unmeasured" => measured'[T] = measured[T],
           NEW S \in Selection, Rejected(S)
    PROVE  Rejected(S)'
    BY BatchFixedSearch DEF Rejected

-----------------------------------------------------------------------------
(* Type correctness. *)

\* Settling keeps the types.
LEMMA SettleTyped ==
    ASSUME SearchTypeOK, NEW S \in Selection, NEW how \in Paths,
           NEW reasonOf \in [Block -> FinalReasons], Settle(S, how, reasonOf)
    PROVE  /\ stage' \in Stages /\ path' \in Paths /\ chosen' \in Selection
           /\ reasons' \in [Block -> FinalReasons] /\ failure' \in Failures
    BY DEF SearchTypeOK, Settle, Stages, FinalReasons

\* Failing keeps the types.
LEMMA FailTyped ==
    ASSUME SearchTypeOK, NEW code \in Failures, Fail(code)
    PROVE  /\ stage' \in Stages /\ path' \in Paths /\ chosen' \in Selection
           /\ reasons' \in [Block -> FinalReasons] /\ failure' \in Failures
    BY DEF SearchTypeOK, Fail, Stages

\* Going on to the next phase keeps the types.
LEMMA ContinueTyped ==
    ASSUME SearchTypeOK, NEW next \in Stages, Continue(next)
    PROVE  /\ stage' \in Stages /\ path' \in Paths /\ chosen' \in Selection
           /\ reasons' \in [Block -> FinalReasons] /\ failure' \in Failures
    BY DEF SearchTypeOK, Continue

\* The reasons of each path are reasons of the trace.
LEMMA ReasonsTyped ==
    /\ AllocatorReasons \in [Block -> FinalReasons]
    /\ BaseReasons \in [Block -> FinalReasons]
    /\ RescueReasons \in [Block -> FinalReasons]
    BY DEF AllocatorReasons, BaseReasons, RescueReasons, FinalReasons

\* Every step keeps the types of the search.
LEMMA SearchTypeStep ==
    ASSUME TypeOK, SearchTypeOK, [CompileNext]_<<vars, searchVars>>
    PROVE  SearchTypeOK'
<1> USE DEF SearchTypeOK
<1>1. CASE Allocation \/ UNCHANGED <<vars, searchVars>>
    BY <1>1 DEF Allocation, searchVars
<1>2. ASSUME NEW verdict, InitialRender(verdict) PROVE SearchTypeOK'
    <2>1. measured' \in [Selection -> Verdicts] /\ calls' \in Nat
        BY <1>2, SelectionsTyped, MeasureEffect DEF InitialRender
    <2>2. /\ stage' \in Stages /\ path' \in Paths /\ chosen' \in Selection
          /\ reasons' \in [Block -> FinalReasons] /\ failure' \in Failures
        <3>1. CASE verdict = "fits"
            BY <1>2, <3>1, SelectionsTyped, ReasonsTyped, SettleTyped DEF InitialRender, Paths
        <3>2. CASE verdict # "fits"
            BY <1>2, <3>2, ContinueTyped DEF InitialRender, Stages
        <3>3. QED BY <3>1, <3>2
    <2>3. QED BY <1>2, <2>1, <2>2 DEF InitialRender
<1>3. ASSUME NEW verdict, GiveBack(verdict) PROVE SearchTypeOK'
    <2>1. Kept(evicted + 1) \in Selection
        BY SelectionsTyped
    <2>2. /\ measured' \in [Selection -> Verdicts] /\ calls' \in Nat
          /\ verdict \in {"fits", "over", "error"}
        BY <1>3, <2>1, MeasureEffect DEF GiveBack
    <2>3. /\ stage' \in Stages /\ path' \in Paths /\ chosen' \in Selection
          /\ reasons' \in [Block -> FinalReasons] /\ failure' \in Failures
        <3>1. CASE verdict = "fits"
            BY <1>3, <3>1, <2>1, ReasonsTyped, SettleTyped DEF GiveBack, Paths
        <3>2. CASE verdict = "over"
            BY <1>3, <3>2, ContinueTyped DEF GiveBack, Stages
        <3>3. CASE verdict = "error"
            BY <1>3, <3>3, FailTyped DEF GiveBack, Failures
        <3>4. QED BY <2>2, <3>1, <3>2, <3>3
    <2>4. QED BY <1>3, <2>2, <2>3 DEF GiveBack
<1>4. ASSUME NEW verdict, Probe(verdict) PROVE SearchTypeOK'
    <2>1. /\ measured' \in [Selection -> Verdicts] /\ calls' \in Nat
          /\ visited' = visited \cup {Required} /\ Required \in Selection
        BY <1>4, SelectionsTyped, VisitEffect DEF Probe
    <2>2. /\ stage' \in Stages /\ path' \in Paths /\ chosen' \in Selection
          /\ reasons' \in [Block -> FinalReasons] /\ failure' \in Failures
          /\ pending' \in SUBSET Selection
        <3>1. CASE Fail("invalid_correction_result") /\ UNCHANGED pending
            BY <3>1, FailTyped DEF Failures
        <3>2. CASE Continue("hard-base") /\ pending' = HardBases
            BY <3>2, ContinueTyped DEF Stages, HardBases
        <3>3. QED BY <1>4, <3>1, <3>2 DEF Probe
    <2>3. QED BY <1>4, <2>1, <2>2 DEF Probe
<1>5. ASSUME NEW S \in pending, NEW verdict, TryBase(S, verdict) \/ TryRescue(S, verdict)
      PROVE  SearchTypeOK'
    <2>1. /\ S \in Selection /\ Visit(S, verdict) /\ pending' = pending \ {S}
          /\ UNCHANGED <<limit, evicted, decisions>>
        BY <1>5 DEF TryBase, TryRescue
    <2>2. /\ measured' \in [Selection -> Verdicts] /\ calls' \in Nat
          /\ visited' = visited \cup {S}
        BY <2>1, VisitEffect
    <2>3. /\ stage' \in Stages /\ path' \in Paths /\ chosen' \in Selection
          /\ reasons' \in [Block -> FinalReasons] /\ failure' \in Failures
        <3>1. CASE Fail("invalid_correction_result")
            BY <3>1, FailTyped DEF Failures
        <3>2. CASE Continue("hard-base") \/ Continue("rescue")
            BY <3>2, ContinueTyped DEF Stages
        <3>3. CASE \/ Settle(S, "hard-base", BaseReasons)
                   \/ Settle(S, "policy-selection-rescue", RescueReasons)
            BY <3>3, <2>1, ReasonsTyped, SettleTyped DEF Paths
        <3>4. QED BY <1>5, <3>1, <3>2, <3>3 DEF TryBase, TryRescue
    <2>4. QED BY <2>1, <2>2, <2>3
<1>6. CASE BeginRescue
    BY <1>6, ContinueTyped DEF BeginRescue, RescueSelections, Stages
<1>7. ASSUME NEW code \in Failures, Fail(code),
             UNCHANGED <<limit, evicted, measured, calls, visited, pending, decisions>>
      PROVE  SearchTypeOK'
    BY <1>7, FailTyped
<1>8. CASE Assemble
    BY <1>8 DEF Assemble, FinalDecision, FinalReasons, Stages, Failures
<1>9. QED
    BY <1>1, <1>2, <1>3, <1>4, <1>5, <1>6, <1>7, <1>8
       DEF CompileNext, Correction, Exhausted, SearchLimit, Failures

\* Every variable of the search keeps its type.
THEOREM SearchTypeCorrect == CompileSpec => []SearchTypeOK
<1>1. CompileInit => SearchTypeOK
    BY DEF CompileInit, SearchTypeOK, Stages, Paths, Verdicts, FinalReasons, Failures, Selection
<1>2. TypeOK /\ SearchTypeOK /\ [CompileNext]_<<vars, searchVars>> => SearchTypeOK'
    BY SearchTypeStep
<1>3. QED
    BY <1>1, <1>2, AllocationInvHolds, PTL DEF CompileSpec, AllocationInv

-----------------------------------------------------------------------------
(* The inductive invariant. *)

\* A hard base satisfies the policy: exactly what each minimum still needs is
\* never too much, because no required block exceeds a maximum.
LEMMA HardBaseIsValid ==
    ASSUME TypeOK, MeetsMaximums(IncludedBlocks), Required \subseteq IncludedBlocks,
           NEW S \in HardBases
    PROVE  PolicyValid(S) /\ S \in RescueSelections
<1>1. /\ S \in SUBSET Block /\ Required \in SUBSET Block /\ Required \subseteq S
      /\ IncludedBlocks \in SUBSET Block
    BY SelectionsTyped DEF HardBases, Selection
<1>2. ASSUME NEW c \in Category
      PROVE  CountIn(S, c) >= batch.minBlocks[c] /\ CountIn(S, c) <= batch.maxBlocks[c]
    <2>1. /\ S = Required \cup (S \ Required) /\ Required \cap (S \ Required) = {}
          /\ (S \ Required) \in SUBSET Block
        BY <1>1
    <2>2. CountIn(Required \cup (S \ Required), c)
             = CountIn(Required, c) + CountIn(S \ Required, c)
        BY <1>1, <2>1, CountUnion
    <2>3. CountIn(S \ Required, c) = Needed(c)
        BY DEF HardBases
    <2>4. CountIn(S, c) = CountIn(Required, c) + Needed(c)
        BY <2>1, <2>2, <2>3
    <2>5. CountIn(Required, c) <= CountIn(IncludedBlocks, c)
        BY <1>1, CountMonotone
    <2>6. CountIn(IncludedBlocks, c) <= batch.maxBlocks[c]
        BY DEF MeetsMaximums
    <2>7. /\ CountIn(Required, c) \in Nat /\ CountIn(IncludedBlocks, c) \in Nat
          /\ batch.minBlocks[c] \in Nat /\ batch.maxBlocks[c] \in Nat
          /\ batch.minBlocks[c] <= batch.maxBlocks[c]
        BY <1>1, CountIsNat, BatchFacts DEF TypeOK
    <2>8. Needed(c) = IF batch.minBlocks[c] > CountIn(Required, c)
                      THEN batch.minBlocks[c] - CountIn(Required, c) ELSE 0
        BY DEF Needed
    <2>9. QED BY <2>4, <2>5, <2>6, <2>7, <2>8
<1>3. QED
    BY <1>1, <1>2 DEF PolicyValid, MeetsMinimums, MeetsMaximums, RescueSelections, Selection

\* Every prefix of the eviction order leaves a selection that satisfies the policy.
LEMMA KeptIsValid ==
    ASSUME AllocationInv, phase = "done", NEW n \in 0..Len(eviction)
    PROVE  PolicyValid(Kept(n)) /\ Kept(n) \in Selection
<1>1. Required \subseteq Kept(n) /\ MeetsMinimums(Kept(n))
    BY DEF AllocationInv, EvictionPrefixSafe, Kept
<1>2. Kept(n) \in SUBSET IncludedBlocks /\ IncludedBlocks \in SUBSET Block
    BY SelectionsTyped DEF AllocationInv, Kept, Selection
<1>3. ASSUME NEW c \in Category PROVE CountIn(Kept(n), c) <= batch.maxBlocks[c]
    <2>1. CountIn(Kept(n), c) <= CountIn(IncludedBlocks, c)
        BY <1>2, CountMonotone
    <2>2. CountIn(IncludedBlocks, c) <= batch.maxBlocks[c]
        BY DEF AllocationInv, CategoryLimits, MeetsMaximums
    <2>3. /\ CountIn(Kept(n), c) \in Nat /\ CountIn(IncludedBlocks, c) \in Nat
          /\ batch.maxBlocks[c] \in Nat
        BY <1>2, CountIsNat, BatchFacts DEF AllocationInv, TypeOK
    <2>4. QED BY <2>1, <2>2, <2>3
<1>4. QED
    BY <1>1, <1>2, <1>3 DEF PolicyValid, MeetsMaximums, Selection

\* Giving back nothing leaves the allocation as it is.
LEMMA NothingGivenBack ==
    ASSUME TypeOK
    PROVE  Kept(0) = IncludedBlocks /\ Len(eviction) \in Nat
    BY DEF Kept, TypeOK

\* No visit takes the search past its bound.
LEMMA VisitedBound ==
    ASSUME SearchTypeOK, Cardinality(visited) <= limit,
           NEW S \in Selection, NEW verdict, Visit(S, verdict), limit' = limit
    PROVE  Cardinality(visited') <= limit'
<1>1. IsFiniteSet(visited) /\ Cardinality(visited) \in Nat /\ limit \in Nat
    BY SelectionsFinite, FS_CardinalityType, LimitsAssumption DEF SearchTypeOK
<1>2. visited' = visited \cup {S}
    BY VisitEffect
<1>3. CASE S \in visited
    BY <1>2, <1>3
<1>4. CASE S \notin visited
    <2>1. Cardinality(visited) # limit
        BY <1>4 DEF Visit, AtLimit
    <2>2. Cardinality(visited \cup {S}) = Cardinality(visited) + 1
        BY <1>1, <1>4, FS_AddElement
    <2>3. QED BY <1>1, <1>2, <2>1, <2>2
<1>5. QED BY <1>3, <1>4

\* While the allocation does not move, neither do the things named by it.
LEMMA AllocationFixed ==
    ASSUME UNCHANGED vars
    PROVE  /\ batch' = batch /\ phase' = phase /\ eviction' = eviction
           /\ IncludedBlocks' = IncludedBlocks
           /\ \A n : Kept(n)' = Kept(n)
    BY DEF vars, IncludedBlocks, Kept

\* The invariant survives a step that only moves on: what is ruled out so far
\* stays ruled out, and nothing else is claimed in the new stage.
LEMMA SearchEnds ==
    ASSUME SearchInv, UNCHANGED vars, stage \in {"eviction", "hard-base", "rescue", "result"},
           stage' \in {"settled", "failed"},
           stage' = "settled" => stage = "result",
           evicted' \in 0..Len(eviction), UNCHANGED chosen,
           Cardinality(visited') <= limit'
    PROVE  SearchInv'
    BY AllocationFixed, BatchFixedSearch DEF SearchInv, Selection

\* A selection that satisfies the policy settles.
LEMMA SearchSettles ==
    ASSUME SearchInv, UNCHANGED vars, phase = "done",
           NEW S \in Selection, PolicyValid(S), stage' = "result", chosen' = S,
           evicted' \in 0..Len(eviction),
           Cardinality(visited') <= limit'
    PROVE  SearchInv'
    BY AllocationFixed, BatchFixedSearch DEF SearchInv, Selection

\* The first render keeps the search invariant.
LEMMA SearchInvInitial ==
    ASSUME AllocationInv, SearchTypeOK, SearchInv, UNCHANGED vars,
           NEW verdict, InitialRender(verdict)
    PROVE  SearchInv'
<1>1. /\ IncludedBlocks \in Selection /\ IncludedBlocks = Kept(0) /\ Len(eviction) \in Nat
      /\ PolicyValid(IncludedBlocks)
    BY SelectionsTyped, NothingGivenBack, KeptIsValid DEF AllocationInv, InitialRender
<1>2. Cardinality(visited') <= limit'
    BY DEF SearchInv, InitialRender
<1>3. evicted' = 0 /\ visited' = {} /\ phase = "done"
    BY DEF SearchInv, InitialRender
<1>4. verdict \in {"fits", "over"} /\ measured'[IncludedBlocks] = verdict
    BY <1>1, MeasureEffect DEF InitialRender
<1>5. CASE verdict = "fits"
    BY <1>1, <1>2, <1>3, <1>5, SearchSettles DEF InitialRender, Settle
<1>6. CASE verdict = "over"
    <2>1. stage' = "eviction"
        BY <1>6 DEF InitialRender, Continue
    <2>2. Kept(0)' = IncludedBlocks
        BY <1>1, AllocationFixed
    <2>3. Rejected(Kept(0))'
        BY <1>4, <1>6, <2>2 DEF Rejected
    <2>4. \A n \in 0..evicted' : Rejected(Kept(n))'
        BY <1>3, <2>3
    <2>5. QED
        BY <1>1, <1>2, <1>3, <2>1, <2>4, AllocationFixed DEF SearchInv
<1>7. QED BY <1>4, <1>5, <1>6

\* Giving back one more block of the eviction order keeps the search invariant.
LEMMA SearchInvGiveBack ==
    ASSUME AllocationInv, SearchTypeOK, SearchInv, UNCHANGED vars,
           NEW verdict, GiveBack(verdict)
    PROVE  SearchInv'
<1> DEFINE S == Kept(evicted + 1)
<1>1. /\ evicted \in Nat /\ Len(eviction) \in Nat /\ evicted < Len(eviction)
      /\ phase = "done" /\ stage = "eviction"
      /\ evicted' = evicted + 1 /\ UNCHANGED <<limit, visited>>
    BY NothingGivenBack DEF AllocationInv, SearchTypeOK, SearchInv, GiveBack
<1>2. evicted + 1 \in 0..Len(eviction)
    BY <1>1
<1>3. S \in Selection /\ PolicyValid(S)
    BY <1>1, <1>2, KeptIsValid
<1>4. Measure(S, verdict)
    BY DEF GiveBack
<1> HIDE DEF S
<1>5. /\ verdict \in {"fits", "over", "error"}
      /\ \A T \in Selection : measured[T] # "unmeasured" => measured'[T] = measured[T]
      /\ verdict # "error" => measured'[S] = verdict
    BY <1>3, <1>4, MeasureEffect
<1>6. Cardinality(visited') <= limit'
    BY <1>1 DEF SearchInv
<1>7. CASE verdict = "fits"
    <2>1. stage' = "result" /\ chosen' = S
        BY <1>7 DEF GiveBack, Settle, S
    <2>2. QED
        BY <1>1, <1>2, <1>3, <1>6, <2>1, SearchSettles
<1>8. CASE verdict = "error"
    <2>1. stage' = "failed" /\ UNCHANGED chosen
        BY <1>8 DEF GiveBack, Fail
    <2>2. QED
        BY <1>1, <1>2, <1>6, <2>1, SearchEnds
<1>9. CASE verdict = "over"
    <2>1. stage' = "eviction"
        BY <1>9 DEF GiveBack, Continue
    <2>2. ASSUME NEW n \in 0..(evicted + 1) PROVE Rejected(Kept(n))'
        <3>1. Kept(n)' = Kept(n)
            BY AllocationFixed
        <3>2. CASE n = evicted + 1
            BY <1>5, <1>9, <3>1, <3>2 DEF Rejected, S
        <3>3. CASE n # evicted + 1
            <4>1. n \in 0..evicted /\ n \in 0..Len(eviction)
                BY <1>1, <3>3
            <4>2. Rejected(Kept(n)) /\ Kept(n) \in Selection
                BY <1>1, <4>1, KeptIsValid DEF SearchInv
            <4>3. OverCeiling(Kept(n)) \/ measured'[Kept(n)] = "over"
                BY <1>5, <4>2 DEF Rejected
            <4>4. QED
                BY <3>1, <4>3, AllocationFixed, BatchFixedSearch DEF Rejected
        <3>4. QED BY <3>2, <3>3
    <2>3. \A n \in 0..evicted' : Rejected(Kept(n))'
        BY <1>1, <2>2
    <2>4. visited = {}
        BY <1>1 DEF SearchInv
    <2>5. QED
        BY <1>1, <1>2, <1>6, <2>1, <2>3, <2>4, AllocationFixed DEF SearchInv
<1>10. QED BY <1>5, <1>7, <1>8, <1>9

\* Whatever a visit rules out joins what was ruled out before it.
LEMMA VisitRulesOut ==
    ASSUME SearchTypeOK, UNCHANGED vars, NEW S \in Selection, NEW verdict,
           Visit(S, verdict), verdict \in {"over", "ceiling"}
    PROVE  Rejected(S)'
    BY AllocationFixed, BatchFixedSearch, VisitEffect DEF Rejected

\* A visit takes back no verdict.
LEMMA VisitKeepsRejected ==
    ASSUME SearchTypeOK, UNCHANGED vars, NEW S \in Selection, NEW verdict,
           Visit(S, verdict), NEW T \in Selection, Rejected(T)
    PROVE  Rejected(T)'
    BY AllocationFixed, VisitEffect, RejectedStays

\* The prefixes that failed stay ruled out during the fallback.
LEMMA KeptStaysRejected ==
    ASSUME AllocationInv, SearchTypeOK, UNCHANGED vars, phase = "done",
           NEW S \in Selection, NEW verdict, Visit(S, verdict),
           \A n \in 0..Len(eviction) : Rejected(Kept(n))
    PROVE  \A n \in 0..Len(eviction') : Rejected(Kept(n))'
<1> SUFFICES ASSUME NEW n \in 0..Len(eviction) PROVE Rejected(Kept(n))'
    BY AllocationFixed
<1>1. Kept(n)' = Kept(n) /\ Kept(n) \in Selection
    BY AllocationFixed, KeptIsValid
<1>2. OverCeiling(Kept(n)) \/ measured'[Kept(n)] = "over"
    BY <1>1, VisitEffect DEF Rejected
<1>3. QED
    BY <1>1, <1>2, AllocationFixed, BatchFixedSearch DEF Rejected

\* The probe of the required blocks keeps the search invariant.
LEMMA SearchInvProbe ==
    ASSUME AllocationInv, SearchTypeOK, SearchInv, UNCHANGED vars,
           NEW verdict, Probe(verdict)
    PROVE  SearchInv'
<1>1. /\ stage = "eviction" /\ evicted = Len(eviction) /\ Len(eviction) \in Nat
      /\ phase = "done" /\ UNCHANGED <<limit, evicted>>
      /\ Required \in Selection /\ Visit(Required, verdict)
    BY SelectionsTyped, NothingGivenBack DEF AllocationInv, SearchInv, Probe
<1>2. Cardinality(visited') <= limit' /\ evicted' \in 0..Len(eviction)
    BY <1>1, VisitedBound DEF SearchInv
<1>3. CASE Fail("invalid_correction_result")
    BY <1>1, <1>2, <1>3, SearchEnds DEF Fail
<1>4. CASE Continue("hard-base") /\ pending' = HardBases
    <2>1. stage' = "hard-base" /\ pending' = HardBases'
        BY <1>4, AllocationFixed, BatchFixedSearch DEF Continue
    <2>2. \A n \in 0..Len(eviction') : Rejected(Kept(n))'
        BY <1>1, KeptStaysRejected DEF SearchInv
    <2>3. QED
        BY <1>1, <1>2, <2>1, <2>2, AllocationFixed DEF SearchInv
<1>5. QED BY <1>3, <1>4 DEF Probe

\* A visit to a hard base keeps the search invariant.
LEMMA SearchInvTryBase ==
    ASSUME AllocationInv, SearchTypeOK, SearchInv, UNCHANGED vars,
           NEW S \in pending, NEW verdict, TryBase(S, verdict)
    PROVE  SearchInv'
<1>1. /\ stage = "hard-base" /\ phase = "done" /\ Len(eviction) \in Nat
      /\ evicted \in 0..Len(eviction) /\ UNCHANGED <<limit, evicted>>
      /\ S \in HardBases /\ S \in Selection /\ Visit(S, verdict)
      /\ pending \subseteq HardBases /\ pending' = pending \ {S}
    <2>1. /\ stage = "hard-base" /\ Visit(S, verdict) /\ pending' = pending \ {S}
          /\ UNCHANGED <<limit, evicted>>
        BY DEF TryBase
    <2>2. /\ phase = "done" /\ evicted <= Len(eviction) /\ pending \subseteq HardBases
        BY <2>1 DEF SearchInv
    <2>3. HardBases \subseteq Selection
        BY DEF HardBases
    <2>4. Len(eviction) \in Nat /\ evicted \in Nat
        BY NothingGivenBack DEF AllocationInv, SearchTypeOK
    <2>5. QED BY <2>1, <2>2, <2>3, <2>4
<1>2. Cardinality(visited') <= limit' /\ evicted' \in 0..Len(eviction)
    BY <1>1, VisitedBound DEF SearchInv
<1>3. CASE Fail("invalid_correction_result")
    BY <1>1, <1>2, <1>3, SearchEnds DEF Fail
<1>4. CASE verdict = "fits"
    <2>1. Required \subseteq IncludedBlocks /\ MeetsMaximums(IncludedBlocks)
        BY <1>1, KeptIsValid, NothingGivenBack DEF AllocationInv, PolicyValid
    <2>2. PolicyValid(S)
        BY <1>1, <2>1, HardBaseIsValid DEF AllocationInv
    <2>3. stage' = "result" /\ chosen' = S
        BY <1>4 DEF TryBase, Settle
    <2>4. QED BY <1>1, <1>2, <2>2, <2>3, SearchSettles
<1>5. CASE verdict \in {"over", "ceiling"}
    <2>1. stage' = "hard-base"
        BY <1>5 DEF TryBase, Continue
    <2>2. Rejected(S)'
        BY <1>1, <1>5, VisitRulesOut
    <2>3. ASSUME NEW T \in HardBases PROVE T \in pending' \/ Rejected(T)'
        <3>1. T \in Selection
            BY DEF HardBases
        <3>2. CASE T = S
            BY <2>2, <3>2
        <3>3. CASE T # S /\ T \in pending
            BY <1>1, <3>3
        <3>4. CASE Rejected(T)
            BY <1>1, <3>1, <3>4, VisitKeepsRejected
        <3>5. QED BY <1>1, <3>2, <3>3, <3>4 DEF SearchInv
    <2>4. \A n \in 0..Len(eviction') : Rejected(Kept(n))'
        BY <1>1, KeptStaysRejected DEF SearchInv
    <2>5. HardBases' = HardBases
        BY AllocationFixed, BatchFixedSearch
    <2>6. \A T \in HardBases' : T \in pending' \/ Rejected(T)'
        BY <2>3, <2>5
    <2>7. pending' \subseteq HardBases'
        BY <1>1, <2>5
    <2>8. QED
        BY <1>1, <1>2, <2>1, <2>4, <2>6, <2>7, AllocationFixed DEF SearchInv
<1>6. QED
    BY <1>1, <1>3, <1>4, <1>5, VisitEffect DEF TryBase

\* The rescue starts when every hard base is ruled out.
LEMMA SearchInvBeginRescue ==
    ASSUME AllocationInv, SearchTypeOK, SearchInv, UNCHANGED vars, BeginRescue
    PROVE  SearchInv'
<1>1. /\ stage = "hard-base" /\ pending = {} /\ stage' = "rescue"
      /\ pending' = RescueSelections
      /\ UNCHANGED <<limit, evicted, measured, visited>>
    BY DEF BeginRescue, Continue
<1>2. \A T \in Selection : Rejected(T) => Rejected(T)'
    BY <1>1, AllocationFixed, BatchFixedSearch DEF Rejected
<1>3. \A T \in HardBases' : Rejected(T)'
    BY <1>1, <1>2, AllocationFixed, BatchFixedSearch DEF SearchInv, HardBases
<1>4. \A n \in 0..Len(eviction') : Rejected(Kept(n))'
    BY <1>1, AllocationFixed, BatchFixedSearch DEF SearchInv, Rejected
<1>5. pending' = RescueSelections'
    BY <1>1, AllocationFixed, BatchFixedSearch
<1>6. QED
    BY <1>1, <1>3, <1>4, <1>5, AllocationFixed DEF SearchInv

\* A visit to a rescue selection keeps the search invariant.
LEMMA SearchInvTryRescue ==
    ASSUME AllocationInv, SearchTypeOK, SearchInv, UNCHANGED vars,
           NEW S \in pending, NEW verdict, TryRescue(S, verdict)
    PROVE  SearchInv'
<1>1. /\ stage = "rescue" /\ phase = "done" /\ Len(eviction) \in Nat
      /\ evicted \in 0..Len(eviction) /\ UNCHANGED <<limit, evicted>>
      /\ S \in RescueSelections /\ S \in Selection /\ Visit(S, verdict)
      /\ pending \subseteq RescueSelections /\ pending' = pending \ {S}
    BY NothingGivenBack DEF AllocationInv, SearchTypeOK, SearchInv, TryRescue, RescueSelections
<1>2. Cardinality(visited') <= limit' /\ evicted' \in 0..Len(eviction)
    BY <1>1, VisitedBound DEF SearchInv
<1>3. CASE Fail("invalid_correction_result")
    BY <1>1, <1>2, <1>3, SearchEnds DEF Fail
<1>4. CASE verdict = "fits"
    <2>1. PolicyValid(S)
        BY <1>1 DEF RescueSelections
    <2>2. stage' = "result" /\ chosen' = S
        BY <1>4 DEF TryRescue, Settle
    <2>3. QED BY <1>1, <1>2, <2>1, <2>2, SearchSettles
<1>5. CASE verdict \in {"over", "ceiling"}
    <2>1. stage' = "rescue"
        BY <1>5 DEF TryRescue, Continue
    <2>2. Rejected(S)'
        BY <1>1, <1>5, VisitRulesOut
    <2>3. ASSUME NEW T \in RescueSelections PROVE T \in pending' \/ Rejected(T)'
        <3>1. T \in Selection
            BY DEF RescueSelections
        <3>2. CASE T = S
            BY <2>2, <3>2
        <3>3. CASE T # S /\ T \in pending
            BY <1>1, <3>3
        <3>4. CASE Rejected(T)
            BY <1>1, <3>1, <3>4, VisitKeepsRejected
        <3>5. QED BY <1>1, <3>2, <3>3, <3>4 DEF SearchInv
    <2>4. ASSUME NEW T \in HardBases PROVE Rejected(T)'
        <3>1. T \in Selection
            BY DEF HardBases
        <3>2. Rejected(T)
            BY <1>1 DEF SearchInv
        <3>3. QED BY <1>1, <3>1, <3>2, VisitKeepsRejected
    <2>5. \A n \in 0..Len(eviction') : Rejected(Kept(n))'
        BY <1>1, KeptStaysRejected DEF SearchInv
    <2>6. RescueSelections' = RescueSelections /\ HardBases' = HardBases
        BY AllocationFixed, BatchFixedSearch
    <2>7. /\ \A T \in RescueSelections' : T \in pending' \/ Rejected(T)'
          /\ \A T \in HardBases' : Rejected(T)'
          /\ pending' \subseteq RescueSelections'
        BY <1>1, <2>3, <2>4, <2>6
    <2>8. QED
        BY <1>1, <1>2, <2>1, <2>5, <2>7, AllocationFixed DEF SearchInv
<1>6. QED
    BY <1>1, <1>3, <1>4, <1>5, VisitEffect DEF TryRescue

\* Every step keeps the search invariant.
LEMMA SearchInvStep ==
    ASSUME AllocationInv, SearchTypeOK, SearchInv, [CompileNext]_<<vars, searchVars>>
    PROVE  SearchInv'
<1>1. CASE Allocation
    BY <1>1 DEF Allocation, searchVars, SearchInv
<1>2. CASE UNCHANGED <<vars, searchVars>>
    <2>1. \A T : Rejected(T)' = Rejected(T)
        BY <1>2, AllocationFixed, BatchFixedSearch DEF searchVars, Rejected
    <2>2. \A n : Kept(n)' = Kept(n) /\ Rejected(Kept(n))' = Rejected(Kept(n))
        BY <1>2, AllocationFixed, BatchFixedSearch DEF searchVars, Rejected
    <2>3. QED
        BY <1>2, <2>1, <2>2, AllocationFixed, BatchFixedSearch DEF searchVars, SearchInv
<1>3. CASE Correction
    <2>1. UNCHANGED vars
        BY <1>3 DEF Correction
    <2>2. CASE Exhausted \/ \E S \in pending : SearchLimit(S)
        <3>1. /\ stage \in {"hard-base", "rescue"} /\ stage' = "failed"
              /\ UNCHANGED <<limit, evicted, visited, chosen>>
            BY <2>2 DEF Exhausted, SearchLimit, Fail
        <3>2. evicted' \in 0..Len(eviction) /\ Cardinality(visited') <= limit'
            BY <3>1, NothingGivenBack DEF SearchInv, SearchTypeOK, AllocationInv
        <3>3. QED BY <2>1, <3>1, <3>2, SearchEnds
    <2>3. CASE Assemble
        <3>1. /\ stage = "result" /\ stage' \in {"settled", "failed"}
              /\ UNCHANGED <<limit, evicted, visited, chosen>>
            BY <2>3 DEF Assemble
        <3>2. evicted' \in 0..Len(eviction) /\ Cardinality(visited') <= limit'
            BY <3>1, NothingGivenBack DEF SearchInv, SearchTypeOK, AllocationInv
        <3>3. QED BY <2>1, <3>1, <3>2, SearchEnds
    <2>4. QED
        BY <1>3, <2>1, <2>2, <2>3, SearchInvInitial, SearchInvGiveBack, SearchInvProbe,
           SearchInvTryBase, SearchInvBeginRescue, SearchInvTryRescue DEF Correction
<1>4. QED BY <1>1, <1>2, <1>3 DEF CompileNext

\* The search invariant holds throughout a compilation.
LEMMA SearchInvHolds == CompileSpec => []SearchInv
<1>1. CompileInit => SearchInv
    <2> SUFFICES ASSUME CompileInit PROVE SearchInv
        OBVIOUS
    <2>1. Cardinality(visited) <= limit
        BY LimitsAssumption, FS_EmptySet DEF CompileInit
    <2>2. QED BY <2>1 DEF CompileInit, SearchInv
<1>2. AllocationInv /\ SearchTypeOK /\ SearchInv /\ [CompileNext]_<<vars, searchVars>>
         => SearchInv'
    BY SearchInvStep
<1>3. QED
    BY <1>1, <1>2, AllocationInvHolds, SearchTypeCorrect, PTL DEF CompileSpec

-----------------------------------------------------------------------------
(* What follows from it. *)

SearchContext == AllocationInv /\ SearchTypeOK /\ SearchInv

\* The allocation, the types and the search invariant hold together.
LEMMA SearchContextHolds == CompileSpec => []SearchContext
    BY AllocationInvHolds, SearchTypeCorrect, SearchInvHolds, PTL DEF SearchContext

\* A settled selection was rendered, and a failure is final.
OutcomeInv ==
    /\ stage \in {"result", "settled"} => measured[chosen] = "fits"
    /\ failure # "none" => stage = "failed"

\* Only a step of the correction moves the search; the rest leaves it alone.
LEMMA SearchMoves ==
    ASSUME [CompileNext]_<<vars, searchVars>>
    PROVE  \/ Correction
           \/ UNCHANGED searchVars /\ (stage = "allocation" \/ UNCHANGED vars)
    BY DEF CompileNext, Allocation

\* Every step keeps what is known of the outcome.
LEMMA OutcomeStep ==
    ASSUME SearchContext, OutcomeInv, [CompileNext]_<<vars, searchVars>>
    PROVE  OutcomeInv'
<1>1. CASE UNCHANGED searchVars
    BY <1>1 DEF searchVars, OutcomeInv
<1>2. CASE Correction
    <2>1. ASSUME NEW verdict, InitialRender(verdict) PROVE OutcomeInv'
        <3>1. verdict # "error" => measured'[IncludedBlocks] = verdict
            BY <2>1, SelectionsTyped, MeasureEffect
               DEF InitialRender, SearchContext, AllocationInv
        <3>2. failure = "none"
            BY <2>1 DEF OutcomeInv, InitialRender
        <3>3. QED
            BY <2>1, <3>1, <3>2 DEF InitialRender, Settle, Continue, OutcomeInv
    <2>2. ASSUME NEW verdict, GiveBack(verdict) PROVE OutcomeInv'
        <3>1. Kept(evicted + 1) \in Selection /\ Measure(Kept(evicted + 1), verdict)
            BY <2>2, SelectionsTyped DEF GiveBack, SearchContext, AllocationInv, SearchTypeOK
        <3>2. /\ verdict \in {"fits", "over", "error"}
              /\ verdict # "error" => measured'[Kept(evicted + 1)] = verdict
            BY <3>1, MeasureEffect DEF SearchContext
        <3>3. failure = "none"
            BY <2>2 DEF OutcomeInv, GiveBack
        <3>4. CASE verdict = "fits"
            BY <2>2, <3>2, <3>3, <3>4 DEF GiveBack, Settle, OutcomeInv
        <3>5. CASE verdict = "over"
            BY <2>2, <3>3, <3>5 DEF GiveBack, Continue, OutcomeInv
        <3>6. CASE verdict = "error"
            BY <2>2, <3>3, <3>6 DEF GiveBack, Fail, OutcomeInv
        <3>7. QED BY <3>2, <3>4, <3>5, <3>6
    <2>3. ASSUME NEW verdict, Probe(verdict) PROVE OutcomeInv'
        <3>1. failure = "none"
            BY <2>3 DEF OutcomeInv, Probe
        <3>2. QED
            BY <2>3, <3>1 DEF Probe, Continue, Fail, OutcomeInv
    <2>4. ASSUME NEW S \in pending, NEW verdict, TryBase(S, verdict) \/ TryRescue(S, verdict)
          PROVE  OutcomeInv'
        <3>1. S \in Selection /\ Visit(S, verdict) /\ stage \in {"hard-base", "rescue"}
            BY <2>4 DEF SearchContext, SearchTypeOK, TryBase, TryRescue
        <3>2. verdict = "fits" => measured'[S] = verdict
            BY <3>1, VisitEffect DEF SearchContext
        <3>3. failure = "none"
            BY <3>1 DEF OutcomeInv
        <3>4. \/ verdict = "fits" /\ stage' = "result" /\ chosen' = S /\ UNCHANGED failure
              \/ Fail("invalid_correction_result")
              \/ Continue("hard-base") \/ Continue("rescue")
            BY <2>4 DEF TryBase, TryRescue, Settle
        <3>5. QED
            BY <3>2, <3>3, <3>4 DEF OutcomeInv, Fail, Continue
    <2>5. CASE BeginRescue \/ Exhausted \/ Assemble \/ \E S \in pending : SearchLimit(S)
        BY <2>5 DEF BeginRescue, Exhausted, Assemble, SearchLimit, Fail, Continue, OutcomeInv
    <2>6. QED
        BY <1>2, <2>1, <2>2, <2>3, <2>4, <2>5 DEF Correction
<1>3. QED BY <1>1, <1>2, SearchMoves

\* What is known of the outcome holds throughout a compilation.
LEMMA OutcomeHolds == CompileSpec => []OutcomeInv
<1>1. CompileInit => OutcomeInv
    BY DEF CompileInit, OutcomeInv
<1>2. SearchContext /\ OutcomeInv /\ [CompileNext]_<<vars, searchVars>> => OutcomeInv'
    BY OutcomeStep
<1>3. QED
    BY <1>1, <1>2, SearchContextHolds, PTL DEF CompileSpec

\* However the tokenizer answers and whichever path settles, the selection
\* satisfies the allocation policy and was measured within the budget.
THEOREM SettledSoundHolds == CompileSpec => []SettledSound
<1>1. SearchContext /\ OutcomeInv => SettledSound
    BY DEF SearchContext, SearchInv, OutcomeInv, SettledSound
<1>2. QED
    BY <1>1, SearchContextHolds, OutcomeHolds, PTL

Exhaustion == {"rendered_hard_constraints_exceed_budget", "required_content_exceeds_budget"}

\* Only a search that ruled out every valid selection reports exhaustion.
LEMMA ExhaustionStep ==
    ASSUME SearchContext, OutcomeInv, ExhaustionIsProof, [CompileNext]_<<vars, searchVars>>
    PROVE  ExhaustionIsProof'
<1> SUFFICES ASSUME failure' \in Exhaustion, NEW S \in RescueSelections'
             PROVE  Rejected(S)'
    BY DEF ExhaustionIsProof, Exhaustion
<1>1. CASE UNCHANGED searchVars
    <2>1. failure \in Exhaustion /\ stage = "failed"
        BY <1>1 DEF searchVars, Exhaustion, OutcomeInv
    <2>2. UNCHANGED vars
        BY <2>1, SearchMoves DEF CompileNext, Allocation, Correction
    <2>3. S \in RescueSelections /\ Rejected(S)
        BY <2>1, <2>2, AllocationFixed, BatchFixedSearch DEF ExhaustionIsProof, Exhaustion
    <2>4. QED
        BY <1>1, <2>2, <2>3, AllocationFixed, BatchFixedSearch DEF searchVars, Rejected
<1>2. CASE Correction
    <2>1. UNCHANGED vars /\ S \in RescueSelections
        BY <1>2, AllocationFixed, BatchFixedSearch DEF Correction
    <2>2. CASE Exhausted
        <3>1. /\ stage = "rescue" /\ pending = {} /\ UNCHANGED measured
            BY <2>2 DEF Exhausted
        <3>2. Rejected(S)
            BY <2>1, <3>1 DEF SearchContext, SearchInv
        <3>3. QED
            BY <2>1, <3>1, <3>2, AllocationFixed, BatchFixedSearch DEF Rejected
    <2>3. CASE ~ Exhausted
        <3>1. stage # "failed"
            BY <1>2 DEF Correction, InitialRender, GiveBack, Probe, TryBase, TryRescue,
                        BeginRescue, Exhausted, Assemble, SearchLimit
        <3>2. failure = "none"
            BY <3>1 DEF OutcomeInv
        <3>3. failure' \in {"none", "invalid_correction_result", "invalid_compilation_result",
                            "correction_search_limit_exceeded"}
            <4>1. CASE \E verdict \in {"fits", "over", "error", "ceiling"} : InitialRender(verdict)
                BY <4>1, <3>2 DEF InitialRender, Settle, Continue
            <4>2. CASE \E verdict \in {"fits", "over", "error", "ceiling"} : GiveBack(verdict)
                <5>1. PICK verdict \in {"fits", "over", "error", "ceiling"} : GiveBack(verdict)
                    BY <4>2
                <5>2. Kept(evicted + 1) \in Selection
                    BY SelectionsTyped DEF SearchContext, AllocationInv, SearchTypeOK
                <5>3. verdict \in {"fits", "over", "error"}
                    BY <5>1, <5>2, MeasureEffect DEF GiveBack, SearchContext
                <5>4. QED
                    BY <5>1, <5>3, <3>2 DEF GiveBack, Settle, Continue, Fail
            <4>3. CASE \E verdict \in {"fits", "over", "error", "ceiling"} : Probe(verdict)
                BY <4>3, <3>2 DEF Probe, Continue, Fail
            <4>4. CASE \E verdict \in {"fits", "over", "error", "ceiling"} : \E T \in pending :
                          TryBase(T, verdict) \/ TryRescue(T, verdict)
                BY <4>4, <3>2 DEF TryBase, TryRescue, Settle, Continue, Fail
            <4>5. CASE BeginRescue \/ Assemble \/ \E T \in pending : SearchLimit(T)
                BY <4>5, <3>2 DEF BeginRescue, Assemble, SearchLimit, Fail, Continue
            <4>6. QED
                BY <1>2, <2>3, <4>1, <4>2, <4>3, <4>4, <4>5 DEF Correction
        <3>4. QED BY <3>3 DEF Exhaustion
    <2>4. QED BY <2>2, <2>3
<1>3. QED BY <1>1, <1>2, SearchMoves

\* When the search reports exhaustion, no policy-valid selection renders within
\* the budget: every one was ruled out on its own.
THEOREM ExhaustionIsProofHolds == CompileSpec => []ExhaustionIsProof
<1>1. CompileInit => ExhaustionIsProof
    BY DEF CompileInit, ExhaustionIsProof
<1>2. SearchContext /\ OutcomeInv /\ ExhaustionIsProof /\ [CompileNext]_<<vars, searchVars>>
         => ExhaustionIsProof'
    BY ExhaustionStep
<1>3. QED
    BY <1>1, <1>2, SearchContextHolds, OutcomeHolds, PTL DEF CompileSpec

-----------------------------------------------------------------------------
(* The bound of the search and the cache of the tokenizer. *)

Tokenized == { S \in Selection : measured[S] # "unmeasured" }

\* A measurement is cached, or one call that adds one verdict, or an error.
LEMMA MeasureCounts ==
    ASSUME SearchTypeOK, NEW S \in Selection, NEW verdict, Measure(S, verdict)
    PROVE  \/ verdict # "error" /\ UNCHANGED <<measured, calls>>
           \/ /\ verdict # "error" /\ calls' = calls + 1
              /\ Cardinality(Tokenized)' = Cardinality(Tokenized) + 1
           \/ verdict = "error" /\ calls' = calls + 1 /\ measured' = measured
<1>1. CASE measured[S] # "unmeasured"
    BY <1>1 DEF Measure, SearchTypeOK, Verdicts
<1>2. CASE measured[S] = "unmeasured" /\ verdict = "error"
    BY <1>2 DEF Measure
<1>3. CASE measured[S] = "unmeasured" /\ verdict # "error"
    <2>1. /\ verdict \in {"fits", "over"} /\ calls' = calls + 1
          /\ measured' = [measured EXCEPT ![S] = verdict]
        BY <1>3 DEF Measure
    <2>2. measured \in [Selection -> Verdicts]
        BY DEF SearchTypeOK
    <2>3. Tokenized' = Tokenized \cup {S} /\ S \notin Tokenized
        BY <1>3, <2>1, <2>2 DEF Tokenized
    <2>4. Tokenized \in SUBSET Selection
        BY DEF Tokenized
    <2>5. Cardinality(Tokenized \cup {S}) = Cardinality(Tokenized) + 1
        BY <2>3, <2>4, SelectionsFinite, FS_AddElement
    <2>6. Cardinality(Tokenized)' = Cardinality(Tokenized \cup {S})
        BY <2>3, Zenon
    <2>7. QED BY <1>3, <2>1, <2>5, <2>6
<1>4. QED BY <1>1, <1>2, <1>3

\* The allocation meets its minimums, so the enumeration of bases never lacks
\* the blocks a minimum needs: only the tokenizer makes a correction invalid.
LEMMA BasesAreReachable ==
    ASSUME AllocationInv, phase = "done"
    PROVE  ~ \E c \in Category : CountIn(Optional, c) < Needed(c)
<1> USE DEF AllocationInv
<1> SUFFICES ASSUME NEW c \in Category PROVE CountIn(Optional, c) >= Needed(c)
    <2>1. \A c \in Category : CountIn(Optional, c) \in Nat /\ Needed(c) \in Nat
        BY CountIsNat, CheapestForCount, PicksAreOptional DEF TypeOK
    <2>2. QED BY <2>1
<1>1. PolicyValid(IncludedBlocks) /\ IncludedBlocks \in SUBSET Block
    BY KeptIsValid, NothingGivenBack DEF Selection
<1>2. CountIn(IncludedBlocks \ Required, c) >= Needed(c)
    BY <1>1, ValidMeetsNeeds DEF CountIn
<1>3. Optional \in SUBSET Block /\ IncludedBlocks \ Required \in SUBSET Optional
    BY <1>1, PicksAreOptional
<1>4. CountIn(IncludedBlocks \ Required, c) <= CountIn(Optional, c)
    BY <1>3, CountMonotone
<1>5. /\ CountIn(IncludedBlocks \ Required, c) \in Nat /\ CountIn(Optional, c) \in Nat
      /\ Needed(c) \in Nat
    BY <1>3, CountIsNat, CheapestForCount DEF TypeOK
<1>6. QED BY <1>2, <1>4, <1>5

AnyVerdict == {"fits", "over", "error", "ceiling"}

\* What a step of the search asks the tokenizer, and what it makes of the answer.
LEMMA SearchAsks ==
    ASSUME SearchContext, OutcomeInv, Correction
    PROVE  /\ failure = "none"
           /\ \/ \E S \in Selection, verdict \in AnyVerdict :
                    /\ \/ Measure(S, verdict)
                       \/ verdict = "ceiling" /\ UNCHANGED <<measured, calls>>
                    /\ failure' = IF verdict = "error" THEN "invalid_correction_result"
                                                       ELSE "none"
              \/ /\ UNCHANGED <<measured, calls>>
                 /\ failure' # "invalid_correction_result"
                 /\ failure' = "correction_search_limit_exceeded" =>
                       \E S \in pending : SearchLimit(S)
<1> USE DEF SearchContext, AnyVerdict
<1>1. failure = "none"
    <2>1. stage # "failed"
        BY DEF Correction, InitialRender, GiveBack, Probe, TryBase, TryRescue,
               BeginRescue, Exhausted, Assemble, SearchLimit
    <2>2. QED BY <2>1 DEF OutcomeInv
<1>2. ASSUME NEW verdict \in AnyVerdict, InitialRender(verdict) \/ GiveBack(verdict)
      PROVE  \E S \in Selection :
                /\ Measure(S, verdict)
                /\ failure' = IF verdict = "error" THEN "invalid_correction_result" ELSE "none"
    <2>1. CASE InitialRender(verdict)
        BY <1>1, <2>1, SelectionsTyped DEF InitialRender, Settle, Continue, AllocationInv
    <2>2. CASE GiveBack(verdict)
        <3>1. Kept(evicted + 1) \in Selection /\ Measure(Kept(evicted + 1), verdict)
            BY <2>2, SelectionsTyped DEF GiveBack, AllocationInv, SearchTypeOK
        <3>2. verdict \in {"fits", "over", "error"}
            BY <3>1, MeasureEffect
        <3>3. failure' = IF verdict = "error" THEN "invalid_correction_result" ELSE "none"
            <4>1. CASE verdict = "fits"
                BY <1>1, <2>2, <4>1 DEF GiveBack, Settle
            <4>2. CASE verdict = "over"
                BY <1>1, <2>2, <4>2 DEF GiveBack, Continue
            <4>3. CASE verdict = "error"
                BY <1>1, <2>2, <4>3 DEF GiveBack, Fail
            <4>4. QED BY <3>2, <4>1, <4>2, <4>3
        <3>4. QED BY <3>1, <3>3
    <2>3. QED BY <1>2, <2>1, <2>2
<1>3. ASSUME NEW verdict \in AnyVerdict,
             \/ Probe(verdict)
             \/ \E S \in pending : TryBase(S, verdict) \/ TryRescue(S, verdict)
      PROVE  \E S \in Selection :
                /\ \/ Measure(S, verdict)
                   \/ verdict = "ceiling" /\ UNCHANGED <<measured, calls>>
                /\ failure' = IF verdict = "error" THEN "invalid_correction_result" ELSE "none"
    <2>1. ASSUME NEW S \in Selection, Visit(S, verdict)
          PROVE  \/ Measure(S, verdict)
                 \/ verdict = "ceiling" /\ UNCHANGED <<measured, calls>>
        BY <2>1 DEF Visit
    <2>2. CASE Probe(verdict)
        <3>1. Required \in Selection /\ Visit(Required, verdict) /\ phase = "done"
            BY <2>2, SelectionsTyped DEF Probe, AllocationInv, SearchInv
        <3>2. failure' = IF verdict = "error" THEN "invalid_correction_result" ELSE "none"
            BY <1>1, <2>2, <3>1, BasesAreReachable DEF Probe, Continue, Fail
        <3>3. QED BY <2>1, <3>1, <3>2
    <2>3. ASSUME NEW S \in pending, TryBase(S, verdict) \/ TryRescue(S, verdict)
          PROVE  /\ S \in Selection /\ Visit(S, verdict)
                 /\ failure' = IF verdict = "error" THEN "invalid_correction_result" ELSE "none"
        <3>1. S \in Selection /\ Visit(S, verdict)
            BY <2>3 DEF TryBase, TryRescue, SearchTypeOK
        <3>2. failure' = IF verdict = "error" THEN "invalid_correction_result" ELSE "none"
            <4>1. CASE verdict = "fits"
                BY <1>1, <2>3, <4>1 DEF TryBase, TryRescue, Settle
            <4>2. CASE verdict = "error"
                BY <1>1, <2>3, <4>2 DEF TryBase, TryRescue, Fail
            <4>3. CASE verdict \in {"over", "ceiling"}
                BY <1>1, <2>3, <4>3 DEF TryBase, TryRescue, Continue
            <4>4. QED BY <4>1, <4>2, <4>3
        <3>3. QED BY <3>1, <3>2
    <2>4. QED BY <1>3, <2>1, <2>2, <2>3
<1>4. CASE BeginRescue \/ Exhausted \/ Assemble \/ \E S \in pending : SearchLimit(S)
    <2>1. UNCHANGED <<measured, calls>>
        BY <1>4 DEF BeginRescue, Exhausted, Assemble, SearchLimit
    <2>2. CASE BeginRescue \/ Exhausted \/ Assemble
        BY <1>1, <2>1, <2>2 DEF BeginRescue, Exhausted, Assemble, Continue, Fail
    <2>3. CASE \E S \in pending : SearchLimit(S)
        BY <1>1, <2>1, <2>3 DEF SearchLimit, Fail
    <2>4. QED BY <1>4, <2>2, <2>3
<1>5. QED
    BY <1>1, <1>2, <1>3, <1>4 DEF Correction

\* Every step accounts for the calls it makes.
LEMMA TokenizedOnceStep ==
    ASSUME SearchContext, OutcomeInv, TokenizedOnce, [CompileNext]_<<vars, searchVars>>
    PROVE  TokenizedOnce'
<1>1. TokenizedOnce <=> calls = Cardinality(Tokenized)
                           + (IF failure = "invalid_correction_result" THEN 1 ELSE 0)
    BY Zenon DEF TokenizedOnce, Tokenized
<1>2. TokenizedOnce' <=> calls' = Cardinality(Tokenized)'
                           + (IF failure' = "invalid_correction_result" THEN 1 ELSE 0)
    BY Zenon DEF TokenizedOnce, Tokenized
<1>3. Cardinality(Tokenized) \in Nat /\ calls \in Nat
    BY SelectionsFinite, FS_CardinalityType DEF Tokenized, SearchContext, SearchTypeOK
<1>4. measured' = measured => Cardinality(Tokenized)' = Cardinality(Tokenized)
    BY DEF Tokenized
<1>5. CASE UNCHANGED searchVars
    BY <1>1, <1>2, <1>4, <1>5 DEF searchVars
<1>6. CASE Correction
    <2>1. failure = "none"
        BY <1>6, SearchAsks
    <2>2. CASE UNCHANGED <<measured, calls>> /\ failure' # "invalid_correction_result"
        BY <1>1, <1>2, <1>4, <2>1, <2>2
    <2>3. ASSUME NEW S \in Selection, NEW verdict, Measure(S, verdict),
                 failure' = IF verdict = "error" THEN "invalid_correction_result" ELSE "none"
          PROVE  TokenizedOnce'
        BY <1>1, <1>2, <1>3, <1>4, <2>1, <2>3, MeasureCounts DEF SearchContext
    <2>4. QED
        BY <1>6, <2>2, <2>3, SearchAsks
<1>7. QED BY <1>5, <1>6, SearchMoves

\* The limit is reported for a valid selection that was not visited.
LEMMA LimitStep ==
    ASSUME SearchContext, OutcomeInv, LimitIsHonest, [CompileNext]_<<vars, searchVars>>,
           SearchInv'
    PROVE  LimitIsHonest'
<1> SUFFICES ASSUME failure' = "correction_search_limit_exceeded"
             PROVE  Cardinality(visited') = limit' /\ RescueSelections' \ visited' # {}
    BY DEF LimitIsHonest, SearchInv
<1>1. CASE UNCHANGED searchVars
    <2>1. failure = "correction_search_limit_exceeded" /\ stage = "failed"
        BY <1>1 DEF searchVars, OutcomeInv
    <2>2. UNCHANGED vars
        BY <2>1, SearchMoves DEF CompileNext, Allocation, Correction
    <2>3. RescueSelections' = RescueSelections /\ UNCHANGED <<visited, limit>>
        BY <1>1, <2>2, AllocationFixed, BatchFixedSearch DEF searchVars
    <2>4. QED BY <2>1, <2>3 DEF LimitIsHonest
<1>2. CASE Correction
    <2>1. PICK S \in pending : SearchLimit(S)
        BY <1>2, SearchAsks
    <2>2. /\ S \notin visited /\ Cardinality(visited) = limit /\ UNCHANGED <<visited, limit>>
          /\ stage \in {"hard-base", "rescue"} /\ UNCHANGED vars
        BY <1>2, <2>1 DEF SearchLimit, AtLimit, Correction
    <2>3. S \in RescueSelections
        <3>1. CASE stage = "hard-base"
            <4>1. S \in HardBases /\ phase = "done"
                BY <3>1 DEF SearchContext, SearchInv
            <4>2. MeetsMaximums(IncludedBlocks) /\ Required \subseteq IncludedBlocks
                BY <4>1, KeptIsValid, NothingGivenBack DEF SearchContext, AllocationInv, PolicyValid
            <4>3. QED BY <4>1, <4>2, HardBaseIsValid DEF SearchContext, AllocationInv
        <3>2. CASE stage = "rescue"
            BY <3>2 DEF SearchContext, SearchInv
        <3>3. QED BY <2>2, <3>1, <3>2
    <2>4. RescueSelections' = RescueSelections
        BY <2>2, AllocationFixed, BatchFixedSearch
    <2>5. QED BY <2>2, <2>3, <2>4
<1>3. QED BY <1>1, <1>2, SearchMoves

\* A selection counts once against the bound and reaches the tokenizer once,
\* however often it is met, and neither a limit nor a tokenizer failure is
\* reported for anything else.
THEOREM SearchIsAccountedHolds == CompileSpec => []SearchIsAccounted
<1>1. CompileInit => TokenizedOnce /\ LimitIsHonest
    <2> SUFFICES ASSUME CompileInit PROVE TokenizedOnce /\ LimitIsHonest
        OBVIOUS
    <2>1. { S \in Selection : measured[S] # "unmeasured" } = {}
        BY DEF CompileInit
    <2>2. Cardinality({ S \in Selection : measured[S] # "unmeasured" }) = 0
        BY <2>1, FS_EmptySet, Zenon
    <2>3. Cardinality(visited) <= limit
        BY LimitsAssumption, FS_EmptySet DEF CompileInit
    <2>4. QED
        BY <2>2, <2>3 DEF CompileInit, TokenizedOnce, LimitIsHonest
<1>2. SearchContext /\ SearchContext' /\ OutcomeInv /\ (TokenizedOnce /\ LimitIsHonest)
         /\ [CompileNext]_<<vars, searchVars>> => (TokenizedOnce /\ LimitIsHonest)'
    BY TokenizedOnceStep, LimitStep DEF SearchContext
<1>3. TokenizedOnce /\ LimitIsHonest => SearchIsAccounted
    BY DEF SearchIsAccounted
<1>4. QED
    BY <1>1, <1>2, <1>3, SearchContextHolds, OutcomeHolds, PTL DEF CompileSpec

-----------------------------------------------------------------------------
(* The first selection that fits settles. *)

\* Neither enumeration order prefers two selections to each other, so what is
\* before the first pending selection is pending no more.
LEMMA OrdersAsymmetric ==
    ASSUME batch \in Batches, NEW S \in Selection, NEW T \in Selection
    PROVE  /\ ~ (BaseBefore(S, T) /\ BaseBefore(T, S))
           /\ ~ (RescueBefore(S, T) /\ RescueBefore(T, S))
<1>1. /\ \A a, b \in Block : ~ (CheaperMinimum(a, b) /\ CheaperMinimum(b, a))
      /\ \A a, b \in Block : ~ (RescueEarlier(a, b) /\ RescueEarlier(b, a))
    <2>1. \A a \in Block : /\ a \in Nat /\ batch.tokens[a] \in Nat /\ batch.score[a] \in Nat
                           /\ batch.category[a] \in Nat
        <3>1. \A x \in Category \cup {NoCategory} : x \in Nat
            BY CategoryAssumption DEF NoCategory
        <3>2. QED BY <3>1, BlockAssumption, BatchFacts
    <2>2. QED BY <2>1 DEF CheaperMinimum, RescueEarlier
<1>2. ASSUME NEW c \in Category, NEW d \in Category,
             Lexicographic(InCategory(S \ Required, c), InCategory(T \ Required, c),
                           CheaperMinimum),
             \A e \in Category : e < c => InCategory(S, e) = InCategory(T, e),
             Lexicographic(InCategory(T \ Required, d), InCategory(S \ Required, d),
                           CheaperMinimum),
             \A e \in Category : e < d => InCategory(T, e) = InCategory(S, e)
      PROVE  FALSE
    <2>1. c \in Nat /\ d \in Nat
        BY CategoryAssumption
    <2>2. c = d
        <3>1. /\ InCategory(S \ Required, c) # InCategory(T \ Required, c)
              /\ InCategory(S \ Required, d) # InCategory(T \ Required, d)
            BY <1>2 DEF Lexicographic
        <3>2. ~ (c < d) /\ ~ (d < c)
            BY <1>2, <3>1 DEF InCategory
        <3>3. QED BY <2>1, <3>2
    <2>3. PICK a \in InCategory(S \ Required, c) \ InCategory(T \ Required, c) :
              \A b \in InCategory(T \ Required, c) \ InCategory(S \ Required, c) :
                  CheaperMinimum(a, b)
        BY <1>2 DEF Lexicographic
    <2>4. PICK b \in InCategory(T \ Required, c) \ InCategory(S \ Required, c) :
              \A x \in InCategory(S \ Required, c) \ InCategory(T \ Required, c) :
                  CheaperMinimum(b, x)
        BY <1>2, <2>2 DEF Lexicographic
    <2>5. CheaperMinimum(a, b) /\ CheaperMinimum(b, a) /\ a \in Block /\ b \in Block
        BY <2>3, <2>4 DEF Selection, InCategory
    <2>6. QED BY <1>1, <2>5
<1>3. ~ (BaseBefore(S, T) /\ BaseBefore(T, S))
    BY <1>2 DEF BaseBefore
<1>4. ~ (RescueBefore(S, T) /\ RescueBefore(T, S))
    <2> SUFFICES ASSUME RescueBefore(S, T), RescueBefore(T, S) PROVE FALSE
        OBVIOUS
    <2>1. Cardinality(S) \in Nat /\ Cardinality(T) \in Nat
        BY BlockAssumption, FS_Subset, FS_CardinalityType DEF Selection
    <2>2. Lexicographic(S, T, RescueEarlier) /\ Lexicographic(T, S, RescueEarlier)
        BY <2>1 DEF RescueBefore
    <2>3. PICK a \in S \ T : \A b \in T \ S : RescueEarlier(a, b)
        BY <2>2 DEF Lexicographic
    <2>4. PICK b \in T \ S : \A x \in S \ T : RescueEarlier(b, x)
        BY <2>2 DEF Lexicographic
    <2>5. RescueEarlier(a, b) /\ RescueEarlier(b, a) /\ a \in Block /\ b \in Block
        BY <2>3, <2>4 DEF Selection
    <2>6. QED BY <1>1, <2>5
<1>5. QED BY <1>3, <1>4

\* Whatever an enumeration prefers to its next selection is pending no more.
LEMMA NoneBeforeFirst ==
    ASSUME TypeOK, pending \subseteq Selection, NEW S \in pending, NEW T \in pending
    PROVE  /\ NextBase(S) => ~ BaseBefore(T, S)
           /\ NextRescue(S) => ~ RescueBefore(T, S)
<1>1. batch \in Batches /\ S \in Selection /\ T \in Selection
    BY DEF TypeOK
<1>2. /\ ~ (BaseBefore(S, T) /\ BaseBefore(T, S)) /\ ~ (RescueBefore(S, T) /\ RescueBefore(T, S))
      /\ ~ (BaseBefore(S, S) /\ BaseBefore(S, S)) /\ ~ (RescueBefore(S, S) /\ RescueBefore(S, S))
    BY <1>1, OrdersAsymmetric
<1>3. CASE T = S
    BY <1>2, <1>3
<1>4. CASE T # S
    BY <1>2, <1>4 DEF NextBase, NextRescue, IsFirst
<1>5. QED BY <1>3, <1>4

\* No prefix of the eviction order is over the content ceiling.
LEMMA KeptWithinCeiling ==
    ASSUME TypeOK, BudgetInv, NEW n
    PROVE  ~ OverCeiling(Kept(n)) /\ ~ OverCeiling(IncludedBlocks)
<1>1. batch \in Batches /\ IncludedBlocks \in SUBSET Block /\ Kept(n) \in SUBSET IncludedBlocks
    BY SelectionsTyped DEF TypeOK, Selection, Kept
<1>2. /\ ContentTokens(Kept(n)) \in Nat /\ ContentTokens(IncludedBlocks) \in Nat
      /\ ContentTokens(Kept(n)) <= ContentTokens(IncludedBlocks)
    BY <1>1, ContentFacts
<1>3. batch.available \in Nat /\ remaining \in Nat
    BY <1>1, BatchFacts DEF TypeOK
<1>4. ContentTokens(IncludedBlocks) <= batch.available
    BY <1>2, <1>3 DEF BudgetInv
<1>5. QED BY <1>2, <1>3, <1>4 DEF OverCeiling

\* What the search rejected before it chose.
FirstFit ==
    /\ path # "initial" => \A n \in 0..(evicted - 1) : Rejected(Kept(n))
    /\ Rebuilt =>
          /\ \A n \in 0..Len(eviction) : Rejected(Kept(n))
          /\ \A S \in HardBases :
                path = "policy-selection-rescue" \/ BaseBefore(S, chosen) => Rejected(S)
    /\ path = "policy-selection-rescue" =>
          \A S \in RescueSelections : RescueBefore(S, chosen) => Rejected(S)

\* The chosen selection is within the ceiling and the first of its order, and
\* verifyResult has refused none.
FitInv ==
    /\ failure # "invalid_compilation_result"
    /\ stage \in {"result", "settled"} => ~ OverCeiling(chosen) /\ FirstFit

\* A selection that was chosen stays the first that fits.
LEMMA FitFrame ==
    ASSUME UNCHANGED vars, UNCHANGED <<path, evicted, measured, chosen>>,
           ~ OverCeiling(chosen), FirstFit
    PROVE  ~ OverCeiling(chosen)' /\ FirstFit'
<1>1. /\ \A S : Rejected(S)' = Rejected(S)
      /\ \A n : Kept(n)' = Kept(n) /\ Rejected(Kept(n))' = Rejected(Kept(n))
      /\ OverCeiling(chosen)' = OverCeiling(chosen)
      /\ eviction' = eviction
    BY AllocationFixed, BatchFixedSearch DEF Rejected
<1>2. \A S : /\ BaseBefore(S, chosen)' = BaseBefore(S, chosen)
             /\ RescueBefore(S, chosen)' = RescueBefore(S, chosen)
    BY DEF vars, BaseBefore, RescueBefore, Lexicographic, CheaperMinimum, RescueEarlier,
           InCategory, Required
<1>3. HardBases' = HardBases /\ RescueSelections' = RescueSelections
    BY AllocationFixed, BatchFixedSearch
<1>4. QED BY <1>1, <1>2, <1>3 DEF FirstFit, Rebuilt

\* The visit of the first pending base: if it fits, it is the first that fits.
LEMMA FitTryBase ==
    ASSUME SearchContext, UNCHANGED vars, NEW S \in pending, TryBase(S, "fits")
    PROVE  ~ OverCeiling(chosen)' /\ FirstFit'
<1>1. /\ stage = "hard-base" /\ phase = "done" /\ NextBase(S) /\ Visit(S, "fits")
      /\ path' = "hard-base" /\ chosen' = S /\ evicted' = evicted
    BY DEF TryBase, Settle, SearchContext, SearchInv
<1>2. /\ pending \subseteq HardBases /\ HardBases \subseteq Selection
      /\ \A T \in HardBases : T \in pending \/ Rejected(T)
      /\ \A n \in 0..Len(eviction) : Rejected(Kept(n))
      /\ evicted \in Nat /\ Len(eviction) \in Nat /\ evicted <= Len(eviction)
    BY <1>1, NothingGivenBack
       DEF SearchContext, SearchInv, AllocationInv, SearchTypeOK, HardBases
<1>3. \A n \in 0..Len(eviction') : Rejected(Kept(n))'
    BY <1>1, <1>2, KeptStaysRejected DEF SearchContext
<1>4. ASSUME NEW T \in HardBases, BaseBefore(T, S) PROVE Rejected(T)'
    <2>1. T \notin pending
        BY <1>1, <1>2, <1>4, NoneBeforeFirst DEF SearchContext, AllocationInv
    <2>2. Rejected(T) /\ T \in Selection
        BY <1>2, <2>1
    <2>3. QED BY <1>1, <1>2, <2>2, VisitKeepsRejected DEF SearchContext
<1>5. ~ OverCeiling(S) /\ OverCeiling(S)' = OverCeiling(S) /\ HardBases' = HardBases
    BY <1>1, AllocationFixed, BatchFixedSearch DEF Visit
<1>6. ~ OverCeiling(chosen)'
    BY <1>1, <1>5 DEF OverCeiling, ContentTokens
<1>7. \A T : BaseBefore(T, chosen)' = BaseBefore(T, S)
    BY <1>1 DEF vars, BaseBefore, Lexicographic, CheaperMinimum, InCategory, Required
<1>8. \A n \in 0..(evicted' - 1) : Rejected(Kept(n))'
    <2>1. Len(eviction') = Len(eviction)
        BY AllocationFixed
    <2>2. \A n \in 0..(evicted' - 1) : n \in 0..Len(eviction')
        BY <1>1, <1>2, <2>1
    <2>3. QED BY <1>3, <2>2
<1>9. QED BY <1>1, <1>3, <1>4, <1>5, <1>6, <1>7, <1>8 DEF FirstFit, Rebuilt

\* The visit of the first pending rescue selection, likewise.
LEMMA FitTryRescue ==
    ASSUME SearchContext, UNCHANGED vars, NEW S \in pending, TryRescue(S, "fits")
    PROVE  ~ OverCeiling(chosen)' /\ FirstFit'
<1>1. /\ stage = "rescue" /\ phase = "done" /\ NextRescue(S) /\ Visit(S, "fits")
      /\ path' = "policy-selection-rescue" /\ chosen' = S /\ evicted' = evicted
    BY DEF TryRescue, Settle, SearchContext, SearchInv
<1>2. /\ pending \subseteq RescueSelections /\ RescueSelections \subseteq Selection
      /\ HardBases \subseteq Selection
      /\ \A T \in RescueSelections : T \in pending \/ Rejected(T)
      /\ \A T \in HardBases : Rejected(T)
      /\ \A n \in 0..Len(eviction) : Rejected(Kept(n))
      /\ evicted \in Nat /\ Len(eviction) \in Nat /\ evicted <= Len(eviction)
    BY <1>1, NothingGivenBack
       DEF SearchContext, SearchInv, AllocationInv, SearchTypeOK, HardBases, RescueSelections
<1>3. \A n \in 0..Len(eviction') : Rejected(Kept(n))'
    BY <1>1, <1>2, KeptStaysRejected DEF SearchContext
<1>4. ASSUME NEW T \in RescueSelections, RescueBefore(T, S) PROVE Rejected(T)'
    <2>1. T \notin pending
        BY <1>1, <1>2, <1>4, NoneBeforeFirst DEF SearchContext, AllocationInv
    <2>2. Rejected(T) /\ T \in Selection
        BY <1>2, <2>1
    <2>3. QED BY <1>1, <1>2, <2>2, VisitKeepsRejected DEF SearchContext
<1>5. ASSUME NEW T \in HardBases PROVE Rejected(T)'
    BY <1>1, <1>2, VisitKeepsRejected DEF SearchContext
<1>6. /\ ~ OverCeiling(S) /\ OverCeiling(S)' = OverCeiling(S)
      /\ HardBases' = HardBases /\ RescueSelections' = RescueSelections
    BY <1>1, AllocationFixed, BatchFixedSearch DEF Visit
<1>7. ~ OverCeiling(chosen)'
    BY <1>1, <1>6 DEF OverCeiling, ContentTokens
<1>8. \A T : RescueBefore(T, chosen)' = RescueBefore(T, S)
    BY <1>1 DEF vars, RescueBefore, Lexicographic, RescueEarlier
<1>9. \A n \in 0..(evicted' - 1) : Rejected(Kept(n))'
    <2>1. Len(eviction') = Len(eviction)
        BY AllocationFixed
    <2>2. \A n \in 0..(evicted' - 1) : n \in 0..Len(eviction')
        BY <1>1, <1>2, <2>1
    <2>3. QED BY <1>3, <2>2
<1>10. QED
    BY <1>1, <1>3, <1>4, <1>5, <1>6, <1>7, <1>8, <1>9 DEF FirstFit, Rebuilt

\* The first prefix of the eviction order that fits.
LEMMA FitGiveBack ==
    ASSUME SearchContext, BudgetInv, UNCHANGED vars, GiveBack("fits")
    PROVE  ~ OverCeiling(chosen)' /\ FirstFit'
<1>1. /\ stage = "eviction" /\ phase = "done" /\ evicted \in Nat /\ evicted' = evicted + 1
      /\ Len(eviction) \in Nat /\ evicted < Len(eviction)
      /\ path' = "evicted" /\ chosen' = Kept(evicted + 1)
      /\ Measure(Kept(evicted + 1), "fits")
      /\ \A n \in 0..evicted : Rejected(Kept(n))
    BY NothingGivenBack
       DEF GiveBack, Settle, SearchContext, SearchInv, AllocationInv, SearchTypeOK
<1>2. Kept(evicted + 1) \in Selection
    BY <1>1, SelectionsTyped DEF SearchContext, AllocationInv
<1>3. \A T \in Selection : measured[T] # "unmeasured" => measured'[T] = measured[T]
    BY <1>1, <1>2, MeasureEffect DEF SearchContext
<1>4. ASSUME NEW n \in 0..evicted PROVE Rejected(Kept(n))'
    <2>1. Rejected(Kept(n)) /\ Kept(n) \in Selection /\ Kept(n)' = Kept(n)
        BY <1>1, KeptIsValid, AllocationFixed DEF SearchContext
    <2>2. OverCeiling(Kept(n)) \/ measured'[Kept(n)] = "over"
        BY <1>3, <2>1 DEF Rejected
    <2>3. QED BY <2>1, <2>2, AllocationFixed, BatchFixedSearch DEF Rejected
<1>5. ~ OverCeiling(Kept(evicted + 1))
    BY <1>1, KeptWithinCeiling DEF SearchContext, AllocationInv
<1>6. ~ OverCeiling(chosen)'
    BY <1>1, <1>5 DEF OverCeiling, ContentTokens, vars
<1>7. \A n \in 0..(evicted' - 1) : Rejected(Kept(n))'
    <2>1. \A n \in 0..(evicted' - 1) : n \in 0..evicted
        BY <1>1
    <2>2. QED BY <1>4, <2>1
<1>8. QED BY <1>1, <1>6, <1>7 DEF FirstFit, Rebuilt

\* Every step keeps the chosen selection the first that fits.
LEMMA FitStep ==
    ASSUME SearchContext, OutcomeInv, BudgetInv, FitInv, [CompileNext]_<<vars, searchVars>>
    PROVE  FitInv'
<1>1. CASE UNCHANGED searchVars /\ (stage = "allocation" \/ UNCHANGED vars)
    <2>1. CASE stage = "allocation"
        BY <1>1, <2>1 DEF searchVars, FitInv
    <2>2. CASE UNCHANGED vars
        BY <1>1, <2>2, FitFrame DEF searchVars, FitInv
    <2>3. QED BY <1>1, <2>1, <2>2
<1>2. CASE Correction
    <2>1. UNCHANGED vars
        BY <1>2 DEF Correction
    <2>2. ASSUME NEW verdict \in AnyVerdict, InitialRender(verdict) PROVE FitInv'
        <3>1. CASE verdict = "fits"
            <4>1. chosen' = IncludedBlocks /\ path' = "initial" /\ failure' = failure
                BY <2>2, <3>1 DEF InitialRender, Settle
            <4>2. ~ OverCeiling(IncludedBlocks)
                BY KeptWithinCeiling DEF SearchContext, AllocationInv
            <4>3. ~ OverCeiling(chosen)'
                BY <2>1, <4>1, <4>2 DEF OverCeiling, ContentTokens, vars
            <4>4. FirstFit'
                BY <4>1 DEF FirstFit, Rebuilt
            <4>5. QED BY <4>1, <4>3, <4>4 DEF FitInv
        <3>2. CASE verdict # "fits"
            BY <2>2, <3>2 DEF InitialRender, Continue, FitInv
        <3>3. QED BY <3>1, <3>2
    <2>3. ASSUME NEW verdict \in AnyVerdict, GiveBack(verdict) PROVE FitInv'
        <3>1. Kept(evicted + 1) \in Selection /\ Measure(Kept(evicted + 1), verdict)
            BY <2>3, SelectionsTyped DEF GiveBack, SearchContext, AllocationInv, SearchTypeOK
        <3>2. verdict \in {"fits", "over", "error"}
            BY <3>1, MeasureEffect DEF SearchContext
        <3>3. CASE verdict = "fits"
            <4>1. GiveBack("fits") /\ failure' = failure
                BY <2>3, <3>3 DEF GiveBack, Settle
            <4>2. QED BY <2>1, <4>1, FitGiveBack DEF FitInv
        <3>4. CASE verdict = "over"
            BY <2>3, <3>4 DEF GiveBack, Continue, FitInv
        <3>5. CASE verdict = "error"
            BY <2>3, <3>5 DEF GiveBack, Fail, FitInv
        <3>6. QED BY <3>2, <3>3, <3>4, <3>5
    <2>4. ASSUME NEW verdict \in AnyVerdict, Probe(verdict) PROVE FitInv'
        BY <2>4 DEF Probe, Continue, Fail, FitInv
    <2>5. ASSUME NEW S \in pending, NEW verdict \in AnyVerdict,
                 TryBase(S, verdict) \/ TryRescue(S, verdict)
          PROVE  FitInv'
        <3>1. CASE verdict = "fits"
            <4>1. failure' = failure
                BY <2>5, <3>1 DEF TryBase, TryRescue, Settle
            <4>2. QED BY <2>1, <2>5, <3>1, <4>1, FitTryBase, FitTryRescue DEF FitInv
        <3>2. CASE verdict = "error"
            BY <2>5, <3>2 DEF TryBase, TryRescue, Fail, FitInv
        <3>3. CASE verdict \notin {"fits", "error"}
            BY <2>5, <3>3 DEF TryBase, TryRescue, Continue, FitInv
        <3>4. QED BY <3>1, <3>2, <3>3
    <2>6. CASE Assemble
        <3>1. /\ stage = "result" /\ PolicyValid(chosen) /\ chosen \in Selection
              /\ measured[chosen] = "fits" /\ ~ OverCeiling(chosen) /\ FirstFit
            BY <2>6 DEF Assemble, SearchContext, SearchInv, OutcomeInv, FitInv
        <3>2. ContentTokens(chosen) <= batch.available
            <4>1. batch \in Batches /\ chosen \in SUBSET Block
                BY <3>1 DEF SearchContext, AllocationInv, TypeOK, Selection
            <4>2. ContentTokens(chosen) \in Nat /\ batch.available \in Nat
                BY <4>1, ContentFacts, BatchFacts
            <4>3. QED BY <3>1, <4>2 DEF OverCeiling
        <3>3. ResultHolds
            BY <3>1, <3>2 DEF ResultHolds
        <3>4. failure' = failure /\ UNCHANGED <<path, evicted, measured, chosen>>
            BY <2>6, <3>3 DEF Assemble
        <3>5. QED BY <2>1, <3>1, <3>4, FitFrame DEF FitInv
    <2>7. CASE BeginRescue \/ Exhausted \/ \E S \in pending : SearchLimit(S)
        BY <2>7 DEF BeginRescue, Exhausted, SearchLimit, Fail, Continue, FitInv
    <2>8. QED
        BY <1>2, <2>2, <2>3, <2>4, <2>5, <2>6, <2>7 DEF Correction, AnyVerdict
<1>3. QED BY <1>1, <1>2, SearchMoves

\* What is known of the chosen selection holds throughout a compilation.
LEMMA FitHolds == CompileSpec => []FitInv
<1>1. CompileInit => FitInv
    BY DEF CompileInit, FitInv
<1>2. ScoreContext => BudgetInv
    BY DEF ScoreContext
<1>3. SearchContext /\ OutcomeInv /\ BudgetInv /\ FitInv /\ [CompileNext]_<<vars, searchVars>>
         => FitInv'
    BY FitStep
<1>4. QED
    BY <1>1, <1>2, <1>3, CompilationRunsAllocator, ScoreContextHolds, SearchContextHolds,
       OutcomeHolds, PTL DEF CompileSpec

\* Whatever the tokenizer answers, the selection that settles is the first that
\* fits in the documented order, and verifyResult never refuses it.
THEOREM SettlesFirstFitHolds == CompileSpec => []SettlesFirstFit
<1>1. FitInv => SettlesFirstFit
    BY DEF FitInv, FirstFit, SettlesFirstFit
<1>2. QED
    BY <1>1, FitHolds, PTL

-----------------------------------------------------------------------------
(* The two orders of minimal bases agree. *)

\* What the allocator reserves is a minimal base and is enumerated before every
\* other: the cheapest slice per category is the lexicographically first.
LEMMA ReservedIsFirstBase ==
    ASSUME TypeOK, CountIssues = {}
    PROVE  /\ Reserved \in HardBases
           /\ \A T \in HardBases : T # Reserved => BaseBefore(Reserved, T)
<1>1. /\ batch \in Batches /\ Required \in SUBSET Block /\ Optional = Block \ Required
      /\ MinimumPicks \subseteq Optional /\ Reserved = Required \cup MinimumPicks
      /\ Reserved \ Required = MinimumPicks
      /\ batch.category \in [Block -> Category \cup {NoCategory}]
    BY PicksAreOptional, BatchFacts DEF TypeOK, Reserved
<1>2. \A b \in MinimumPicks : batch.category[b] \in Category
    BY <1>1, CheapestForCount DEF MinimumPicks, InCategory
<1>3. \A c \in Category : CountIn(Reserved \ Required, c) = Needed(c)
    <2> SUFFICES ASSUME NEW c \in Category PROVE CountIn(Reserved \ Required, c) = Needed(c)
        OBVIOUS
    <2>1. CountIn(Reserved \ Required, c) = CountIn(MinimumPicks, c)
        BY <1>1, Zenon
    <2>2. QED BY <2>1, PicksMeetNeeds
<1>4. Reserved \in HardBases
    BY <1>1, <1>2, <1>3 DEF HardBases, Selection
<1>5. ASSUME NEW T \in HardBases, T # Reserved PROVE BaseBefore(Reserved, T)
    <2> DEFINE D == { c \in Category : InCategory(Reserved, c) # InCategory(T, c) }
    <2>1. /\ T \in SUBSET Block /\ Required \subseteq T
          /\ \A b \in T \ Required : batch.category[b] \in Category
          /\ \A c \in Category : CountIn(T \ Required, c) = Needed(c)
        BY <1>5 DEF HardBases, Selection
    <2>2. D # {}
        <3>1. PICK b \in Block : (b \in T) # (b \in Reserved)
            BY <1>1, <1>5, <2>1
        <3>2. batch.category[b] \in Category
            BY <1>1, <1>2, <2>1, <3>1
        <3>3. InCategory(Reserved, batch.category[b]) # InCategory(T, batch.category[b])
            BY <3>1 DEF InCategory
        <3>4. QED BY <3>2, <3>3
    <2>3. D \in SUBSET Nat
        BY CategoryAssumption
    <2>4. PICK c \in D : \A d \in D : ~ (d < c)
        <3> HIDE DEF D
        <3>1. QED BY <2>2, <2>3, LeastMember
    <2> DEFINE A == InCategory(Reserved \ Required, c)
               B == InCategory(T \ Required, c)
    <2>5. c \in Category /\ InCategory(Reserved, c) # InCategory(T, c)
        OBVIOUS
    <2>6. A # B
        BY <1>1, <2>1, <2>5 DEF InCategory
    <2>7. A = CheapestFor(c) /\ B \subseteq InCategory(Optional, c)
        <3>1. InCategory(Reserved \ Required, c) = InCategory(MinimumPicks, c)
            BY <1>1, Zenon
        <3>2. InCategory(MinimumPicks, c) = CheapestFor(c)
            BY <2>5, PicksMeetNeeds
        <3>3. B \subseteq InCategory(Optional, c)
            BY <1>1, <2>1 DEF InCategory
        <3>4. QED BY <3>1, <3>2, <3>3, Zenon
    <2>8. Cardinality(A) = Cardinality(B) /\ IsFiniteSet(B)
        <3>1. CountIn(Reserved \ Required, c) = CountIn(T \ Required, c)
            BY <1>3, <2>1, <2>5
        <3>2. (T \ Required) \in SUBSET Block
            BY <2>1
        <3>3. IsFiniteSet(B)
            BY <3>2, CountIsNat
        <3>4. QED BY <3>1, <3>3, Zenon DEF CountIn
    <2>9. PICK a \in A : a \notin B
        <3> HIDE DEF A, B
        <3>1. A \in SUBSET B => A = B
            BY <2>8, FS_Subset
        <3>2. QED BY <2>6, <3>1
    <2>10. \A b \in B \ A : CheaperMinimum(a, b)
        BY <1>1, <2>5, <2>7, <2>9, LowerRankIsCheaper
    <2>11. Lexicographic(A, B, CheaperMinimum)
        BY <2>9, <2>10 DEF Lexicographic
    <2>12. \A d \in Category : d < c => InCategory(Reserved, d) = InCategory(T, d)
        BY <2>4
    <2>13. QED BY <2>5, <2>11, <2>12 DEF BaseBefore
<1>6. QED BY <1>4, <1>5

\* The first base the search visits is the choice the allocator made for the
\* category minimums, although two pieces of code order the candidates.
THEOREM FirstBaseIsAllocatorsHolds == CompileSpec => []FirstBaseIsAllocators
<1>1. SearchContext /\ AllocatorInv /\ RolesInv => FirstBaseIsAllocators
    <2> SUFFICES ASSUME SearchContext, AllocatorInv, RolesInv, stage = "hard-base",
                        pending = HardBases, NEW S \in pending, NextBase(S)
                 PROVE  S = Required \cup IncludedAs("INCLUDED_CATEGORY_MINIMUM")
        BY DEF FirstBaseIsAllocators
    <2>1. TypeOK /\ CountIssues = {} /\ phase = "done"
        BY DEF SearchContext, SearchInv, AllocatorInv, LoopInv
    <2>2. Required \cup IncludedAs("INCLUDED_CATEGORY_MINIMUM") = Reserved
        BY <2>1 DEF RolesInv, Reserved
    <2>3. CASE S # Reserved
        <3>1. BaseBefore(Reserved, S) /\ Reserved \in pending
            BY <2>1, <2>3, ReservedIsFirstBase
        <3>2. pending \subseteq Selection
            BY DEF HardBases
        <3>3. QED BY <2>1, <3>1, <3>2, NoneBeforeFirst
    <2>4. QED BY <2>2, <2>3
<1>2. ScoreContext => AllocatorInv
    BY DEF ScoreContext
<1>3. QED
    BY <1>1, <1>2, CompilationRunsAllocator, ScoreContextHolds, RolesHold, SearchContextHolds,
       PTL

-----------------------------------------------------------------------------
(* The settled trace explains every block. *)

\* The reasons a selection settles with, given the reason of each of its blocks.
ReasonsOf(reasonOf) == [b \in Block |-> IF b \in chosen THEN reasonOf[b] ELSE "none"]

\* How the chosen selection was found fixes what it is and why each of its
\* blocks is in it.
ChoiceInv ==
    /\ stage \in {"result", "settled"} =>
          /\ path # "none"
          /\ path \in {"initial", "evicted"} =>
                /\ evicted \in 0..Len(eviction)
                /\ chosen = Kept(evicted)
                /\ reasons = ReasonsOf(AllocatorReasons)
          /\ path = "hard-base" => chosen \in HardBases /\ reasons = ReasonsOf(BaseReasons)
          /\ path = "policy-selection-rescue" => reasons = ReasonsOf(RescueReasons)
    /\ stage = "settled" => decisions = [b \in Block |-> FinalDecision(b)]

\* What is known of the choice does not change while the selection is kept.
LEMMA ChoiceFrame ==
    ASSUME UNCHANGED vars, UNCHANGED <<path, evicted, chosen, reasons>>
    PROVE  /\ AllocatorReasons' = AllocatorReasons /\ BaseReasons' = BaseReasons
           /\ RescueReasons' = RescueReasons /\ HardBases' = HardBases
           /\ \A f : ReasonsOf(f)' = ReasonsOf(f)
           /\ \A n : Kept(n)' = Kept(n)
           /\ eviction' = eviction
           /\ \A b : FinalDecision(b)' = FinalDecision(b)
<1>1. \A x : IncludedAs(x)' = IncludedAs(x)
    BY DEF vars, IncludedAs
<1>2. /\ AllocatorReasons' = AllocatorReasons /\ BaseReasons' = BaseReasons
      /\ RescueReasons' = RescueReasons
    BY <1>1, AllocationFixed, BatchFixed DEF AllocatorReasons, BaseReasons, RescueReasons
<1>3. HardBases' = HardBases
    BY AllocationFixed, BatchFixedSearch
<1>4. \A b : FinalDecision(b)' = FinalDecision(b)
    BY DEF vars, FinalDecision, ExcludedBlocks, Rebuilt
<1>5. QED BY <1>2, <1>3, <1>4, AllocationFixed DEF ReasonsOf

\* Every step keeps what is known of the choice.
LEMMA ChoiceStep ==
    ASSUME SearchContext, ChoiceInv, [CompileNext]_<<vars, searchVars>>
    PROVE  ChoiceInv'
<1>1. CASE UNCHANGED searchVars /\ (stage = "allocation" \/ UNCHANGED vars)
    <2>1. CASE stage = "allocation"
        BY <1>1, <2>1 DEF searchVars, ChoiceInv
    <2>2. CASE UNCHANGED vars
        BY <1>1, <2>2, ChoiceFrame DEF searchVars, ChoiceInv
    <2>3. QED BY <1>1, <2>1, <2>2
<1>2. CASE Correction
    <2>1. /\ UNCHANGED vars
          /\ AllocatorReasons' = AllocatorReasons /\ BaseReasons' = BaseReasons
          /\ RescueReasons' = RescueReasons /\ HardBases' = HardBases
          /\ \A n : Kept(n)' = Kept(n)
          /\ eviction' = eviction
        <3>1. UNCHANGED vars
            BY <1>2 DEF Correction
        <3>2. \A x : IncludedAs(x)' = IncludedAs(x)
            BY <3>1 DEF vars, IncludedAs
        <3>3. QED
            BY <3>1, <3>2, AllocationFixed, BatchFixed, BatchFixedSearch
               DEF AllocatorReasons, BaseReasons, RescueReasons
    <2>2. Len(eviction) \in Nat /\ evicted \in Nat
        BY NothingGivenBack DEF SearchContext, AllocationInv, SearchTypeOK
    <2>3. ASSUME NEW verdict \in AnyVerdict, InitialRender(verdict) PROVE ChoiceInv'
        <3>1. CASE verdict = "fits"
            <4>1. /\ stage' = "result" /\ path' = "initial" /\ chosen' = IncludedBlocks
                  /\ reasons' = [b \in Block |-> IF b \in IncludedBlocks
                                                 THEN AllocatorReasons[b] ELSE "none"]
                  /\ evicted' = 0
                BY <2>3, <3>1 DEF InitialRender, Settle, SearchContext, SearchInv
            <4>2. Kept(0) = IncludedBlocks
                BY NothingGivenBack DEF SearchContext, AllocationInv
            <4>3. Kept(evicted)' = Kept(0) /\ evicted' \in 0..Len(eviction')
                BY <2>1, <2>2, <4>1 DEF Kept, vars, IncludedBlocks
            <4>4. reasons' = ReasonsOf(AllocatorReasons)'
                BY <2>1, <4>1 DEF ReasonsOf
            <4>5. QED BY <4>1, <4>2, <4>3, <4>4 DEF ChoiceInv
        <3>2. CASE verdict # "fits"
            BY <2>3, <3>2 DEF InitialRender, Continue, ChoiceInv
        <3>3. QED BY <3>1, <3>2
    <2>4. ASSUME NEW verdict \in AnyVerdict, GiveBack(verdict) PROVE ChoiceInv'
        <3>1. Kept(evicted + 1) \in Selection /\ Measure(Kept(evicted + 1), verdict)
            BY <2>4, SelectionsTyped DEF GiveBack, SearchContext, AllocationInv, SearchTypeOK
        <3>2. verdict \in {"fits", "over", "error"}
            BY <3>1, MeasureEffect DEF SearchContext
        <3>3. CASE verdict = "fits"
            <4>1. /\ stage' = "result" /\ path' = "evicted" /\ chosen' = Kept(evicted + 1)
                  /\ reasons' = [b \in Block |-> IF b \in Kept(evicted + 1)
                                                 THEN AllocatorReasons[b] ELSE "none"]
                  /\ evicted' = evicted + 1 /\ evicted < Len(eviction)
                BY <2>4, <3>3 DEF GiveBack, Settle
            <4>2. Kept(evicted)' = Kept(evicted + 1) /\ evicted' \in 0..Len(eviction')
                BY <2>1, <2>2, <4>1 DEF Kept, vars, IncludedBlocks
            <4>3. reasons' = ReasonsOf(AllocatorReasons)'
                BY <2>1, <4>1 DEF ReasonsOf
            <4>4. QED BY <4>1, <4>2, <4>3 DEF ChoiceInv
        <3>4. CASE verdict = "over"
            BY <2>4, <3>4 DEF GiveBack, Continue, ChoiceInv
        <3>5. CASE verdict = "error"
            BY <2>4, <3>5 DEF GiveBack, Fail, ChoiceInv
        <3>6. QED BY <3>2, <3>3, <3>4, <3>5
    <2>5. ASSUME NEW verdict \in AnyVerdict, Probe(verdict) PROVE ChoiceInv'
        BY <2>5 DEF Probe, Continue, Fail, ChoiceInv
    <2>6. ASSUME NEW S \in pending, NEW verdict \in AnyVerdict, TryBase(S, verdict)
          PROVE  ChoiceInv'
        <3>1. CASE verdict = "fits"
            <4>1. /\ stage' = "result" /\ path' = "hard-base" /\ chosen' = S
                  /\ reasons' = [b \in Block |-> IF b \in S THEN BaseReasons[b] ELSE "none"]
                BY <2>6, <3>1 DEF TryBase, Settle
            <4>2. S \in HardBases
                BY <2>6 DEF TryBase, SearchContext, SearchInv
            <4>3. reasons' = ReasonsOf(BaseReasons)'
                BY <2>1, <4>1 DEF ReasonsOf
            <4>4. QED BY <2>1, <4>1, <4>2, <4>3 DEF ChoiceInv
        <3>2. CASE verdict = "error"
            BY <2>6, <3>2 DEF TryBase, Fail, ChoiceInv
        <3>3. CASE verdict \notin {"fits", "error"}
            BY <2>6, <3>3 DEF TryBase, Continue, ChoiceInv
        <3>4. QED BY <3>1, <3>2, <3>3
    <2>7. ASSUME NEW S \in pending, NEW verdict \in AnyVerdict, TryRescue(S, verdict)
          PROVE  ChoiceInv'
        <3>1. CASE verdict = "fits"
            <4>1. /\ stage' = "result" /\ path' = "policy-selection-rescue" /\ chosen' = S
                  /\ reasons' = [b \in Block |-> IF b \in S THEN RescueReasons[b] ELSE "none"]
                BY <2>7, <3>1 DEF TryRescue, Settle
            <4>2. reasons' = ReasonsOf(RescueReasons)'
                BY <2>1, <4>1 DEF ReasonsOf
            <4>3. QED BY <4>1, <4>2 DEF ChoiceInv
        <3>2. CASE verdict = "error"
            BY <2>7, <3>2 DEF TryRescue, Fail, ChoiceInv
        <3>3. CASE verdict \notin {"fits", "error"}
            BY <2>7, <3>3 DEF TryRescue, Continue, ChoiceInv
        <3>4. QED BY <3>1, <3>2, <3>3
    <2>8. CASE Assemble
        <3>1. /\ stage = "result" /\ UNCHANGED <<path, evicted, chosen, reasons>>
              /\ decisions' = [b \in Block |-> FinalDecision(b)]
            BY <2>8 DEF Assemble
        <3>2. decisions' = [b \in Block |-> FinalDecision(b)']
            BY <2>1, <3>1, ChoiceFrame
        <3>3. QED BY <2>1, <3>1, <3>2, ChoiceFrame DEF ChoiceInv
    <2>9. CASE BeginRescue \/ Exhausted \/ \E S \in pending : SearchLimit(S)
        BY <2>9 DEF BeginRescue, Exhausted, SearchLimit, Fail, Continue, ChoiceInv
    <2>10. QED
        BY <1>2, <2>3, <2>4, <2>5, <2>6, <2>7, <2>8, <2>9 DEF Correction, AnyVerdict
<1>3. QED BY <1>1, <1>2, SearchMoves

\* What is known of the choice holds throughout a compilation.
LEMMA ChoiceHolds == CompileSpec => []ChoiceInv
<1>1. CompileInit => ChoiceInv
    BY DEF CompileInit, ChoiceInv
<1>2. SearchContext /\ ChoiceInv /\ [CompileNext]_<<vars, searchVars>> => ChoiceInv'
    BY ChoiceStep
<1>3. QED
    BY <1>1, <1>2, SearchContextHolds, PTL DEF CompileSpec

\* Every inclusion has one of the three reasons, and no block has two.
LEMMA InclusionRoles ==
    ASSUME TypeOK, DecisionInv
    PROVE  /\ IncludedBlocks = IncludedAs("INCLUDED_REQUIRED")
                  \cup IncludedAs("INCLUDED_CATEGORY_MINIMUM") \cup IncludedAs("INCLUDED_SCORE_ORDER")
           /\ \A x, y : x # y => IncludedAs(x) \cap IncludedAs(y) = {}
<1>1. \A i \in DOMAIN included : included[i].reason \in IncludeReasons
    BY DecisionsTyped DEF Inclusion
<1>2. QED BY <1>1 DEF DecisionInv, IncludedBlocks, IncludedAs, IncludeReasons

\* The decisions of a settled compilation that kept the allocator's reasons.
LEMMA KeptIsExplained ==
    ASSUME AllocatorInv, RolesInv, SearchInv, ChoiceInv, stage = "settled",
           path \in {"initial", "evicted"}, NEW b \in Block
    PROVE  /\ b \in Required <=> decisions[b] = "INCLUDED_REQUIRED"
           /\ decisions[b] = "EXCLUDED_INITIAL_ALLOCATION" <=> b \in ExcludedBlocks
           /\ decisions[b] = "EXCLUDED_RENDER_AWARE_CORRECTION" <=>
                 b \in { eviction[i] : i \in 1..evicted }
           /\ b \in chosen \cap IncludedAs("INCLUDED_SCORE_ORDER") <=>
                 decisions[b] = "INCLUDED_SCORE_ORDER"
<1>1. /\ phase = "done" /\ evicted \in 0..Len(eviction) /\ chosen = Kept(evicted)
      /\ reasons[b] = IF b \in chosen THEN AllocatorReasons[b] ELSE "none"
      /\ decisions[b] = FinalDecision(b)
      /\ Required \subseteq chosen
    BY DEF ChoiceInv, SearchInv, PolicyValid, ReasonsOf
<1>2. /\ IncludedAs("INCLUDED_REQUIRED") = Required
      /\ IncludedAs("INCLUDED_CATEGORY_MINIMUM") = MinimumPicks
      /\ IncludedBlocks = Required \cup MinimumPicks \cup IncludedAs("INCLUDED_SCORE_ORDER")
      /\ (Required \cup MinimumPicks) \cap IncludedAs("INCLUDED_SCORE_ORDER") = {}
      /\ IncludedBlocks \cap ExcludedBlocks = {}
      /\ IncludedBlocks \cup ExcludedBlocks = Block
    BY <1>1, InclusionRoles DEF AllocatorInv, RolesInv, DecisionInv, LoopInv
<1>3. AllocatorReasons[b] = IF b \in Required THEN "INCLUDED_REQUIRED"
                            ELSE IF b \in MinimumPicks THEN "INCLUDED_CATEGORY_MINIMUM"
                            ELSE "INCLUDED_SCORE_ORDER"
    BY <1>2 DEF AllocatorReasons
<1>4. decisions[b] = IF b \in chosen THEN AllocatorReasons[b]
                     ELSE IF b \in ExcludedBlocks THEN "EXCLUDED_INITIAL_ALLOCATION"
                     ELSE "EXCLUDED_RENDER_AWARE_CORRECTION"
    BY <1>1, <1>3 DEF FinalDecision, Rebuilt
<1>5. { eviction[i] : i \in 1..evicted } \subseteq IncludedBlocks
    <2>1. EvictedBlocks \subseteq IncludedBlocks
        BY <1>1 DEF AllocatorInv, EvictInv
    <2>2. DOMAIN eviction = 1..Len(eviction) /\ Len(eviction) \in Nat
        BY DecisionsTyped DEF AllocatorInv
    <2>3. \A i \in 1..evicted : i \in DOMAIN eviction
        BY <1>1, <2>2
    <2>4. QED BY <2>1, <2>3 DEF EvictedBlocks
<1>6. chosen = IncludedBlocks \ { eviction[i] : i \in 1..evicted }
    BY <1>1 DEF Kept
<1> DEFINE E == { eviction[i] : i \in 1..evicted }
           Score == IncludedAs("INCLUDED_SCORE_ORDER")
<1> HIDE DEF E, Score
<1>7. E \subseteq IncludedBlocks /\ chosen = IncludedBlocks \ E
    BY <1>5, <1>6 DEF E
<1>8. /\ b \in Required <=> decisions[b] = "INCLUDED_REQUIRED"
      /\ decisions[b] = "EXCLUDED_INITIAL_ALLOCATION" <=> b \in ExcludedBlocks
      /\ decisions[b] = "EXCLUDED_RENDER_AWARE_CORRECTION" <=> b \in E
      /\ b \in chosen \cap Score <=> decisions[b] = "INCLUDED_SCORE_ORDER"
    BY <1>1, <1>2, <1>3, <1>4, <1>7 DEF Score
<1>9. QED BY <1>8 DEF E, Score

\* The decisions of a settled compilation that rebuilt its selection.
LEMMA RebuiltIsExplained ==
    ASSUME SearchInv, ChoiceInv, stage = "settled", Rebuilt, NEW b \in Block
    PROVE  /\ b \in Required <=> decisions[b] = "INCLUDED_REQUIRED"
           /\ b \notin chosen <=> decisions[b] = "EXCLUDED_RENDER_AWARE_CORRECTION"
           /\ path = "hard-base" =>
                 (decisions[b] = "INCLUDED_CATEGORY_MINIMUM" <=> b \in chosen \ Required)
<1>1. decisions[b] = FinalDecision(b) /\ Required \subseteq chosen
    BY DEF ChoiceInv, SearchInv, PolicyValid
<1>2. CASE path = "hard-base"
    <2>1. reasons[b] = IF b \notin chosen THEN "none"
                       ELSE IF b \in Required THEN "INCLUDED_REQUIRED"
                       ELSE "INCLUDED_CATEGORY_MINIMUM"
        BY <1>2 DEF ChoiceInv, ReasonsOf, BaseReasons
    <2>2. QED BY <1>1, <2>1 DEF FinalDecision, Rebuilt
<1>3. CASE path = "policy-selection-rescue"
    <2>1. reasons[b] = IF b \notin chosen THEN "none"
                       ELSE IF b \in Required THEN "INCLUDED_REQUIRED"
                       ELSE "INCLUDED_RENDER_AWARE_CORRECTION"
        BY <1>3 DEF ChoiceInv, ReasonsOf, RescueReasons
    <2>2. QED BY <1>1, <1>3, <2>1 DEF FinalDecision, Rebuilt
<1>4. QED BY <1>2, <1>3 DEF Rebuilt

\* The settled trace explains every block by the decision that was made about it.
THEOREM DecisionsExplainSettlementHolds == CompileSpec => []DecisionsExplainSettlement
<1>1. SearchContext /\ AllocatorInv /\ RolesInv /\ ChoiceInv => DecisionsExplainSettlement
    <2> SUFFICES ASSUME SearchContext, AllocatorInv, RolesInv, ChoiceInv, stage = "settled"
                 PROVE  DecisionsExplainSettlement
        BY DEF DecisionsExplainSettlement
    <2>1. SearchInv /\ path \in Paths /\ path # "none" /\ Required \subseteq Block
        BY PicksAreOptional DEF SearchContext, SearchTypeOK, ChoiceInv, AllocatorInv
    <2>2. path \in {"initial", "evicted"} \/ Rebuilt
        BY <2>1 DEF Paths, Rebuilt
    <2>3. \A b \in Block : b \in Required <=> decisions[b] = "INCLUDED_REQUIRED"
        BY <2>1, <2>2, KeptIsExplained, RebuiltIsExplained
    <2>4. path \in {"initial", "evicted"} => \A b \in Block :
              /\ decisions[b] = "EXCLUDED_INITIAL_ALLOCATION" <=> b \in ExcludedBlocks
              /\ decisions[b] = "EXCLUDED_RENDER_AWARE_CORRECTION" <=>
                    b \in { eviction[i] : i \in 1..evicted }
              /\ b \in chosen \cap IncludedAs("INCLUDED_SCORE_ORDER") <=>
                    decisions[b] = "INCLUDED_SCORE_ORDER"
        BY <2>1, KeptIsExplained
    <2>5. Rebuilt => \A b \in Block :
              b \notin chosen <=> decisions[b] = "EXCLUDED_RENDER_AWARE_CORRECTION"
        BY <2>1, RebuiltIsExplained
    <2>6. ASSUME path = "hard-base", NEW c \in Category
          PROVE  Cardinality({ b \in Block : /\ batch.category[b] = c
                                             /\ decisions[b] = "INCLUDED_CATEGORY_MINIMUM" })
                   = Needed(c)
        <3> DEFINE L == { b \in Block : /\ batch.category[b] = c
                                        /\ decisions[b] = "INCLUDED_CATEGORY_MINIMUM" }
        <3>1. chosen \in HardBases
            BY <2>6 DEF ChoiceInv
        <3>2. chosen \subseteq Block /\ CountIn(chosen \ Required, c) = Needed(c)
            BY <3>1 DEF HardBases, Selection
        <3>3. \A b \in Block :
                 decisions[b] = "INCLUDED_CATEGORY_MINIMUM" <=> b \in chosen \ Required
            BY <2>1, <2>6, RebuiltIsExplained DEF Rebuilt
        <3>4. L = InCategory(chosen \ Required, c)
            BY <3>2, <3>3 DEF InCategory
        <3> HIDE DEF L
        <3>5. Cardinality(L) = CountIn(chosen \ Required, c)
            BY <3>4, Zenon DEF CountIn
        <3>6. QED BY <3>2, <3>5 DEF L
    <2>7. QED BY <2>3, <2>4, <2>5, <2>6 DEF DecisionsExplainSettlement
<1>2. ScoreContext => AllocatorInv
    BY DEF ScoreContext
<1>3. QED
    BY <1>1, <1>2, CompilationRunsAllocator, ScoreContextHolds, RolesHold, SearchContextHolds,
       ChoiceHolds, PTL

=============================================================================
