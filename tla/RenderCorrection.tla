-------------------------- MODULE RenderCorrection --------------------------
(***************************************************************************)
(* From an allocation to a result: ContextCompiler.#settle, #searchFallback *)
(* and #assemble (packages/compiler/src/context-compiler.ts).  The initial *)
(* render is kept if it fits; else the allocator's eviction order is given *)
(* back one block at a time; else a bounded search visits the required-only *)
(* selection, the minimal policy-valid bases, and every policy-valid        *)
(* selection.                                                               *)
(*                                                                         *)
(* The tokenizer is neither additive nor monotonic, so a rendered selection *)
(* fits or is over budget with no relation between one selection and        *)
(* another: the verdict is chosen when the selection is first tokenized.    *)
(* BudgetAllocator runs first, step by step, in the same behaviour.         *)
(***************************************************************************)
EXTENDS BudgetAllocator, CorrectionOrder

CONSTANT Limits       \* the values of maxCorrectionSelections to consider
ASSUME LimitsAssumption == Limits \subseteq Nat \ {0}

VARIABLES
    limit,        \* config.maxCorrectionSelections
    stage,        \* the part of #settle that runs, or the outcome of compile()
    path,         \* how the chosen selection was found
    evicted,      \* how many entries of the eviction order were given back
    measured,     \* state.measured: the verdict of each tokenized selection
    calls,        \* how often the tokenizer ran
    visited,      \* state.visited
    pending,      \* selections the running enumeration has still to yield
    chosen,       \* the selection that settled
    reasons,      \* settlement.inclusionReasons
    decisions,    \* the final decision of each block in the settled trace
    failure       \* code of the ContextCompilationError thrown

searchVars == <<limit, stage, path, evicted, measured, calls, visited, pending, chosen,
                reasons, decisions, failure>>

Stages    == {"allocation", "eviction", "hard-base", "rescue", "result", "settled", "failed"}
Paths     == {"none", "initial", "evicted", "hard-base", "policy-selection-rescue"}
Rebuilt   == path \in {"hard-base", "policy-selection-rescue"}
Verdicts  == {"unmeasured", "fits", "over"}
Failures  == {"none", "rendered_hard_constraints_exceed_budget",
              "required_content_exceeds_budget", "correction_search_limit_exceeded",
              "invalid_correction_result", "invalid_compilation_result"}
FinalReasons == {"none", "INCLUDED_REQUIRED", "INCLUDED_CATEGORY_MINIMUM",
                 "INCLUDED_SCORE_ORDER", "INCLUDED_RENDER_AWARE_CORRECTION",
                 "EXCLUDED_INITIAL_ALLOCATION", "EXCLUDED_RENDER_AWARE_CORRECTION"}

SearchTypeOK ==
    /\ limit \in Limits
    /\ stage \in Stages
    /\ path \in Paths
    /\ evicted \in Nat
    /\ measured \in [Selection -> Verdicts]
    /\ calls \in Nat
    /\ visited \in SUBSET Selection
    /\ pending \in SUBSET Selection
    /\ chosen \in Selection
    /\ reasons \in [Block -> FinalReasons]
    /\ decisions \in [Block -> FinalReasons]
    /\ failure \in Failures

CompileInit ==
    /\ Init
    /\ limit \in Limits
    /\ stage = "allocation"
    /\ path = "none"
    /\ evicted = 0
    /\ measured = [S \in Selection |-> "unmeasured"]
    /\ calls = 0
    /\ visited = {}
    /\ pending = {}
    /\ chosen = {}
    /\ reasons = [b \in Block |-> "none"]
    /\ decisions = [b \in Block |-> "none"]
    /\ failure = "none"

-----------------------------------------------------------------------------
(* The enumerations, by their contract: the next selection is the first of  *)
(* those still to come (HardBaseEnumeration, RescueEnumeration).            *)

\* Defect: the largest selections are visited first.
LargerFirst(S, T) == RescueBefore(T, S)
NextRescueLargest(S) == IsFirst(S, pending, LargerFirst)

NextBase(S)   == IsFirst(S, pending, BaseBefore)
NextRescue(S) == IsFirst(S, pending, RescueBefore)

-----------------------------------------------------------------------------
(* #measure: a cached verdict is reused, anything else goes to the tokenizer. *)

Measure(S, verdict) ==
    IF measured[S] # "unmeasured"
    THEN verdict = measured[S] /\ UNCHANGED <<measured, calls>>
    ELSE /\ verdict \in {"fits", "over", "error"}
         /\ calls' = calls + 1
         /\ measured' = IF verdict = "error" THEN measured
                        ELSE [measured EXCEPT ![S] = verdict]

Fail(code) ==
    /\ stage' = "failed"
    /\ failure' = code
    /\ UNCHANGED <<path, chosen, reasons>>

\* The first selection that fits, how it was found and why each block is in it.
Settle(S, how, reasonOf) ==
    /\ stage' = "result"
    /\ path' = how
    /\ chosen' = S
    /\ reasons' = [b \in Block |-> IF b \in S THEN reasonOf[b] ELSE "none"]
    /\ UNCHANGED failure

\* The search goes on in the given stage.
Continue(next) == stage' = next /\ UNCHANGED <<path, chosen, reasons, failure>>

AllocatorReasons ==
    [b \in Block |-> IF b \in IncludedAs("INCLUDED_REQUIRED") THEN "INCLUDED_REQUIRED"
                     ELSE IF b \in IncludedAs("INCLUDED_CATEGORY_MINIMUM")
                          THEN "INCLUDED_CATEGORY_MINIMUM" ELSE "INCLUDED_SCORE_ORDER"]
BaseReasons ==
    [b \in Block |-> IF b \in Required THEN "INCLUDED_REQUIRED"
                     ELSE "INCLUDED_CATEGORY_MINIMUM"]
RescueReasons ==
    [b \in Block |-> IF b \in Required THEN "INCLUDED_REQUIRED"
                     ELSE "INCLUDED_RENDER_AWARE_CORRECTION"]

-----------------------------------------------------------------------------
(* #settle: the initial render, then the eviction order prefix by prefix. *)

Kept(n) == IncludedBlocks \ { eviction[i] : i \in 1..n }

\* ContextRenderer tokenizes the allocator's selection; attempt 0 is cached.
InitialRender(verdict) ==
    /\ stage = "allocation" /\ phase = "done"
    /\ verdict # "error"
    /\ Measure(IncludedBlocks, verdict)
    /\ IF verdict = "fits"
       THEN Settle(IncludedBlocks, "initial", AllocatorReasons)
       ELSE Continue("eviction")
    /\ UNCHANGED <<limit, evicted, visited, pending, decisions>>

GiveBack(verdict) ==
    /\ stage = "eviction" /\ evicted < Len(eviction)
    /\ evicted' = evicted + 1
    /\ Measure(Kept(evicted + 1), verdict)
    /\ CASE verdict = "fits"  -> Settle(Kept(evicted + 1), "evicted", AllocatorReasons)
         [] verdict = "over"  -> Continue("eviction")
         [] verdict = "error" -> Fail("invalid_correction_result")
    /\ UNCHANGED <<limit, visited, pending, decisions>>

-----------------------------------------------------------------------------
(* #searchFallback *)

\* Defect: a selection visited before counts against the bound again.
AtLimitRepeated(S) == Cardinality(visited) = limit

AtLimit(S)     == S \notin visited /\ Cardinality(visited) = limit
OverCeiling(S) == ContentTokens(S) > batch.available

\* #visit: the bound first, then the content ceiling, and only then the render.
Visit(S, verdict) ==
    /\ ~ AtLimit(S)
    /\ visited' = visited \cup {S}
    /\ IF OverCeiling(S) THEN verdict = "ceiling" /\ UNCHANGED <<measured, calls>>
                         ELSE verdict # "ceiling" /\ Measure(S, verdict)

ActiveDeficit == \E c \in Category : Needed(c) > 0

\* Defect: required content that renders within the budget is settled at once.
ProbeSettles(verdict) ==
    /\ stage = "eviction" /\ evicted = Len(eviction)
    /\ Visit(Required, verdict)
    /\ CASE verdict = "fits"  -> Settle(Required, "hard-base", BaseReasons) /\ UNCHANGED pending
         [] verdict = "error" -> Fail("invalid_correction_result") /\ UNCHANGED pending
         [] OTHER             -> Continue("hard-base") /\ pending' = HardBases
    /\ UNCHANGED <<limit, evicted, decisions>>

\* The required-only probe is measured and never a verdict.
Probe(verdict) ==
    /\ stage = "eviction" /\ evicted = Len(eviction)
    /\ Visit(Required, verdict)
    /\ IF verdict = "error"
       THEN Fail("invalid_correction_result") /\ UNCHANGED pending
       ELSE IF \E c \in Category : CountIn(Optional, c) < Needed(c)
            THEN Fail("invalid_correction_result") /\ UNCHANGED pending
            ELSE Continue("hard-base") /\ pending' = HardBases
    /\ UNCHANGED <<limit, evicted, decisions>>

\* Defect: the generator is not advanced after a base that does not fit.
TryBaseAgain(S, verdict) ==
    /\ stage = "hard-base" /\ NextBase(S)
    /\ Visit(S, verdict)
    /\ CASE verdict = "fits"  -> Settle(S, "hard-base", BaseReasons)
         [] verdict = "error" -> Fail("invalid_correction_result")
         [] OTHER             -> Continue("hard-base")
    /\ UNCHANGED <<limit, evicted, pending, decisions>>

TryBase(S, verdict) ==
    /\ stage = "hard-base" /\ NextBase(S)
    /\ Visit(S, verdict)
    /\ pending' = pending \ {S}
    /\ CASE verdict = "fits"  -> Settle(S, "hard-base", BaseReasons)
         [] verdict = "error" -> Fail("invalid_correction_result")
         [] OTHER             -> Continue("hard-base")
    /\ UNCHANGED <<limit, evicted, decisions>>

\* Defect: exhausting the minimal bases is taken for a proof.
BeginNoRescue ==
    /\ stage = "hard-base" /\ pending = {}
    /\ Continue("rescue")
    /\ UNCHANGED <<limit, evicted, measured, calls, visited, pending, decisions>>

BeginRescue ==
    /\ stage = "hard-base" /\ pending = {}
    /\ Continue("rescue")
    /\ pending' = RescueSelections
    /\ UNCHANGED <<limit, evicted, measured, calls, visited, decisions>>

TryRescue(S, verdict) ==
    /\ stage = "rescue" /\ NextRescue(S)
    /\ Visit(S, verdict)
    /\ pending' = pending \ {S}
    /\ CASE verdict = "fits"  -> Settle(S, "policy-selection-rescue", RescueReasons)
         [] verdict = "error" -> Fail("invalid_correction_result")
         [] OTHER             -> Continue("rescue")
    /\ UNCHANGED <<limit, evicted, decisions>>

SearchLimit(S) ==
    /\ \/ stage = "hard-base" /\ NextBase(S)
       \/ stage = "rescue" /\ NextRescue(S)
    /\ AtLimit(S)
    /\ Fail("correction_search_limit_exceeded")
    /\ UNCHANGED <<limit, evicted, measured, calls, visited, pending, decisions>>

\* #exhaustedFailure
Exhausted ==
    /\ stage = "rescue" /\ pending = {}
    /\ Fail(IF ActiveDeficit THEN "rendered_hard_constraints_exceed_budget"
                             ELSE "required_content_exceeds_budget")
    /\ UNCHANGED <<limit, evicted, measured, calls, visited, pending, decisions>>

-----------------------------------------------------------------------------
(* #assemble: finalDecisions, then verifyResult. *)

\* Defect: the allocator's exclusion is reported for a rebuilt selection too.
FinalDecisionStale(b) ==
    IF b \in chosen
    THEN IF reasons[b] = "none" THEN "INCLUDED_SCORE_ORDER" ELSE reasons[b]
    ELSE IF b \in ExcludedBlocks
         THEN "EXCLUDED_INITIAL_ALLOCATION" ELSE "EXCLUDED_RENDER_AWARE_CORRECTION"

FinalDecision(b) ==
    IF b \in chosen
    THEN IF reasons[b] = "none" THEN "INCLUDED_SCORE_ORDER" ELSE reasons[b]
    ELSE IF b \in ExcludedBlocks /\ ~ Rebuilt
         THEN "EXCLUDED_INITIAL_ALLOCATION" ELSE "EXCLUDED_RENDER_AWARE_CORRECTION"

ResultHolds ==
    /\ measured[chosen] = "fits"
    /\ ContentTokens(chosen) <= batch.available
    /\ PolicyValid(chosen)

Assemble ==
    /\ stage = "result"
    /\ decisions' = [b \in Block |-> FinalDecision(b)]
    /\ IF ResultHolds
       THEN stage' = "settled" /\ UNCHANGED failure
       ELSE stage' = "failed" /\ failure' = "invalid_compilation_result"
    /\ UNCHANGED <<limit, path, evicted, measured, calls, visited, pending, chosen, reasons>>

-----------------------------------------------------------------------------
Allocation == stage = "allocation" /\ Next /\ UNCHANGED searchVars

Correction ==
    /\ \/ \E verdict \in {"fits", "over", "error", "ceiling"} :
             \/ InitialRender(verdict) \/ GiveBack(verdict) \/ Probe(verdict)
             \/ \E S \in pending : TryBase(S, verdict) \/ TryRescue(S, verdict)
       \/ BeginRescue \/ Exhausted \/ Assemble
       \/ \E S \in pending : SearchLimit(S)
    /\ UNCHANGED vars

CompileNext == Allocation \/ Correction

CompileSpec == CompileInit /\ [][CompileNext]_<<vars, searchVars>>

\* compile() is synchronous code that runs to its end.
FairCompileSpec == CompileSpec /\ WF_<<vars, searchVars>>(CompileNext)

-----------------------------------------------------------------------------
\* Known not to be usable: over the content ceiling, or rendered over budget.
Rejected(S) == OverCeiling(S) \/ measured[S] = "over"

\* INV-BUDGET-001/003, INV-ALLOC-003: whatever path settles, the selection
\* holds every required block, meets every minimum and maximum, and was rendered
\* and counted as a whole within the budget.
SettledSound ==
    stage \in {"result", "settled"} => PolicyValid(chosen) /\ measured[chosen] = "fits"

\* DEC-038: infeasibility is claimed only as a proof.  When the search reports
\* exhaustion, every policy-valid selection was ruled out by its own content or
\* its own render, supersets of over-budget ones included.
ExhaustionIsProof ==
    failure \in {"rendered_hard_constraints_exceed_budget", "required_content_exceeds_budget"}
        => \A S \in RescueSelections : Rejected(S)

\* DEC-038: the search visits at most maxCorrectionSelections selections, and
\* reports the limit only while a policy-valid selection is still unvisited: a
\* completed search is never reported as an interrupted one.
LimitIsHonest ==
    /\ Cardinality(visited) <= limit
    /\ failure = "correction_search_limit_exceeded" =>
          Cardinality(visited) = limit /\ RescueSelections \ visited # {}

\* One cache spans the initial render, the eviction prefixes and the three
\* phases of the search: no selection reaches the tokenizer twice, and an
\* invalid_correction_result is a tokenizer failure and nothing else.
TokenizedOnce ==
    calls = Cardinality({ S \in Selection : measured[S] # "unmeasured" })
            + (IF failure = "invalid_correction_result" THEN 1 ELSE 0)

\* The bound and the cache together: a selection counts once, is tokenized once,
\* and neither a limit nor a tokenizer failure is reported for anything else.
SearchIsAccounted == LimitIsHonest /\ TokenizedOnce

\* DEC-033/038: the settled selection is the first that fits in the documented
\* order, and verifyResult never refuses it, the content ceiling included.  Everything before it was tried: the shorter eviction prefixes, and
\* once the search rebuilt the selection all of them, then the bases preferred
\* to it, then all bases and the smaller selections.
SettlesFirstFit ==
    /\ failure # "invalid_compilation_result"
    /\ stage = "settled" =>
        /\ path # "initial" => \A n \in 0..(evicted - 1) : Rejected(Kept(n))
        /\ Rebuilt =>
              /\ \A n \in 0..Len(eviction) : Rejected(Kept(n))
              /\ \A S \in HardBases :
                    path = "policy-selection-rescue" \/ BaseBefore(S, chosen) => Rejected(S)
        /\ path = "policy-selection-rescue" =>
              \A S \in RescueSelections : RescueBefore(S, chosen) => Rejected(S)

\* DEC-038: the first base the search visits is the choice the allocator made
\* for the category minimums, although the two order candidates in different
\* code over different structures.
FirstBaseIsAllocators ==
    stage = "hard-base" /\ pending = HardBases =>
        \A S \in pending : NextBase(S) =>
            S = Required \cup IncludedAs("INCLUDED_CATEGORY_MINIMUM")

\* INV-TRACE-001: the settled trace explains every block by the decision that
\* was really made about it: the allocator's reason survives an eviction, an
\* eviction is exactly a given-back block, and a rebuilt selection labels
\* exactly the deficit of each category as its minimum.
DecisionsExplainSettlement ==
    stage = "settled" =>
        /\ \A b \in Block : b \in Required <=> decisions[b] = "INCLUDED_REQUIRED"
        /\ path \in {"initial", "evicted"} => \A b \in Block :
              /\ decisions[b] = "EXCLUDED_INITIAL_ALLOCATION" <=> b \in ExcludedBlocks
              /\ decisions[b] = "EXCLUDED_RENDER_AWARE_CORRECTION" <=>
                    b \in { eviction[i] : i \in 1..evicted }
              /\ b \in chosen \cap IncludedAs("INCLUDED_SCORE_ORDER") <=>
                    decisions[b] = "INCLUDED_SCORE_ORDER"
        /\ Rebuilt => \A b \in Block :
              b \notin chosen <=> decisions[b] = "EXCLUDED_RENDER_AWARE_CORRECTION"
        /\ path = "hard-base" => \A c \in Category :
              Cardinality({ b \in Block : /\ batch.category[b] = c
                                          /\ decisions[b] = "INCLUDED_CATEGORY_MINIMUM" })
              = Needed(c)

\* Whatever the tokenizer answers, the search ends: it settles or it fails.
CompilationEnds == <>(stage \in {"settled", "failed"} \/ phase = "failed")

=============================================================================
