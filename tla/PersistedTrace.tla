--------------------------- MODULE PersistedTrace ---------------------------
(***************************************************************************)
(* SettledCompilationTraceValidator: which values are accepted as the      *)
(* record of a completed compilation when they are read back.              *)
(***************************************************************************)
EXTENDS CompilationTrace

Supported == {2, 3, 4}

Applicability == {"FILTERED_INAPPLICABLE", "FILTERED_SUPERSEDED"}
FinalReasons(disposition) ==
    CASE disposition = "filtered" -> {"FILTERED_POLICY"} \cup Applicability
      [] disposition = "included" -> {"INCLUDED_REQUIRED", "INCLUDED_CATEGORY_MINIMUM",
                                      "INCLUDED_SCORE_ORDER", "INCLUDED_RENDER_AWARE_CORRECTION"}
      [] disposition = "excluded" -> {"EXCLUDED_INITIAL_ALLOCATION",
                                      "EXCLUDED_RENDER_AWARE_CORRECTION"}

DecisionAccepted(d) ==
    CASE d.reason = "ELIGIBLE_INCOMPLETE_EVIDENCE" ->
            d.decision = "eligible" /\ d.total # {} /\ d.minimum # {} /\ d.incomplete # <<>>
      [] d.reason = "ELIGIBLE_REQUIRED" -> d.decision = "eligible" /\ d.total = {} /\ d.minimum = {}
      [] d.reason = "ELIGIBLE_POLICY"   -> d.decision = "eligible" /\ d.total # {}
      [] d.reason \in Applicability     -> d.decision = "filtered" /\ d.declared # <<>>
      [] d.reason = "FILTERED_SCORE_BELOW_MINIMUM" ->
            d.decision = "filtered" /\ d.total # {} /\ d.minimum # {}

FinalAccepted(d) ==
    /\ d.reason \in FinalReasons(d.disposition)
    /\ d.disposition = "included" <=> Cardinality(d.position) = 1

GroupAccepted(g) ==
    /\ g.canonical.tokens \in Nat
    /\ \A m \in Elements(g.members) : m.match \in {"same-block-id", "same-normalized-content"}
    /\ g.selection \in {"single-block", "required-block", "required-then-stable-block-id",
                        "stable-block-id"}
    /\ DecisionAccepted(g.filtering)
    /\ g.disposition \in {"filtered", "included", "excluded"}
    /\ Cardinality(g.position) <= 1

\* Which observations a version has words for.
EvidenceAccepted(version, g) ==
    IF version = 4 THEN g.evidence # {}
    ELSE g.evidence = {} /\ g.filtering.reason # "ELIGIBLE_INCOMPLETE_EVIDENCE"

VersionAccepted(trace) ==
    /\ \A g \in Elements(trace.groups) : EvidenceAccepted(trace.version, g)
    /\ trace.version = 2 =>
          /\ \A g \in Elements(trace.groups) : g.filtering.reason \notin Applicability
          /\ \A s \in trace.settlement : \A d \in Elements(s.decisions) :
                d.reason \notin Applicability

SettlementAccepted(s) ==
    /\ \A d \in Elements(s.decisions) : FinalAccepted(d)
    /\ s.tokens \in Nat

TraceAccepted(trace) ==
    /\ trace.settled
    /\ trace.coverage = "validation-and-rendering"
    /\ \A g \in Elements(trace.groups) : GroupAccepted(g)
    /\ \A f \in DOMAIN trace.totals : trace.totals[f] \in Nat
    /\ Cardinality(trace.settlement) = 1
    /\ \A s \in trace.settlement : SettlementAccepted(s)
    /\ VersionAccepted(trace)

PersistedIssues(trace) ==
    IF trace.version \notin Supported THEN {"unsupported_schema_version"}
    ELSE IF ~ trace.settled THEN {"unsettled_trace"}
    ELSE { code \in {"invalid_trace"} : ~ TraceAccepted(trace) }

=============================================================================
