----------------------------- MODULE Evaluation -----------------------------
(***************************************************************************)
(* EvaluationHarness.runSuite, several suites at a time on one harness:    *)
(* they share the clock, its last accepted reading, and the provider.      *)
(* What happens between two awaits of a suite is one action.               *)
(***************************************************************************)
EXTENDS EvaluationMeasures, ModelCalls

CONSTANTS Plans,        \* what callers may run, by caller: [model, repeats, severe, cases]
          Outcomes(_),  \* what the compiler may make of a case: [ok, included, tokens] or [ok, stage, code]
          ClockKinds,   \* "monotone" as the port demands, or "any"
          MaxTime       \* bound: the last reading of the clock

VARIABLES suites,   \* what each caller runs
          runs,     \* per caller: [at, results, held]
          last,     \* the last reading the harness accepted, -1 before the first
          clock,    \* the last the clock gave
          kind,     \* what clock it is
          first,    \* ghost: the first reading accepted, -1 before
          asked     \* ghost: per caller, the calls made: <<case, call>>

vars == << suites, calls, runs, last, clock, kind, first, asked >>

Nobody == [case |-> "none"]

Init ==
    /\ suites \in Plans
    /\ CallsInit
    /\ runs = [ s \in Callers |-> [at |-> "suite", results |-> <<>>, held |-> Nobody] ]
    /\ last = -1 /\ clock = 0 /\ first = -1
    /\ kind \in ClockKinds
    /\ asked = [ s \in Callers |-> <<>> ]

CaseBefore(a, b) == IdPlace(a.id) < IdPlace(b.id)
Ordered(s) == SortSeq(suites[s].cases, CaseBefore)

Ended(s) == runs[s].at \in {"done", "invalid_case", "duplicate_case_id", "tokenizer_failed", "clock_failed"}

-----------------------------------------------------------------------------
(* The clock.  -1 stands for a reading that is no finite number of         *)
(* milliseconds.  A reading that is refused ends the suite that took it.   *)

Streams(n) ==
    { rs \in [1..n -> -1 .. MaxTime] :
        kind = "monotone" => \A i \in 1..n : rs[i] >= (IF i = 1 THEN clock ELSE rs[i - 1]) }

\* Defect: only readings of one measurement are compared.
AcceptedPairwise(rs) ==
    Max({ n \in 0 .. Len(rs) : \A i \in 1..n : rs[i] >= 0 /\ (i % 2 = 0 => rs[i] >= rs[i - 1]) })

\* How many of the readings are accepted: each is compared with the last one
\* the harness accepted, whichever suite took it.
Accepted(rs) ==
    Max({ n \in 0 .. Len(rs) : \A i \in 1..n : rs[i] >= 0 /\ rs[i] >= (IF i = 1 THEN last ELSE rs[i - 1]) })

ReadsClock(rs) ==
    /\ clock' = rs[Len(rs)]
    /\ last'  = IF Accepted(rs) = 0 THEN last ELSE rs[Accepted(rs)]
    /\ first' = IF first = -1 /\ Accepted(rs) > 0 THEN rs[1] ELSE first
    /\ UNCHANGED kind

-----------------------------------------------------------------------------
(* A suite.                                                                *)

Goes(s, at) == runs' = [runs EXCEPT ![s].at = at]

Publishes(s, result) ==
    runs' = [runs EXCEPT ![s] = [at |-> "case", results |-> Append(@.results, result), held |-> Nobody]]

Asks(s, case, call) ==
    /\ \E request \in {"valid", "refused"} : calls' = Sent(s, request)
    /\ asked' = [asked EXCEPT ![s] = Append(@, << case, call >>)]

\* Cases are validated before any of them runs, and told apart by identifier.
Starts(s) ==
    /\ runs[s].at = "suite"
    /\ Goes(s, IF \E c \in Range(suites[s].cases) : ~ CaseAccepted(c) THEN "invalid_case"
               ELSE IF \E i, j \in DOMAIN suites[s].cases : i # j /\ suites[s].cases[i].id = suites[s].cases[j].id
               THEN "duplicate_case_id"
               ELSE "case")
    /\ UNCHANGED << calls, last, clock, kind, first, asked >>

\* The repeats stop at the first that differs.
Deterministic(outcomes) == \A i \in DOMAIN outcomes : outcomes[i] = outcomes[1]

Result(case, outcomes, rs) ==
    [case |-> case.id, outcome |-> outcomes[1], latency |-> rs[2] - rs[1],
     deterministic |-> Deterministic(outcomes),
     expected |-> { ~ outcomes[1].ok /\ e.stage = outcomes[1].stage /\ e.code = outcomes[1].code : e \in case.expected },
     state |-> IF case.expected # {} THEN "skipped-expected-failure"
               ELSE IF ~ outcomes[1].ok THEN "skipped-compilation-failed" ELSE "disabled",
     batch |-> case.batch, order |-> <<>>, baseline |-> {}, compiled |-> {}, loss |-> {}, mismatch |-> FALSE]

\* From the validation of the batch to the first call of the model, if there
\* is one: the compilation is timed, its repeats are not.  Of candidates that
\* are no valid batch there is no baseline, and nothing to ask a model.
RunsCase(s) ==
    /\ runs[s].at = "case" /\ Len(runs[s].results) < Len(suites[s].cases)
    /\ LET case == Ordered(s)[Len(runs[s].results) + 1]
       IN  IF case.batch /\ ~ Countable(case)
           THEN Goes(s, "tokenizer_failed") /\ UNCHANGED << calls, last, clock, kind, first, asked >>
           ELSE \E outcomes \in [1 .. suites[s].repeats -> Outcomes(case)] :
                  LET model == suites[s].model /\ outcomes[1].ok /\ case.expected = {} /\ case.batch
                  IN  \E rs \in Streams(IF model THEN 3 ELSE 2) :
                        /\ ReadsClock(rs)
                        /\ IF Accepted(rs) < Len(rs) THEN Goes(s, "clock_failed") /\ UNCHANGED << calls, asked >>
                           ELSE IF model
                           THEN /\ Asks(s, case.id, "full-baseline")
                                /\ runs' = [runs EXCEPT ![s].at = "baseline",
                                                        ![s].held = [result |-> Result(case, outcomes, rs),
                                                                     case |-> case, start |-> rs[3]]]
                           ELSE Publishes(s, Result(case, outcomes, rs)) /\ UNCHANGED << calls, asked >>

Failed(result, state, order) == [result EXCEPT !.state = state, !.order = order]

\* validateModelProviderResult: text that is not well-formed is no answer.
Answered(s) == { p \in calls[s].payload : calls[s].code = "answered" /\ p.kind # "lone surrogate" }

Answer(case, payload, latency) ==
    [latency |-> latency, model |-> payload.model, score |-> Score(case, payload.met)]

\* A call that failed is not timed.  The end of one that resolved is read
\* before its result is looked at.
Returns(s, failed, Then(_)) ==
    /\ calls[s].phase = "settled"
    /\ IF calls[s].code # "answered"
       THEN Publishes(s, failed) /\ UNCHANGED << calls, last, clock, kind, first, asked >>
       ELSE \E rs \in Streams(1) :
              /\ ReadsClock(rs)
              /\ IF Accepted(rs) = 0 THEN Goes(s, "clock_failed") /\ UNCHANGED << calls, asked >>
                 ELSE IF Answered(s) = {} THEN Publishes(s, failed) /\ UNCHANGED << calls, asked >>
                 ELSE \E payload \in Answered(s) :
                        Then(Answer(runs[s].held.case, payload, rs[1] - runs[s].held.start))

BaselineReturns(s) ==
    /\ runs[s].at = "baseline"
    /\ Returns(s, Failed(runs[s].held.result, "baseline-call-failed", << "full-baseline" >>),
               LAMBDA answer :
                   /\ runs' = [runs EXCEPT ![s].at = "between", ![s].held.result.baseline = {answer}]
                   /\ UNCHANGED << calls, asked >>)

\* The answer is awaited once more before the second call: another suite may
\* read the clock in between.
AsksCompiled(s) ==
    /\ runs[s].at = "between"
    /\ \E rs \in Streams(1) :
          /\ ReadsClock(rs)
          /\ IF Accepted(rs) = 0 THEN Goes(s, "clock_failed") /\ UNCHANGED << calls, asked >>
             ELSE /\ Asks(s, runs[s].held.case.id, "compiled")
                  /\ runs' = [runs EXCEPT ![s].at = "compiled", ![s].held.start = rs[1]]

Both == << "full-baseline", "compiled" >>

\* Answers of two models are both published and not compared.
Compared(result, a, b) ==
    LET mismatch == a.model # {} /\ b.model # {} /\ a.model # b.model
    IN  [result EXCEPT !.state = "executed", !.order = Both, !.compiled = {b}, !.mismatch = mismatch,
                       !.loss = IF mismatch THEN {} ELSE { << p[1] - q[1], p[2] >> : p \in a.score, q \in b.score }]

CompiledReturns(s) ==
    /\ runs[s].at = "compiled"
    /\ Returns(s, Failed(runs[s].held.result, "compiled-call-failed", Both),
               LAMBDA answer :
                   /\ \E a \in runs[s].held.result.baseline :
                         Publishes(s, Compared(runs[s].held.result, a, answer))
                   /\ UNCHANGED << calls, asked >>)

Reports(s) ==
    /\ runs[s].at = "case" /\ Len(runs[s].results) = Len(suites[s].cases)
    /\ Goes(s, "done")
    /\ UNCHANGED << calls, last, clock, kind, first, asked >>

Turn(s) ==
    Starts(s) \/ RunsCase(s) \/ BaselineReturns(s) \/ AsksCompiled(s) \/ CompiledReturns(s) \/ Reports(s)

\* The timer and the runtime, and a server nothing is known of.
Runtime(s) == TimerFires(s) \/ AbortRejects(s)
Server(s)  ==
    \/ Rejects(s)
    \/ \E good \in BOOLEAN : Responds(s, good)
    \/ \E payload \in Payloads : Delivers(s, payload)

Outside == UNCHANGED << runs, last, clock, kind, first, asked >>

Finished == (\A s \in Callers : Ended(s)) /\ UNCHANGED vars

Next ==
    \/ \E s \in Callers :
          /\ Turn(s) \/ ((Runtime(s) \/ Server(s)) /\ Outside)
          /\ UNCHANGED suites
    \/ Finished

Fairness ==
    \A s \in Callers : WF_vars(Turn(s) /\ UNCHANGED suites) /\ WF_vars(Runtime(s) /\ Outside /\ UNCHANGED suites)

Spec == Init /\ [][Next]_vars /\ Fairness

-----------------------------------------------------------------------------
(* The report.                                                             *)

CaseOf(s, result) == CHOOSE c \in Range(suites[s].cases) : c.id = result.case

Severe(s, result) ==
    \E l \in result.loss : l[1] * suites[s].severe[2] > suites[s].severe[1] * l[2]

HowMany(s, Is(_)) == Cardinality({ i \in DOMAIN runs[s].results : Is(runs[s].results[i]) })

Counts(s) ==
    [cases                   |-> Len(runs[s].results),
     successfulCompilations  |-> HowMany(s, LAMBDA r : r.outcome.ok),
     expectedFailureCases    |-> HowMany(s, LAMBDA r : r.expected # {}),
     expectedFailuresMatched |-> HowMany(s, LAMBDA r : r.expected = {TRUE}),
     unexpectedFailures      |-> HowMany(s, LAMBDA r : ~ r.outcome.ok /\ r.expected = {}),
     providerFailures        |-> HowMany(s, LAMBDA r : r.state \in {"baseline-call-failed", "compiled-call-failed"}),
     determinismFailures     |-> HowMany(s, LAMBDA r : ~ r.deterministic),
     severeQualityLosses     |-> HowMany(s, LAMBDA r : Severe(s, r)),
     modelMismatches         |-> HowMany(s, LAMBDA r : r.mismatch)]

\* Nothing is measured of a case that was to fail, nor against no baseline.
IsMeasured(result) == result.outcome.ok /\ result.expected = {} /\ result.batch

Reductions(s) ==
    LET measured == SelectSeq(runs[s].results, IsMeasured)
    IN  [ i \in DOMAIN measured |-> TokenReduction(CaseOf(s, measured[i]), measured[i].outcome.tokens) ]

Latencies(result) ==
    << result.latency >>
    \o (IF result.baseline = {} THEN <<>> ELSE << (CHOOSE a \in result.baseline : TRUE).latency >>)
    \o (IF result.compiled = {} THEN <<>> ELSE << (CHOOSE a \in result.compiled : TRUE).latency >>)

AllLatencies(s) == FlattenSeq([ i \in DOMAIN runs[s].results |-> Latencies(runs[s].results[i]) ])

Report(s) ==
    [counts |-> Counts(s), reduction |-> Distribution(Reductions(s)), latency |-> Distribution(AllLatencies(s))]

-----------------------------------------------------------------------------
\* A report says what happened, whatever another suite does on the same harness:
\* a clock that never runs backwards fails no suite, and what a suite measured
\* one after another never adds up to more than the time it took; the calls a
\* result names are those that were made, in order, none for candidates that are
\* no valid batch, and a loss compares two answers of one model; every case is there once, and every one is counted as
\* a success, an expected or an unexpected failure.
ReportsAreHonest ==
    \A s \in Callers :
        /\ runs[s].at = "clock_failed" => kind # "monotone"
        /\ runs[s].results # <<>> => SumFunction(AllLatencies(s)) <= last - first
        /\ \A r \in Range(runs[s].results) :
              /\ r.order = LET mine == SelectSeq(asked[s], LAMBDA a : a[1] = r.case) IN [ i \in DOMAIN mine |-> mine[i][2] ]
              /\ r.loss # {} => \A a \in r.baseline, b \in r.compiled : a.model = {} \/ b.model = {} \/ a.model = b.model
              /\ r.state = "executed" <=> r.compiled # {}
              /\ ~ r.batch => r.order = <<>>
        /\ runs[s].at = "done" =>
              /\ [ i \in DOMAIN runs[s].results |-> runs[s].results[i].case ] = Ids(Ordered(s))
              /\ LET counts == Report(s).counts
                     failedAsTold == HowMany(s, LAMBDA r : r.expected # {} /\ ~ r.outcome.ok)
                     unmeasured   == HowMany(s, LAMBDA r : r.expected = {} /\ r.outcome.ok /\ ~ r.batch)
                 IN  /\ counts.cases = counts.unexpectedFailures + counts.successfulCompilations + failedAsTold
                     /\ counts.severeQualityLosses + counts.modelMismatches + counts.providerFailures
                            <= counts.successfulCompilations
                     /\ \A d \in Report(s).reduction :
                            d.count + unmeasured + counts.expectedFailureCases - failedAsTold
                                = counts.successfulCompilations
              /\ \A c \in Range(suites[s].cases) : KeyIsConsistent(c) /\ (c.batch => BaselinesFit(c))

\* Every suite ends, even where the server stops in the middle of an answer: it
\* is the timer that ends the call.
SuitesEnd == \A s \in Callers : <> Ended(s)

=============================================================================
