---------------------------- MODULE MCEvaluation ----------------------------
(***************************************************************************)
(* Two suites at a time.  Blocks cost 1 token each, but "y" after "x" is   *)
(* free, and so is "z" after them: counts are not monotone.                *)
(***************************************************************************)
EXTENDS Evaluation

\* "xyz" merge into one token, "xy" is three.
MCTokenCount(ids) ==
    CASE ids = <<>>                -> 0
      [] ids = << "x", "y" >>      -> 3
      [] ids = << "x", "y", "z" >> -> 2
      [] "bad" \in Range(ids)      -> -1
      [] OTHER                     -> Len(ids)

Places == << "a", "b", "c", "x", "y", "z" >>
MCIdPlace(id) == CHOOSE i \in DOMAIN Places : Places[i] = id

Found(id, score, rank) ==
    [id |-> id, retrieval |-> {[provider |-> "p", metric |-> "m", higher |-> TRUE, score |-> {score}, rank |-> rank]}]

Fact(importance, groups) == [importance |-> importance, groups |-> groups]

Case(id) ==
    [id |-> id, request |-> TRUE, batch |-> TRUE, available |-> 2,
     candidates |-> << Found("x", 1, {2}), Found("y", 1, {1}), Found("z", 2, {3}) >>,
     required |-> {"x"}, relevant |-> {}, irrelevant |-> {"z"},
     facts |-> { Fact("critical", {{"x"}, {"y"}}), Fact("minor", {{"x", "y"}}) },
     criteria |-> { [id |-> "k", weight |-> 1], [id |-> "l", weight |-> 2] },
     expected |-> {}]

Answering == Case("b")
Failing   == [Case("a") EXCEPT !.expected = {[stage |-> "allocation", code |-> "infeasible"]}]
Torn      == [Case("c") EXCEPT !.facts = @ \cup { Fact("major", {{"z"}}) }]
Uncounted == [Case("c") EXCEPT !.candidates = << Found("x", 1, {}), [id |-> "bad", retrieval |-> {}] >>,
                               !.facts = {}, !.irrelevant = {}]

\* Candidates that are no valid batch, with a count the tokenizer does not give
\* either: nobody asks for it.
Unsound   == [Uncounted EXCEPT !.batch = FALSE]

Suite(model, repeats, cases) == [model |-> model, repeats |-> repeats, severe |-> << 1, 2 >>, cases |-> cases]

Alone(cases) == << Suite(TRUE, 1, << Answering >>), Suite(FALSE, 1, cases) >>

MCPlans ==
    { << Suite(TRUE, 1, << Answering, Failing >>), Suite(FALSE, 2, << Answering >>) >>,
      << Suite(TRUE, 1, << Answering >>), Suite(TRUE, 1, << Answering >>) >>,
      Alone(<< Answering, Answering >>), Alone(<< Torn >>), Alone(<< Answering, Uncounted >>),
      << Suite(TRUE, 1, << Unsound >>), Suite(FALSE, 1, << Unsound, Answering >>) >> }

\* A tokenizer that counts otherwise the second time lets a compilation succeed
\* whose batch the harness refused.
MCOutcomes(case) ==
    { [ok |-> TRUE, included |-> {"x"}, tokens |-> 1],
      IF case.batch THEN [ok |-> FALSE, stage |-> "allocation", code |-> "infeasible"]
      ELSE [ok |-> FALSE, stage |-> "candidate-validation", code |-> "invalid"] }

Payload(text, model, met) == [kind |-> text, model |-> model, met |-> met]

MCPayloads ==
    { Payload("text", {"m"}, {"k", "l"}), Payload("text", {"n"}, {}),
      Payload("lone surrogate", {"m"}, {}), Payload("not text", {"m"}, {}) }

=============================================================================
