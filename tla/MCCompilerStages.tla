-------------------------- MODULE MCCompilerStages --------------------------
(* Small requests for CompilerStages. *)
EXTENDS CompilerStages

\* 2 is 1 with other line ends; 4 has a lone surrogate; 5 cannot be counted.
MCContent   == 1..5
MCNormal    == [ c \in MCContent |-> IF c = 2 THEN 1 ELSE c ]
MCIllFormed == {4}
MCHigher    == << TRUE, FALSE, TRUE >>

Doc(id)  == [id |-> id, scope |-> 1, type |-> "text"]
BadDocs  == << [Doc(1) EXCEPT !.scope = 2], [Doc(2) EXCEPT !.type = "conversation"] >>

Block(id, content) ==
    [ id |-> id, doc |-> IF id = 3 THEN 2 ELSE 1, scope |-> 1, type |-> "text",
      location |-> IF id = 2 THEN {} ELSE {[kind |-> "text-range", start |-> 4 - id, end |-> 5]},
      content |-> content, hash |-> MCNormal[content], tokens |-> content, required |-> FALSE,
      priority |-> {}, category |-> {}, updated |-> {}, created |-> {} ]

\* Three blocks that agree on nothing but that the first two share their text.
B1 == [Block(1, 1) EXCEPT !.priority = {4}, !.updated = {1}]
B2 == [Block(2, 2) EXCEPT !.category = {1}, !.created = {5}, !.priority = {2}]
B3 == Block(3, 3)

Plain(b)                == [block |-> b, retrieval |-> {}]
Scored(b, contract, raw) == [block |-> b, retrieval |-> {[contract |-> contract, score |-> {raw}]}]
Unscored(b)             == [block |-> b, retrieval |-> {[contract |-> 1, score |-> {}]}]

GoodWrappers ==
    { Plain(B1), Scored(B1, 1, 2), Scored(B1, 2, 1), Unscored(B2),
      Scored([B2 EXCEPT !.required = TRUE], 1, 4), Plain(B3), Scored(B3, 3, 7),
      Plain([B3 EXCEPT !.required = TRUE]) }

\* Out of a window, without a rule, an authored priority out of its range.
BadEvidence == { Scored(B1, 1, 5), Scored(B3, 2, 0 - 1), Plain([B3 EXCEPT !.priority = {9}]) }

BadWrappers ==
    { Plain([B1 EXCEPT !.hash = 3]), Plain([B1 EXCEPT !.tokens = 4]), Plain([B1 EXCEPT !.scope = 2]),
      Plain([B1 EXCEPT !.doc = 3]), Plain([B1 EXCEPT !.type = "markdown"]),
      Plain([B2 EXCEPT !.location = {[kind |-> "conversation-message", index |-> {}, message |-> 1]}]),
      Plain(Block(1, 3)), Plain(Block(3, 4)), Plain(Block(3, 5)),
      Plain([B2 EXCEPT !.hash = 2]) }

\* ------------------------------------------------------------- policies
Rule(id, contract) == [rule |-> id, contract |-> contract, min |-> 0, max |-> 4]
Entry(key, amount) == [key |-> key, value |-> amount]

ScoringPolicy ==
    [ id |-> 1, schema |-> 1, scope |-> 1,
      retrieval        |-> {[weight |-> 2, rules |-> << Rule(1, 1), Rule(2, 2) >>]},
      authoredPriority |-> {[weight |-> 1, min |-> 0, max |-> 4]},
      sourcePriority   |-> {[weight |-> 1, default |-> 1, rules |-> << Entry(2, 3) >>]},
      categoryPriority |-> {[weight |-> 1, default |-> 0, rules |-> << Entry(1, 4) >>]},
      recency          |-> {[weight |-> 1, maxAge |-> 4, missing |-> 2]},
      ignored          |-> <<3>>,
      completeness     |-> << >> ]

Declared(incomplete) == [ c \in Elements(Components) |->
                            IF c \in incomplete THEN "incomplete" ELSE "complete" ]

EvidencePolicy == [ScoringPolicy EXCEPT !.schema = 2, !.completeness = Declared({"recency"})]
CompletePolicy == [ScoringPolicy EXCEPT !.schema = 2, !.completeness = Declared({})]
SparsePolicy   == [ScoringPolicy EXCEPT !.retrieval = {}, !.recency = {}, !.authoredPriority = {}]
HeavyPolicy    == [EvidencePolicy EXCEPT !.authoredPriority = {[weight |-> 9, min |-> 0, max |-> 4]}]

FilteringPolicy(schema, minimum, exclusions, onIncomplete) ==
    [ id |-> 2, schema |-> schema, minimum |-> minimum, onIncomplete |-> onIncomplete,
      applicability |-> IF schema = 1 THEN {} ELSE {[scope |-> 1, exclusions |-> exclusions]} ]

Exclude(block, reason) == [block |-> block, reason |-> reason]

GoodPolicies ==
    { [scoring |-> ScoringPolicy, filtering |-> FilteringPolicy(1, {7}, <<>>, "")],
      [scoring |-> SparsePolicy, filtering |-> FilteringPolicy(1, {}, <<>>, "")],
      [scoring |-> ScoringPolicy,
       filtering |-> FilteringPolicy(2, {}, << Exclude(2, "superseded"), Exclude(1, "superseded") >>, "")],
      [scoring |-> EvidencePolicy, filtering |-> FilteringPolicy(3, {8}, << Exclude(3, "inapplicable") >>, "admit")],
      [scoring |-> HeavyPolicy, filtering |-> FilteringPolicy(3, {}, <<>>, "reject")],
      [scoring |-> CompletePolicy, filtering |-> FilteringPolicy(3, {12}, <<>>, "reject")],
      [scoring |-> EvidencePolicy, filtering |-> FilteringPolicy(3, {12}, <<>>, "reject")] }

BadPolicies ==
    { [scoring |-> EvidencePolicy, filtering |-> FilteringPolicy(2, {}, <<>>, "")],
      [scoring |-> [EvidencePolicy EXCEPT !.ignored = <<1>>], filtering |-> FilteringPolicy(3, {}, <<>>, "admit")],
      [scoring |-> [ScoringPolicy EXCEPT !.retrieval = {[weight |-> 1, rules |-> << Rule(1, 1), Rule(1, 2) >>]}],
       filtering |-> FilteringPolicy(2, {}, << Exclude(1, "superseded"), Exclude(1, "inapplicable") >>, "")],
      [scoring |-> [EvidencePolicy EXCEPT !.scope = 2], filtering |-> FilteringPolicy(3, {}, <<>>, "admit")],
      [scoring |-> ScoringPolicy,
       filtering |-> FilteringPolicy(2, {}, << Exclude(2, "superseded"), Exclude(1, "inapplicable") >>, "")] }

\* ------------------------------------------------------------- requests
Request(docs, candidates, policy, available) ==
    [ scope |-> 1, docs |-> docs, candidates |-> candidates, policy |-> policy,
      reference |-> 5, available |-> available ]

Docs == << Doc(1), Doc(2) >>
SmallBatches(wrappers, n) == UNION { [1..k -> wrappers] : k \in 0..n }

Requests ==
    { Request(Docs, c, p, 4) : c \in SmallBatches(GoodWrappers, 3), p \in GoodPolicies }
    \cup { Request(Docs, c, p, 7) : c \in SmallBatches(GoodWrappers \cup BadEvidence, 2),
                                    p \in GoodPolicies \cup BadPolicies }
    \cup { Request(docs, c, p, 4) :
             docs \in { Docs, BadDocs, << Doc(1), Doc(2), Doc(2) >> },
             c \in SmallBatches({ Plain(B1), Plain(B2), Plain(B3) } \cup BadWrappers, 2),
             p \in { [scoring |-> SparsePolicy, filtering |-> FilteringPolicy(1, {}, <<>>, "")] } }
    \cup { Request(Docs, << Plain(B1), b, Plain(Block(1, 3)) >>,
                   [scoring |-> SparsePolicy, filtering |-> FilteringPolicy(1, {}, <<>>, "")], 4) :
             b \in { Plain(B2), Plain(B3) } }

\* ------------------------------------------------------------- values
Simple == [ n \in {1} |-> [shape |-> "object", fields |-> <<>>] ]

Targets == [kind : {"data"}, to : 1..3] \cup [kind : {"hidden", "symbol", "undefined", "accessor"}, to : {3}]
Graphs ==
    { [ n \in 1..3 |-> CASE n = 1 -> [shape |-> s, fields |-> f]
                         [] n = 2 -> [shape |-> t, fields |-> g]
                         [] n = 3 -> [shape |-> l, fields |-> <<>>] ] :
        s \in {"object", "array"}, t \in {"object", "foreign"},
        f \in [1..2 -> Targets], g \in {<<>>} \cup [1..1 -> Targets],
        l \in {"json", "nonfinite", "function"} }

MCInputs ==
    { [request |-> r, value |-> Simple] : r \in Requests }
    \cup { [request |-> Request(Docs, << Plain(B1) >>, p, 4), value |-> g] :
             g \in Graphs, p \in { q \in GoodPolicies : q.scoring = SparsePolicy } }

MCTokenizers    == { << 1, 2, 3, 4, Unusable >> }
MCRenderAnswers == { 4, 6, Threw, Unusable }
=============================================================================
