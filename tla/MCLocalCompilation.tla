------------------------ MODULE MCLocalCompilation -------------------------
(***************************************************************************)
(* Two documents of one scope, a source of another scope, an entry that    *)
(* moves a document to the other file, and an entry that does not parse.   *)
(***************************************************************************)
EXTENDS LocalCompilation

Source(scope, name, locator) ==
    [parses |-> TRUE, scope |-> scope, type |-> "text", name |-> name, locator |-> locator]

First  == Source("s", 1, "f")
Second == [Source("s", 2, "g") EXCEPT !.type = "conversation"]
Moved  == Source("s", 1, "g")
Other  == Source("o", 1, "f")
Broken == [First EXCEPT !.parses = FALSE]

MCRegistries == { {First, Second}, {Second, Other} }
MCEntries    == { Moved, Other, Broken }

MCContent == { "twice", "lone", "one" }
MCFiles   == { [f |-> "one", g |-> "twice"] }
MCCut     == [ c \in MCContent |-> IF c = "twice" THEN << "p", "p" >> ELSE << "q" >> ]

\* Digests have nothing to do with names.
MCIdRank(id) == IF id[1] = "o" THEN 3 ELSE IF id[2] = "text" THEN 2 ELSE 1

MCBlockRank(id) == 10 * MCIdRank(id[1]) + 2 * id[3] + (IF id[2] = "p" THEN 0 ELSE 1)

MCRequests == { [scope |-> "s", query |-> "words", id |-> 1], [scope |-> "o", query |-> "blank", id |-> 1] }

MCHits == { [place |-> 1, score |-> 1], [place |-> 2, score |-> 1], [place |-> 3, score |-> 2],
            [place |-> 1, score |-> 0], [place |-> 9, score |-> 1] }

Trace(scope, id, version) == [valid |-> TRUE, scope |-> scope, id |-> id, version |-> version]

\* Records that disagree with their payload, one that says so, and a damaged one.
MCStoredRecords ==
    { [Envelope(Trace("s", 1, 2)) EXCEPT !.payload = p] :
        p \in { Trace("o", 1, 2), Trace("s", 2, 2), Trace("s", 1, 1), [Trace("s", 1, 2) EXCEPT !.valid = FALSE] } }
    \cup { Envelope(Trace("o", 1, 2)), Envelope(Trace("s", 2, 2)),
           [Envelope(Trace("s", 1, 2)) EXCEPT !.shape = FALSE] }

=============================================================================
