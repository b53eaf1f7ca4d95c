---------------------------- MODULE PassiveData ----------------------------
(***************************************************************************)
(* The walk the readers of PortValues share: they remember the objects     *)
(* they are inside of, refuse to enter one of these again, and forget an   *)
(* object when they leave it.                                              *)
(***************************************************************************)
EXTENDS PortValues, FiniteSets, SequencesExt, Relation

Enter(n, walk) == [walk EXCEPT !.inside = @ \cup {n}]
Refuse(walk)   == [walk EXCEPT !.refused = TRUE]

\* Defect: an object once seen is never forgotten.
LeaveSeen(n, walk) == walk

Leave(n, walk) == [walk EXCEPT !.inside = @ \ {n}]

Walks(graph) == [inside : SUBSET DOMAIN graph, refused : BOOLEAN]
Fresh        == [inside |-> {}, refused |-> FALSE]

Walk(reader, graph) ==
    LET visit[n \in DOMAIN graph, walk \in Walks(graph)] ==
            LET node == graph[n]
                field(w, f) == IF w.refused THEN w
                               ELSE IF ~ FieldOK(reader, node, f.kind) THEN Refuse(w)
                               ELSE IF Skipped(reader, node, f.kind) THEN w
                               ELSE visit[f.to, w]
            IN  IF ~ Compound(node) THEN IF LeafOK(reader, node) THEN walk ELSE Refuse(walk)
                ELSE IF n \in walk.inside \/ node.shape = "foreign" THEN Refuse(walk)
                ELSE Leave(n, FoldLeft(field, Enter(n, walk), node.fields))
    IN  visit

Refuses(reader, graph, root) == Walk(reader, graph)[root, Fresh].refused

-----------------------------------------------------------------------------
(* The same without an order of visits: no reachable loop, nothing refused. *)

Leads(reader, graph) ==
    [ m, n \in DOMAIN graph |->
        /\ Compound(graph[m])
        /\ \E f \in Range(graph[m].fields) : f.to = n /\ ~ Skipped(reader, graph[m], f.kind) ]

ReachableFrom(reader, graph, root) ==
    LET reach == ReflexiveTransitiveClosure(Leads(reader, graph), DOMAIN graph)
    IN  { n \in DOMAIN graph : reach[root, n] }

Acyclic(reader, graph, root) ==
    LET loop == TransitiveClosure(Leads(reader, graph), DOMAIN graph)
    IN  \A n \in ReachableFrom(reader, graph, root) : ~ loop[n, n]

IsPassive(reader, graph, root) ==
    /\ Acyclic(reader, graph, root)
    /\ \A n \in ReachableFrom(reader, graph, root) :
          IF Compound(graph[n])
          THEN /\ graph[n].shape # "foreign"
               /\ \A f \in Range(graph[n].fields) : FieldOK(reader, graph[n], f.kind)
          ELSE LeafOK(reader, graph[n])

=============================================================================
