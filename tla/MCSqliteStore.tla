---------------------------- MODULE MCSqliteStore ----------------------------
EXTENDS SqliteStore, FiniteSets

CONSTANTS c1, c2, s1, s2, n1, f1, i1, p1, p2

MCConnection == {c1, c2}
MCScope == {s1, s2}
Source  == [scope |-> s1, name |-> n1]

\* One registration and one identifier that both connections compete for, two
\* different traces for it, and readers of the right and of the wrong scope.
MCCalls ==
    {[op |-> "open"]}
    \cup {[op |-> "putTrace", id |-> i1, trace |-> [scope |-> s1, payload |-> p]] : p \in {p1, p2}}
    \cup {[op |-> "getTrace", id |-> i1, scope |-> s] : s \in MCScope}
    \cup {[op |-> o, key |-> Source, fields |-> f1] : o \in {"registerSource", "updateSource"}}
    \cup {[op |-> "removeSource", key |-> Source], [op |-> "listSources", scope |-> s1]}

\* A new file, a foreign one with a table of that name, one of a newer build,
\* one whose version cannot be read, and current ones with rows of any build.
MCFiles ==
    { f \in Store :
        /\ \A k \in Key \ {Source} : f.sources[k] = NoRow
        /\ f.traces[i1] \in {NoRow, Unreadable, [scope |-> s1, payload |-> p1]}
        /\ f.version = "absent" => f.traces[i1] = NoRow /\ f.sources[Source] = NoRow
        /\ f.version # "absent" => f.tables }
=============================================================================
