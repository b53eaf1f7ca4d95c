----------------------------- MODULE PortValues -----------------------------
(***************************************************************************)
(* What a call through a port ends in, what may be wrong with it, and the  *)
(* order what it ends in is put in.                                        *)
(***************************************************************************)
EXTENDS Naturals, Sequences, FiniteSets

\* A call ends in a value, or in a failure with a code.  A value that may be
\* missing is a set of at most one value.
Reply(value)  == [ok |-> TRUE, value |-> value]
Failure(code) == [ok |-> FALSE, code |-> code]

-----------------------------------------------------------------------------
(* The members of D in the order R, a set of pairs: each stands behind as   *)
(* many others as are to come before it.                                   *)

Lined(D, R) ==
    [ k \in 1..Cardinality(D) |->
        CHOOSE x \in D : Cardinality({ y \in D : << y, x >> \in R }) = k - 1 ]

\* A set in an order that is total on its members.
Listed(S, Before(_, _)) == Lined(S, { q \in S \X S : Before(q[1], q[2]) })

\* Places of a list in an order of what stands there: where neither comes before
\* the other, in the order they stand in.
Stable(D, order) == { q \in D \X D : q \in order \/ (q[1] < q[2] /\ << q[2], q[1] >> \notin order) }

\* What stands in s at some places, in an order of these.
Picked(s, D, order) ==
    LET place == Lined(D, Stable(D, order)) IN [ k \in DOMAIN place |-> s[place[k]] ]

\* Array.prototype.sort, which is stable, and Array.prototype.filter.
Sorted(s, Before(_, _)) ==
    Picked(s, DOMAIN s, { q \in (DOMAIN s) \X (DOMAIN s) : Before(s[q[1]], s[q[2]]) })
Filtered(s, Test(_)) == Picked(s, { i \in DOMAIN s : Test(s[i]) }, {})

-----------------------------------------------------------------------------
(* Four functions read a value nobody vouches for, depth first:            *)
(*   snapshot   snapshotCompilerInput copies a compilation request;        *)
(*   json       collectNonJsonSafe copies a trace read back;               *)
(*   clone      tryCloneJsonRecord copies what a provider returned;        *)
(*   canonical  tryCanonicalRecordJson serializes a block to compare it.   *)
(*                                                                         *)
(* A value is a node of a graph; a node has a shape and a sequence of      *)
(* fields, each of a kind and leading to a node.  Shapes: json, nonfinite, *)
(* function, object, array, and foreign for an object of another prototype *)
(* or one that cannot be inspected.  Kinds of fields: data, accessor,      *)
(* hidden for one that is not enumerable, symbol for one under a symbol,   *)
(* undefined for one without a value.                                      *)

Compound(node) == node.shape \in {"object", "array", "foreign"}

\* A number that is not finite and a function are data to the snapshot only.
LeafOK(reader, node) ==
    \/ node.shape = "json"
    \/ reader = "snapshot" /\ node.shape \in {"nonfinite", "function"}

\* The elements of an array are read whether they are enumerable or not; an
\* undefined element is no JSON, and is no canonical text either.
FieldOK(reader, node, kind) ==
    \/ kind = "data"
    \/ kind = "hidden"    /\ (reader # "json" \/ node.shape = "array")
    \/ kind = "symbol"    /\ reader = "snapshot"
    \/ kind = "undefined" /\ (reader \in {"snapshot", "clone"} \/ (reader = "canonical" /\ node.shape = "object"))

\* What is passed over without being read.
Skipped(reader, node, kind) ==
    \/ kind = "undefined"
    \/ kind = "hidden" /\ reader \in {"clone", "canonical"} /\ node.shape = "object"

=============================================================================
