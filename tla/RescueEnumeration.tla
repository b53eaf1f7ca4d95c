------------------------- MODULE RescueEnumeration -------------------------
(***************************************************************************)
(* policyValidOptionalSelections and subsetsOfSize (packages/compiler/src/ *)
(* context-compiler.ts): the depth-first walk over the sorted pool of      *)
(* optional candidates that yields every policy-valid subset, smallest     *)
(* first, and prunes the branches that cannot become one.                  *)
(*                                                                         *)
(* The recursion of walk() is the stack of pool positions in `taken`.      *)
(***************************************************************************)
EXTENDS CorrectionOrder, SequencesExt

\* A policy names finitely many categories.
ASSUME RescueAssumption == IsFiniteSet(Category)

VARIABLES
    pool,      \* the optional candidates in rescue order
    size,      \* the cardinality being enumerated
    taken,     \* positions of `chosen`, one per active call of walk
    at,        \* the position walk is called with, or its loop has reached
    mode,      \* "call" of walk, its "loop", its "return", or "done"
    yielded,   \* the selections yielded, in order
    calls      \* calls of walk

vars == <<batch, pool, size, taken, at, mode, yielded, calls>>

Members(c)  == Cardinality(InCategory(Optional, c))
Deficit(c)  == Needed(c)
\* A category without a maximum never binds: maxBlocks is then |Block|.
Capacity(c) == batch.maxBlocks[c] - CountIn(Required, c)

\* The contiguous range of the pool that holds category c: [First, Beyond).
First(c) ==
    LET places == { i \in DOMAIN pool : batch.category[pool[i]] = c }
    IN  IF places = {} THEN Len(pool) + 1 ELSE Min(places)
Beyond(c) == IF Members(c) = 0 THEN Len(pool) + 1 ELSE First(c) + Members(c)

\* categoryBudgets returns undefined when no selection can satisfy the policy.
Satisfiable ==
    \A c \in Category : /\ CountIn(Required, c) <= batch.maxBlocks[c]
                        /\ Deficit(c) <= Members(c)
                        /\ Deficit(c) <= Capacity(c)

\* The sum over the categories.
Total(count) == TokenSum(count, Category)

Unconstrained == { b \in Optional : batch.category[b] \notin Category }
MinCardinality == Total([c \in Category |-> Deficit(c)])
MaxCardinality ==
    Cardinality(Unconstrained)
    + Total([c \in Category |-> IF Members(c) < Capacity(c) THEN Members(c) ELSE Capacity(c)])

Chosen    == { pool[i] : i \in ToSet(taken) }
Held(c)   == CountIn(Chosen, c)
Unmet(c)  == IF Deficit(c) > Held(c) THEN Deficit(c) - Held(c) ELSE 0
Remaining == size - Len(taken)

Ahead(c, from) ==
    LET lo == IF from > First(c) THEN from ELSE First(c)
    IN  IF Beyond(c) > lo THEN Beyond(c) - lo ELSE 0

\* Defect: a minimum that can no longer be met does not end the branch.
UnreachableSlots(from) == Len(pool) + 1 - from < Remaining

\* Too few candidates ahead for the open slots, or for a minimum still unmet,
\* or too few open slots for all of those minimums.
Unreachable(from) ==
    \/ Len(pool) + 1 - from < Remaining
    \/ \E c \in Category : Ahead(c, from) < Unmet(c)
    \/ Total([c \in Category |-> Unmet(c)]) > Remaining

Full(i) ==
    /\ batch.category[pool[i]] \in Category
    /\ Held(batch.category[pool[i]]) >= Capacity(batch.category[pool[i]])

Init ==
    /\ batch \in Batches
    /\ pool = Ascending(Optional, RescueEarlier)
    /\ size = MinCardinality
    /\ taken = <<>>
    /\ at = 1
    /\ mode = IF Satisfiable /\ MinCardinality <= MaxCardinality THEN "call" ELSE "done"
    /\ yielded = <<>>
    /\ calls = 0

\* Defect: the reachability prune is trusted to have covered every minimum.
CompleteUnchecked ==
    /\ mode = "call" /\ Remaining = 0
    /\ yielded' = Append(yielded, Required \cup Chosen)
    /\ mode' = "return"
    /\ calls' = calls + 1
    /\ UNCHANGED <<batch, pool, size, taken, at>>

\* walk(from) with every slot filled: a minimum may still be open.
CompleteSubset ==
    /\ mode = "call" /\ Remaining = 0
    /\ yielded' = IF \A c \in Category : Held(c) >= Deficit(c)
                  THEN Append(yielded, Required \cup Chosen) ELSE yielded
    /\ mode' = "return"
    /\ calls' = calls + 1
    /\ UNCHANGED <<batch, pool, size, taken, at>>

Prune ==
    /\ mode = "call" /\ Remaining # 0 /\ Unreachable(at)
    /\ mode' = "return"
    /\ calls' = calls + 1
    /\ UNCHANGED <<batch, pool, size, taken, at, yielded>>

BeginLoop ==
    /\ mode = "call" /\ Remaining # 0 /\ ~ Unreachable(at)
    /\ mode' = "loop"
    /\ calls' = calls + 1
    /\ UNCHANGED <<batch, pool, size, taken, at, yielded>>

SkipFull ==
    /\ mode = "loop" /\ at <= Len(pool) /\ Full(at)
    /\ at' = at + 1
    /\ UNCHANGED <<batch, pool, size, taken, mode, yielded, calls>>

Take ==
    /\ mode = "loop" /\ at <= Len(pool) /\ ~ Full(at)
    /\ taken' = Append(taken, at)
    /\ at' = at + 1
    /\ mode' = "call"
    /\ UNCHANGED <<batch, pool, size, yielded, calls>>

EndLoop ==
    /\ mode = "loop" /\ at > Len(pool)
    /\ mode' = "return"
    /\ UNCHANGED <<batch, pool, size, taken, at, yielded, calls>>

\* Back in the caller's loop: chosen.pop(), and on to the next index.
Backtrack ==
    /\ mode = "return" /\ taken # <<>>
    /\ at' = Last(taken) + 1
    /\ taken' = Front(taken)
    /\ mode' = "loop"
    /\ UNCHANGED <<batch, pool, size, yielded, calls>>

NextSize ==
    /\ mode = "return" /\ taken = <<>>
    /\ IF size < MaxCardinality
       THEN size' = size + 1 /\ at' = 1 /\ mode' = "call"
       ELSE mode' = "done" /\ UNCHANGED <<size, at>>
    /\ UNCHANGED <<batch, pool, taken, yielded, calls>>

Next ==
    \/ CompleteSubset \/ Prune \/ BeginLoop
    \/ SkipFull \/ Take \/ EndLoop \/ Backtrack \/ NextSize

Spec == Init /\ [][Next]_vars

-----------------------------------------------------------------------------
\* The three prunes remove no valid subset and the walk constructs none twice:
\* the sequence is exactly every policy-valid selection, in rescue order.
Enumeration == INSTANCE EnumerationContract WITH
    finished <- mode = "done"
ImplementsRescueOrder == Enumeration!RescueInOrder

\* DEC-038: the bound on visited selections bounds the work too.  A branch that
\* yields nothing never reaches #visit, so the bound cannot stop it; but barren
\* branches never pile up: in each size begun the calls of walk are at most one,
\* and one for every pair of positions of the pool, and as many again for every
\* selection already handed to the bound.
WorkFollowsYield ==
    LET n      == Len(pool)
        begun  == size - MinCardinality + 1
    IN  2 * calls <= begun * (n * (n + 1) * (Len(yielded) + 1) + 2)

=============================================================================
