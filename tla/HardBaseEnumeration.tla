------------------------- MODULE HardBaseEnumeration -------------------------
(***************************************************************************)
(* #categoryDeficits, combinations and cartesian (packages/compiler/src/   *)
(* context-compiler.ts): the lazy product, over the categories that still  *)
(* need blocks, of the combinations of exactly that many candidates.       *)
(*                                                                         *)
(* One nested generator per category: index[c] is the live index tuple of  *)
(* its combinations(), <<>> while it is not running.                       *)
(***************************************************************************)
EXTENDS CorrectionOrder, SequencesExt

VARIABLES
    index,      \* per category, the index tuple `indices` of combinations()
    phase,      \* "start" a generator or yield a base, "advance" one, "done"
    level,      \* the position in `deficits` of the generator being resumed
    bases       \* the bases yielded, in order

baseVars == <<batch, index, phase, level, bases>>

\* The categories with a deficit, in code-unit order.
Deficits == Ascending({ c \in Category : Needed(c) > 0 }, LowerId)
Pool(c)  == Ascending(InCategory(Optional, c), CheaperMinimum)

\* indices = 0 .. size - 1
Identity(c) == [k \in 1..Needed(c) |-> k]

\* The positions that are not yet at their last value.
Movable(c) ==
    { k \in 1..Needed(c) : index[c][k] # Len(Pool(c)) - Needed(c) + k }

\* Defect: the indices behind the moved one stay where they are.
SuccessorLoose(c) ==
    [index[c] EXCEPT ![Max(Movable(c))] = index[c][Max(Movable(c))] + 1]

\* Move the last movable index and pack the following ones behind it.
Successor(c) ==
    LET cursor == Max(Movable(c))
    IN  [k \in 1..Needed(c) |-> IF k < cursor THEN index[c][k]
                                ELSE index[c][cursor] + 1 + (k - cursor)]

Base == Required \cup UNION { { Pool(c)[index[c][k]] : k \in DOMAIN index[c] } : c \in Category }

BaseInit ==
    /\ batch \in Batches
    /\ index = [c \in Category |-> <<>>]
    /\ level = 1
    /\ phase = IF \E c \in Category : CountIn(Optional, c) < Needed(c) THEN "done" ELSE "start"
    /\ bases = <<>>

\* The first combination of the next category: rest restarts it per item.
StartGenerator ==
    /\ phase = "start" /\ level <= Len(Deficits)
    /\ index' = [index EXCEPT ![Deficits[level]] = Identity(Deficits[level])]
    /\ level' = level + 1
    /\ UNCHANGED <<batch, phase, bases>>

YieldBase ==
    /\ phase = "start" /\ level > Len(Deficits)
    /\ bases' = Append(bases, Base)
    /\ phase' = "advance"
    /\ level' = Len(Deficits)
    /\ UNCHANGED <<batch, index>>

AdvanceCombination ==
    /\ phase = "advance" /\ level > 0
    /\ Movable(Deficits[level]) # {}
    /\ index' = [index EXCEPT ![Deficits[level]] = Successor(Deficits[level])]
    /\ level' = level + 1
    /\ phase' = "start"
    /\ UNCHANGED <<batch, bases>>

\* The inner generator is exhausted: the one outside it moves on.
GeneratorEnds ==
    /\ phase = "advance" /\ level > 0
    /\ Movable(Deficits[level]) = {}
    /\ index' = [index EXCEPT ![Deficits[level]] = <<>>]
    /\ level' = level - 1
    /\ UNCHANGED <<batch, phase, bases>>

AllEnd ==
    /\ phase = "advance" /\ level = 0
    /\ phase' = "done"
    /\ UNCHANGED <<batch, index, level, bases>>

BaseNext == StartGenerator \/ YieldBase \/ AdvanceCombination \/ GeneratorEnds \/ AllEnd

BaseSpec == BaseInit /\ [][BaseNext]_baseVars

-----------------------------------------------------------------------------
\* DEC-038: the lazy product yields every minimal policy-valid base exactly
\* once, the allocator's preference first and the last category varying
\* fastest, without ever holding more than one combination per category.
BaseEnumeration == INSTANCE EnumerationContract WITH
    yielded <- bases, finished <- phase = "done"
ImplementsBaseOrder == BaseEnumeration!BasesInOrder

=============================================================================
