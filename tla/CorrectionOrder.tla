--------------------------- MODULE CorrectionOrder ---------------------------
(***************************************************************************)
(* The selections the correction search may choose from, as sets, and the  *)
(* order in which the compiler documents to visit them (DEC-038).  The     *)
(* generators that produce these sequences are modelled in                 *)
(* HardBaseEnumeration and RescueEnumeration.                              *)
(***************************************************************************)
EXTENDS CandidateBatch

Selection == SUBSET Block

\* The members of S in the strict total order Precedes: the i-th has i - 1 before it.
Ascending(S, Precedes(_, _)) ==
    [ i \in 1..Cardinality(S) |-> CHOOSE b \in S : Cardinality({ a \in S : Precedes(a, b) }) = i - 1 ]

\* S comes before T in lexicographic index order of a list sorted by Precedes.
Lexicographic(S, T, Precedes(_, _)) ==
    \E a \in S \ T : \A b \in T \ S : Precedes(a, b)

\* Required blocks and, per category, exactly as many optional ones as its
\* minimum still needs.
HardBases ==
    { S \in Selection :
        /\ Required \subseteq S
        /\ \A b \in S \ Required : batch.category[b] \in Category
        /\ \A c \in Category : CountIn(S \ Required, c) = Needed(c) }

\* Defect: the search prefers the best-scored block where the allocator prefers
\* the cheapest.
BaseByScore(S, T) ==
    \E c \in Category :
        /\ Lexicographic(InCategory(S \ Required, c), InCategory(T \ Required, c),
                         HigherScore)
        /\ \A d \in Category : d < c => InCategory(S, d) = InCategory(T, d)

\* Cartesian product: categories ascending, the last one varying fastest.
BaseBefore(S, T) ==
    \E c \in Category :
        /\ Lexicographic(InCategory(S \ Required, c), InCategory(T \ Required, c),
                         CheaperMinimum)
        /\ \A d \in Category : d < c => InCategory(S, d) = InCategory(T, d)

\* Every selection that satisfies the policy, surplus included.
RescueSelections == { S \in Selection : PolicyValid(S) }

\* a category before none, then category and identifier ascending
RescueEarlier(a, b) ==
    LET rank(x) == IF batch.category[x] = NoCategory THEN 1 ELSE 0
    IN  \/ rank(a) < rank(b)
        \/ /\ rank(a) = rank(b)
           /\ \/ batch.category[a] < batch.category[b]
              \/ batch.category[a] = batch.category[b] /\ a < b

\* cardinality ascending, then lexicographic
RescueBefore(S, T) ==
    \/ Cardinality(S) < Cardinality(T)
    \/ /\ Cardinality(S) = Cardinality(T)
       /\ Lexicographic(S, T, RescueEarlier)

=============================================================================
