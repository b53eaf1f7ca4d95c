--------------------------- MODULE CandidateBatch ---------------------------
(***************************************************************************)
(* What the allocation stages of the compiler read: one scored batch of    *)
(* candidate blocks, the allocation policy and the token budget.           *)
(*                                                                         *)
(* A block identifier is a natural number, so the code-unit order of       *)
(* identifiers is <.  A category is a positive natural for the same        *)
(* reason, and NoCategory is a block that declares none.  A minimum that   *)
(* the policy does not declare is 0 and a maximum it does not declare is   *)
(* Cardinality(Block): neither can ever bind.                              *)
(*                                                                         *)
(* The batch is a variable and not a constant so that one run of TLC       *)
(* covers every batch of the set Batches; no step changes it.              *)
(***************************************************************************)
EXTENDS Naturals, FiniteSets, FiniteSetsExt

CONSTANTS Block,     \* identifiers of the candidates of a batch
          Category,  \* categories blocks declare
          Batches    \* the batches an allocation may be called with

NoCategory == 0

BatchType ==
    [ tokens    : [Block -> Nat],                        \* exact content tokens
      required  : SUBSET Block,
      category  : [Block -> Category \cup {NoCategory}],
      score     : [Block -> Nat],                        \* score.total
      minBlocks : [Category -> Nat],
      maxBlocks : [Category -> Nat],
      available : Nat ]                                  \* availableInputTokens

\* The policy schema refuses a category whose minimum exceeds its maximum.
PolicyIsParsed(p) == \A c \in Category : p.minBlocks[c] <= p.maxBlocks[c]

ASSUME BlockAssumption == Block \subseteq Nat /\ IsFiniteSet(Block)
ASSUME CategoryAssumption == Category \subseteq Nat \ {NoCategory}
ASSUME BatchesAssumption ==
    Batches \subseteq BatchType /\ \A p \in Batches : PolicyIsParsed(p)

VARIABLE batch

Required == batch.required
Optional == Block \ batch.required

InCategory(S, c) == { b \in S : batch.category[b] = c }
CountIn(S, c)    == Cardinality(InCategory(S, c))

\* How many optional blocks the minimum of c still needs once every required
\* block is in.
Needed(c) == LET have == CountIn(Required, c)
             IN  IF batch.minBlocks[c] > have THEN batch.minBlocks[c] - have ELSE 0

TokenSum(tokens, S) == MapThenSumSet(LAMBDA b : tokens[b], S)
ContentTokens(S)    == TokenSum(batch.tokens, S)

-----------------------------------------------------------------------------
(* The comparators of the stage, each a total order on identifiers. *)

\* identifier ascending
LowerId(a, b) == a < b

\* tokens ascending, then score descending, then identifier ascending
CheaperMinimum(a, b) ==
    \/ batch.tokens[a] < batch.tokens[b]
    \/ /\ batch.tokens[a] = batch.tokens[b]
       /\ \/ batch.score[a] > batch.score[b]
          \/ batch.score[a] = batch.score[b] /\ a < b

\* score descending, then identifier ascending
HigherScore(a, b) ==
    \/ batch.score[a] > batch.score[b]
    \/ batch.score[a] = batch.score[b] /\ a < b

\* score ascending, then identifier descending
EvictedEarlier(a, b) ==
    \/ batch.score[a] < batch.score[b]
    \/ batch.score[a] = batch.score[b] /\ a > b

\* b comes first in S under the strict order Precedes.
IsFirst(b, S, Precedes(_, _)) ==
    b \in S /\ \A a \in S \ {b} : Precedes(b, a)

\* The K cheapest optional blocks of c, K being what its minimum still needs.
CheapestFor(c) ==
    LET pool == InCategory(Optional, c)
    IN  { b \in pool : Cardinality({ a \in pool : CheaperMinimum(a, b) }) < Needed(c) }

-----------------------------------------------------------------------------
(* The hard constraints, as the documentation of the stage states them. *)

MeetsMinimums(S) == \A c \in Category : CountIn(S, c) >= batch.minBlocks[c]
MeetsMaximums(S) == \A c \in Category : CountIn(S, c) <= batch.maxBlocks[c]
PolicyValid(S)   == Required \subseteq S /\ MeetsMinimums(S) /\ MeetsMaximums(S)

Feasible ==
    { S \in SUBSET Block : PolicyValid(S) /\ ContentTokens(S) <= batch.available }

\* Adding b to S would break the content budget or a category maximum.
CannotJoin(b, S) ==
    \/ ContentTokens(S \cup {b}) > batch.available
    \/ ~ MeetsMaximums(S \cup {b})

=============================================================================
