-------------------------- MODULE MCBudgetAllocator --------------------------
(* Small batches for BudgetAllocator. *)
EXTENDS BudgetAllocator

\* Blocks 1..3, one constrained category, content of 0 to 2 tokens and two
\* score values, so that every tie-break of every comparator is decided
\* both ways.
MCBatches ==
    { p \in [ tokens    : [Block -> 0..2],
              required  : { {}, {2}, {2, 3} },
              category  : [Block -> Category \cup {NoCategory}],
              score     : { [b \in Block |-> 1], [b \in Block |-> IF b = 3 THEN 2 ELSE 1],
                            [b \in Block |-> IF b = 1 THEN 1 ELSE 2] },
              minBlocks : [Category -> 0..2],
              maxBlocks : [Category -> {1, 2, 3}],
              available : {1, 3} ] : PolicyIsParsed(p) }
=============================================================================
