------------------------ MODULE MCRescueEnumeration ------------------------
(* Six blocks and two categories; tokens and scores do not matter here. *)
EXTENDS RescueEnumeration

\* The pool is sorted by category before identifier, so only how many members
\* each category has, required or not, and the bounds make a difference.
MCBatches ==
    { p \in [ tokens    : { [b \in Block |-> 1] },
              required  : { {}, {1, 6} },
              category  : { <<1, 1, 1, 2, 2, 2>>, <<1, 1, 2, 2, 0, 0>>, <<0, 1, 0, 2, 2, 2>>,
                            <<2, 1, 2, 2, 0, 2>>, <<2, 0, 0, 0, 0, 1>>, <<0, 0, 1, 1, 1, 1>> },
              score     : { [b \in Block |-> 1] },
              minBlocks : [Category -> 0..3],
              maxBlocks : [Category -> {0, 1, 3, 6}],
              available : {9} ] : PolicyIsParsed(p) }
=============================================================================
