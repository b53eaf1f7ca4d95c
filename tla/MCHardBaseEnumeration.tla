----------------------- MODULE MCHardBaseEnumeration -----------------------
(* Six blocks and three categories; maxima do not matter here. *)
EXTENDS HardBaseEnumeration

MCBatches ==
    { p \in [ tokens    : { [b \in Block |-> 1], [b \in Block |-> IF b < 4 THEN 2 ELSE 1] },
              required  : { {}, {3} },
              category  : { <<1, 1, 1, 1, 1, 1>>, <<1, 2, 1, 2, 1, 2>>, <<3, 1, 1, 2, 3, 1>>,
                            <<3, 3, 0, 3, 1, 0>> },
              score     : { [b \in Block |-> IF b % 2 = 0 THEN 2 ELSE 1] },
              minBlocks : [Category -> 0..3],
              maxBlocks : { [c \in Category |-> 6] },
              available : {9} ] : PolicyIsParsed(p) }
=============================================================================
