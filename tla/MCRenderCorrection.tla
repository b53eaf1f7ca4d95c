------------------------- MODULE MCRenderCorrection -------------------------
(* Small batches for RenderCorrection: four blocks and two categories. *)
EXTENDS RenderCorrection

\* Categories overlap with the required block in some batches and not in
\* others; content of one or two tokens keeps some selections under the
\* content ceiling and some over it.
MCBatches ==
    { p \in [ tokens    : { [b \in Block |-> 1], [b \in Block |-> IF b = 1 THEN 2 ELSE 1],
                            [b \in Block |-> IF b > 2 THEN 2 ELSE 1] },
              required  : { {}, {2} },
              category  : { <<1, 1, 1, 1>>, <<1, 1, 2, 2>>, <<1, 2, 1, 0>>, <<0, 2, 2, 0>> },
              score     : { [b \in Block |-> b], [b \in Block |-> IF b = 3 THEN 1 ELSE 2] },
              minBlocks : [Category -> {0, 1, 2}],
              maxBlocks : [Category -> {1, 2, 4}],
              available : {3, 5} ] : PolicyIsParsed(p) }

MCLimits == {1, 3, 16}
=============================================================================
