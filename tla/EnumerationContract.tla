------------------------ MODULE EnumerationContract ------------------------
(***************************************************************************)
(* What the lazy generators of the correction search promise: every        *)
(* selection of a set exactly once, nothing else, in a documented order,   *)
(* and then the end.  RenderCorrection consumes the two enumerations        *)
(* through this contract.                                                  *)
(***************************************************************************)
EXTENDS CorrectionOrder, SequencesExt

VARIABLES yielded, finished

Pending(universe) == universe \ ToSet(yielded)

Start(universe) ==
    /\ batch \in Batches
    /\ yielded = <<>>
    /\ finished \in BOOLEAN
    /\ finished => universe = {}

Yield(S, universe, Before(_, _)) ==
    /\ ~finished
    /\ IsFirst(S, Pending(universe), Before)
    /\ yielded' = Append(yielded, S)
    /\ UNCHANGED <<batch, finished>>

Finish(universe) ==
    /\ Pending(universe) = {}
    /\ finished' = TRUE
    /\ UNCHANGED <<batch, yielded>>

BasesInOrder ==
    /\ Start(HardBases)
    /\ [][\/ Finish(HardBases)
          \/ \E S \in Pending(HardBases) : Yield(S, HardBases, BaseBefore)]_<<batch, yielded, finished>>

RescueInOrder ==
    /\ Start(RescueSelections)
    /\ [][\/ Finish(RescueSelections)
          \/ \E S \in Pending(RescueSelections) :
                Yield(S, RescueSelections, RescueBefore)]_<<batch, yielded, finished>>

=============================================================================
