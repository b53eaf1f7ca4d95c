------------------------- MODULE AllocationContract -------------------------
(***************************************************************************)
(* What allocate() promises its caller, without saying how it is computed: *)
(* a batch is either refused, and then no selection of its blocks          *)
(* satisfies the policy within the content budget, or allocated, and then  *)
(* the selection satisfies both and no left-out block could join it.       *)
(***************************************************************************)
EXTENDS CandidateBatch

VARIABLES verdict, selection

Init ==
    /\ batch \in Batches
    /\ verdict = "pending"
    /\ selection = {}

Allocate(S) ==
    /\ verdict = "pending"
    /\ \A b \in Block \ S : CannotJoin(b, S)
    /\ verdict' = "allocated"
    /\ selection' = S
    /\ UNCHANGED batch

Refuse ==
    /\ verdict = "pending"
    /\ Feasible = {}
    /\ verdict' = "refused"
    /\ UNCHANGED <<batch, selection>>

Next == Refuse \/ \E S \in Feasible : Allocate(S)

Spec == Init /\ [][Next]_<<batch, verdict, selection>>

=============================================================================
