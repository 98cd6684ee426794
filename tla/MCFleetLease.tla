---------------------------- MODULE MCFleetLease ----------------------------
(***************************************************************************)
(* FleetLease for TLC: two slots and the workers the driver starts for     *)
(* them, with or without the slot hints a Kubernetes Job gives its pods.   *)
(***************************************************************************)
EXTENDS FleetLeaseRefines, TLC

CONSTANTS w1, w2

TwoSlots   == 0..1
OneWorker  == {w1}
TwoWorkers == {w1, w2}
NoHints    == [w \in Workers |-> NoSlot]
HintTop    == [w \in Workers |-> 1]
AnyEngine  == [w \in Workers |-> Slots]
SameImage  == Permutations(Workers)

\* Workers claim once the watch has started, and a run that is over is left.
Watched ==
    /\ fleetState # "finished"
    /\ sup = "launching" => \A s \in Slots : lease[s].state = "free"

=============================================================================
