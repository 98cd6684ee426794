----------------------------- MODULE MCFleetRows -----------------------------
(* FleetRows for TLC: two workers for two slots, or for one. *)
EXTENDS FleetRows, TLC

CONSTANTS w1, w2

OneSlot    == {0}
TwoSlots   == 0..1
TwoWorkers == {w1, w2}
SameImage  == Permutations(Workers)
Unfinished == fleetState # "finished"

\* Sessions overlap until the fleet is released or draining; from then on one at
\* a time finishes what it has begun.
AtWork  == Cardinality(InFlight) + (IF tick.busy THEN 1 ELSE 0)
Crowded == fleetState = "provisioning" \/ (Unfinished /\ AtWork <= 1)

=============================================================================
