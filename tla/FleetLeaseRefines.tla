-------------------------- MODULE FleetLeaseRefines --------------------------
(***************************************************************************)
(* The lease protocol of FleetLease implements SlotClaims: the claim of a  *)
(* slot is its row's id and holder, and the row's report counts while the  *)
(* row is done.                                                            *)
(***************************************************************************)
EXTENDS FleetLease

HeldClaim(row) == [id |-> row.id, by |-> row.holder]
ReportedClaim(row) ==
    IF row.state = "done" THEN [id |-> row.id, by |-> row.report.by]
    ELSE [id |-> NoId, by |-> "nobody"]
Stage(f) == CASE f = "provisioning" -> "gathering"
              [] f \in {"releasing", "running"} -> "started"
              [] OTHER -> f

Claims == INSTANCE SlotClaims WITH
    held <- [s \in Slots |-> HeldClaim(lease[s])],
    reported <- [s \in Slots |-> ReportedClaim(lease[s])],
    issued <- nextId - 1,
    stage <- Stage(fleetState),
    start <- t0,
    counted <- sup \in {"correlating", "finished", "forgotten"},
    result <- merged

\* Claims that lapse and come back, answers lost and calls delivered late, a stop, a timeout
\* or a failure at any point: none makes a slot's report change or come from anybody but its
\* current claim, gives an id out twice, starts the fleet twice, moves it back, or changes
\* what the result rests on once it was counted (fleet.py claim, finalise, evaluate_release).
ImplementsSlotClaims == Claims!ClaimsSpec
=============================================================================
