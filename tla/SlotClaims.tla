----------------------------- MODULE SlotClaims -----------------------------
(***************************************************************************)
(* What the lease protocol of a fleet promises, whatever its workers, its  *)
(* messages and its clocks do: a slot is claimed under ids that are never  *)
(* used again, it is reported on once, by the claim that is current then,  *)
(* the fleet is started once, and the result is counted once, from the     *)
(* reports there are.  Losing a slot to silence is a step that changes     *)
(* nothing here: the claim stays until another is issued.                  *)
(***************************************************************************)
EXTENDS Integers

CONSTANTS Slots, Workers

VARIABLES
    held,      \* per slot, the claim it was last given out under
    reported,  \* per slot, the claim that reported, or Unreported
    issued,    \* the claims given out
    stage,     \* "gathering", "started", "draining", "finished"
    start,     \* when the fleet was started, or -1
    counted,   \* the reports have been counted, or never will be
    result     \* the slots whose reports the result rests on

claimVars == <<held, reported, issued, stage, start, counted, result>>

Unreported == [id |-> 0, by |-> "nobody"]
Unclaimed == [id |-> 0, by |-> "nobody"]

\* A slot without a report is given out, under a number of its own.
Take(s) ==
    /\ issued' > issued
    /\ stage \in {"gathering", "started"} /\ reported[s] = Unreported
    /\ \E w \in Workers : held' = [held EXCEPT ![s] = [id |-> issued', by |-> w]]
    /\ UNCHANGED <<reported, stage, start, counted, result>>

\* The current claim reports.
Report(s) ==
    /\ reported'[s] # reported[s]
    /\ stage # "finished" /\ reported[s] = Unreported /\ held[s] # Unclaimed
    /\ reported' = [reported EXCEPT ![s] = held[s]]
    /\ UNCHANGED <<held, issued, stage, start, counted, result>>

StartTogether ==
    /\ stage = "gathering" /\ start = -1
    /\ stage' = "started" /\ start' \in Nat
    /\ UNCHANGED <<held, reported, issued, counted, result>>

Drain ==
    /\ stage \in {"gathering", "started"} /\ stage' = "draining"
    /\ UNCHANGED <<held, reported, issued, start, counted, result>>

\* Once. A report that cannot be read is as if it had not come.
Count ==
    /\ counted' /\ ~counted
    /\ result' \subseteq {s \in Slots : reported[s] # Unreported}
    /\ reported' = [s \in Slots |-> IF s \in result' THEN reported[s] ELSE Unreported]
    /\ UNCHANGED <<held, issued, stage, start>>

\* With the reports counted, or without when the run has failed before.
FinishFleet ==
    /\ stage # "finished" /\ stage' = "finished" /\ counted'
    /\ UNCHANGED <<held, reported, issued, start, result>>

ClaimsInit ==
    /\ held = [s \in Slots |-> Unclaimed] /\ reported = [s \in Slots |-> Unreported]
    /\ issued = 0 /\ stage = "gathering" /\ start = -1
    /\ counted = FALSE /\ result = {}

ClaimsNext ==
    \/ \E s \in Slots : Take(s) \/ Report(s)
    \/ StartTogether \/ Drain \/ Count \/ FinishFleet

ClaimsSpec == ClaimsInit /\ [][ClaimsNext]_claimVars
=============================================================================
