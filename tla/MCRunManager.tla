---------------------------- MODULE MCRunManager ----------------------------
(* RunManager for TLC: two in-process runs and two fleets of two groups. *)
EXTENDS RunManager, TLC

CONSTANTS a1, a2, f1, f2

FourRuns  == {a1, a2, f1, f2}
TwoFleets == {f1, f2}
TwoGroups == {"api", "browser"}
Alike     == Permutations({a1, a2}) \cup Permutations({f1, f2})

=============================================================================
