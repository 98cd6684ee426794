---------------------------- MODULE MCRunControl ----------------------------
(* RunControl for TLC: two requests at a time. *)
EXTENDS RunControl, TLC

CONSTANTS q1, q2

TwoRequests == {q1, q2}
SameHandler == Permutations(Requests)

=============================================================================
