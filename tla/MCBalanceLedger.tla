--------------------------- MODULE MCBalanceLedger ---------------------------
(***************************************************************************)
(* One user, two jobs with a quote each, three request keys and a code: the *)
(* two jobs compete for the points, and a spent credit is taken back.       *)
(***************************************************************************)
EXTENDS BalanceLedger

CONSTANTS u1, j1, j2, q1, q2, k1, k2, k3, c1

CodeWorthTwo == [c \in Code |-> 2]

\* What has been paid in makes a job cheaper: two points, then one.
TwoTiers == {[threshold |-> 1, charge |-> 2], [threshold |-> 3, charge |-> 1]}
=============================================================================
