--------------------------- MODULE MCGovernanceVoting ---------------------------
(* A small instance of GovernanceVoting for TLC: half of two or three eligible   *)
(* voters is the quorum, so one or two votes decide.                             *)
EXTENDS GovernanceVoting

CONSTANTS v1, v2, x1, x2
=============================================================================
