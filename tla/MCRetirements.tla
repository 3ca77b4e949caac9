----------------------------- MODULE MCRetirements -----------------------------
(* Small instances of Retirements for TLC: two half-credit amounts, so that    *)
(* rounding, equal amounts and an overdrawn wallet all occur.                  *)
EXTENDS Retirements

CONSTANTS u1, w1, w2
=============================================================================
