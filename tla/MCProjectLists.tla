---------------------------- MODULE MCProjectLists ----------------------------
(* A small instance of ProjectLists for TLC: three projects, one of which two     *)
(* calls change, and timestamps with two ticks to the millisecond.                *)
EXTENDS ProjectLists, TLC

CONSTANTS c1, c2

MCSymmetry == Permutations({c1, c2})
================================================================================
