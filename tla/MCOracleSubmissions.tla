------------------------- MODULE MCOracleSubmissions -------------------------
(***************************************************************************)
(* Small instances of OracleSubmissions for TLC.                           *)
(***************************************************************************)
EXTENDS OracleSubmissions, TLC

CONSTANTS p1, p2, w1, w2

\* Projects and workers are interchangeable; no liveness property is checked
\* under symmetry.
Symmetry == Permutations(Projects) \cup Permutations(Workers)
=============================================================================
