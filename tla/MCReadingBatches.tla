--------------------------- MODULE MCReadingBatches ---------------------------
(* Small instances of ReadingBatches for TLC. *)
EXTENDS ReadingBatches, TLC

CONSTANTS w1, r1, r2, c1, c2, s1, s2

\* The devices of both readings belong to the first project ...
MCOneProject == (r1 :> 1) @@ (r2 :> 1)
\* ... or to one project each.
MCTwoProjects == (r1 :> 1) @@ (r2 :> 2)

\* Readings of one project are interchangeable, and so are requests and
\* replicas (used with MCOneProject, and never with a liveness property).
MCSymmetry ==
  Permutations({r1, r2}) \cup Permutations({c1, c2}) \cup Permutations({s1, s2})
=============================================================================
