------------------------------ MODULE MCAccounts ------------------------------
(* A small instance of Accounts for TLC.  One of two users has challenges and   *)
(* sessions.  Calls are interchangeable.                                        *)
EXTENDS Accounts, TLC

CONSTANTS u1, u2, c1, c2

Symmetry == Permutations(Calls)
=============================================================================
