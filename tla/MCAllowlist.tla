------------------------------ MODULE MCAllowlist ------------------------------
(* A small instance of Allowlist for TLC: two runs of either script, one asset.  *)
EXTENDS Allowlist

CONSTANTS x1, x2, a1
================================================================================
