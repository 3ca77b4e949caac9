------------------------------- MODULE MCIndexer -------------------------------
(* Small instances of Indexer for TLC: an answer holds two events, a ledger up  *)
(* to two, so that answers end between and in the middle of ledgers.            *)
EXTENDS Indexer

CONSTANTS r1, r2
=============================================================================
