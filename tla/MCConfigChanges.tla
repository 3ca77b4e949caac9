---------------------------- MODULE MCConfigChanges ----------------------------
(* A small instance of ConfigChanges for TLC: three changes, the first of which  *)
(* the database refuses and the others of which overlap in one of two fields.    *)
EXTENDS ConfigChanges

CONSTANTS r1, r2, k1, e1, f1, f2

MCFieldsOf == <<{f1}, {f1, f2}, {f2}>>
=============================================================================
