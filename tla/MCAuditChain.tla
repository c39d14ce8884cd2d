---------------------------- MODULE MCAuditChain ----------------------------
(* AuditChain on instances small enough for TLC. *)
EXTENDS AuditChain, TLC

CONSTANTS w1, w2

Symmetric == Permutations(Writer)
=============================================================================
