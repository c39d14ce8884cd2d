----------------------------- MODULE MCPasskeys -----------------------------
(* Passkeys on instances small enough for TLC. *)
EXTENDS Passkeys, TLC

CONSTANTS k1, k2, x1, x2, x3, r1, r2

Symmetric == Permutations(Counting) \cup Permutations(Key \ Counting)
             \cup Permutations(Challenge) \cup Permutations(Req)
=============================================================================
