--------------------------- MODULE MCSecondFactor ---------------------------
(* SecondFactor on instances small enough for TLC. *)
EXTENDS SecondFactor, TLC

CONSTANTS s1, s2, c1, c2, c3, c4, r1, r2

Symmetric == Permutations(Secret) \cup Permutations(Code) \cup Permutations(Req)
=============================================================================
