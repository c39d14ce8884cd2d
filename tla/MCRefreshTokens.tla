-------------------------- MODULE MCRefreshTokens --------------------------
(* RefreshTokens on instances small enough for TLC. *)
EXTENDS RefreshTokens, TLC

CONSTANTS t1, t2, t3, t4, f1, f2, k1, k2, r1, r2, r3, g1, g2

Symmetric == Permutations(Token) \cup Permutations(Family) \cup Permutations(Key) \cup Permutations(Req)
=============================================================================
