--------------------------- MODULE MCAdminConsole ---------------------------
(* AdminConsole on instances small enough for TLC. *)
EXTENDS AdminConsole, TLC

CONSTANTS t1, t2, t3, f1, f2, k1, k2, r1, r2, g1

Symmetric == Permutations(Token) \cup Permutations(Family) \cup Permutations(Key)
             \cup Permutations(Req)
=============================================================================
