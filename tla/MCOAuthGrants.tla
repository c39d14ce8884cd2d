--------------------------- MODULE MCOAuthGrants ---------------------------
(* OAuthGrants on instances small enough for TLC. *)
EXTENDS OAuthGrants, Integers, TLC

CONSTANTS u1, u2, c1, c2, s1, s2, p1, p2, x1, x2, x3, f1, f2, f3, r1, r2

Symmetric == Permutations(User) \cup Permutations(Client) \cup Permutations(Scope)
             \cup Permutations(Par) \cup Permutations(Code) \cup Permutations(Family)
             \cup Permutations(Req)

\* Two scopes in play at once.
BothScopes ==
  Cardinality(UNION ({q.scope : q \in {req[r] : r \in Req} \cup {code[x] : x \in Drawn}
                                    \cup {par[p] : p \in DOMAIN par}}
                     \cup UNION {consent[g] : g \in GrantId})) > 1

\* Bound: where two scopes are in play, the client is a third party that stays
\* registered, one code is issued, no code or PAR is used twice and no withdrawal
\* dies half way: each of these is had with one scope.
OneTopic == BothScopes =>
    first = {} /\ gone = {} /\ overlapped = {} /\ stranded = {} /\ Cardinality(Drawn) <= 1
=============================================================================
