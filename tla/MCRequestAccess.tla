-------------------------- MODULE MCRequestAccess --------------------------
(* Two requests and one administrator, on an instance small enough for TLC. *)
EXTENDS RequestAccess, TLC

Symmetric == Permutations(Requests)

\* A behaviour is either about roles, sessions and the seed, or, once the
\* seed is complete and the administrator signed in, about clients, keys and
\* tokens.
AtRoles ==
    \/ seed.pc # "done" \/ rootRow = "registered" \/ cut \/ stripped \/ roles # SystemRoles
    \/ rolePerms # [n \in Names |-> IF n = "admin" THEN AdminPerms ELSE {}]
    \/ \E u \in Users \ {Root} : userRoles[u] # {}
    \/ \E r \in Requests : visit[r].pc = "roles"

AtKeys ==
    \/ drawn > 0
    \/ \E k \in Kids : status[k] # "none"
    \/ \E r \in Requests : visit[r].pc \in {"clients", "rotate"}

\* It edits one role, or adds one; it rotates secrets, or keys; and it has
\* one access token at a time.
OneTopic ==
    /\ AtKeys => ~AtRoles /\ \A s \in Sessions : session[s].st = "live"
    /\ \A r \in Requests : edit[r].role = "admin"
    /\ Customs \cap roles # {} => rolePerms["admin"] = AdminPerms
    /\ drawn < 2 \/ status[2] = "none"
    /\ \A t, v \in issued : t = v
=============================================================================
