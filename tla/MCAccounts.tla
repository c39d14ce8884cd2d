----------------------------- MODULE MCAccounts -----------------------------
(* Accounts on instances small enough for TLC. *)
EXTENDS Accounts, TLC

CONSTANTS s1, s2, s3, c1, c2, t1, t2, v1, v2, r1, r2

Symmetric == Permutations(Session) \cup Permutations(Challenge)
             \cup Permutations(Reset) \cup Permutations(Verification)
             \cup Permutations(Req)

\* A behaviour is about new passwords or about the account's status and second
\* factor, not both: the two touch each other only in the sessions.
OneTopic ==
  \/ password <= 1 /\ DOMAIN reset = {}
  \/ stint = 0 /\ decision = None /\ DOMAIN challenge = {}
=============================================================================
