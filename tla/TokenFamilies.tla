--------------------------- MODULE TokenFamilies ---------------------------
(***************************************************************************)
(* What the refresh-token store promises, with the rows hidden.            *)
(*                                                                         *)
(* A family is the chain of refresh tokens grown from one grant.  It is    *)
(* unused until its first token is issued, live while some token of it can *)
(* still be rotated, and dead when every token of it is revoked or gone.   *)
(* A dead family comes back to life in one way only: a rotation that had   *)
(* already found it live is still under way and now commits.  With no such *)
(* rotation in flight, dead is for ever.                                   *)
(***************************************************************************)
CONSTANTS Family,   \* family identifiers
          Req,      \* requests the server works on at the same time
          None      \* no family

VARIABLES state,     \* what each family is
          rotating   \* the family each request is about to commit a rotation in

vars == <<state, rotating>>

States == {"unused", "live", "dead"}

Init ==
  /\ state = [f \in Family |-> "unused"]
  /\ rotating = [r \in Req |-> None]

\* The first token of a family is stored.
Issue(f) ==
  /\ state[f] = "unused"
  /\ state' = [state EXCEPT ![f] = "live"]
  /\ UNCHANGED rotating

\* A rotation finds a token of the family that it may replace.
Admit(r, f) ==
  /\ rotating[r] = None
  /\ state[f] = "live"
  /\ rotating' = [rotating EXCEPT ![r] = f]
  /\ UNCHANGED state

\* The rotation stores the successor: the family is live, whatever happened
\* to it since the rotation was admitted.
Rotate(r) ==
  /\ rotating[r] # None
  /\ state' = [state EXCEPT ![rotating[r]] = "live"]
  /\ rotating' = [rotating EXCEPT ![r] = None]

\* The rotation fails or its process dies.
Drop(r) ==
  /\ rotating[r] # None
  /\ rotating' = [rotating EXCEPT ![r] = None]
  /\ UNCHANGED state

\* Revocation, reuse detection or the removal of a client ends families.
End(F) ==
  /\ F # {}
  /\ \A f \in F : state[f] = "live"
  /\ state' = [f \in Family |-> IF f \in F THEN "dead" ELSE state[f]]
  /\ UNCHANGED rotating

Next ==
  \/ \E f \in Family : Issue(f)
  \/ \E r \in Req, f \in Family : Admit(r, f)
  \/ \E r \in Req : Rotate(r) \/ Drop(r)
  \/ \E F \in SUBSET Family : End(F)

Spec == Init /\ [][Next]_vars
=============================================================================
