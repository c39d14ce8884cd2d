------------------------------- MODULE MCSignIn -------------------------------
(* SignIn on instances small enough for TLC. *)
EXTENDS SignIn, TLC

CONSTANTS u1, u2, r1, r2

\* What waits for an answer, or for the router; the other clients of the throttle, and
\* the failures in it, are "others".
UnderWay ==
  {m.by : m \in landed}
  \cup {by \in By : verify[by] # None}
  \cup {s \in {"password", "nav", "load", "list", "change", "adrift", "logout", "others"} :
          CASE s = "password" -> sent # None
            [] s = "nav" -> nav # None
            [] s = "load" -> load # None
            [] s = "list" -> asked # None
            [] s = "change" -> change # None
            [] s = "adrift" -> adrift # {}
            [] s = "logout" -> leaving = "asked"
            [] s = "others" ->
                 Recent > 0 \/ \E r \in Req : pc[r] # "idle" /\ (r = Tab => sent = None)}

\* Bound: two things at the same time, of the sign-ins, of the list, of a document to be
\* loaded, or of the throttle; one at a time for an account with a second factor, but for
\* its sign-ins, and where /setup-passkey was dismissed.
TwoAtATime ==
  /\ Cardinality(UnderWay) <= 2
  /\ \/ UnderWay \subseteq SignIns \cup {"challenge", "logout", "nav"}
     \/ UnderWay \subseteq {"list", "change", "adrift", "logout", "nav"}
     \/ UnderWay \subseteq SignIns \cup {"load"} \/ UnderWay \subseteq {"change", "load"}
     \/ UnderWay \subseteq {"password", "others"}
  /\ enrolled \/ dismissed =>
       Cardinality(UnderWay) <= 1 \/ (~dismissed /\ UnderWay \subseteq SignIns \cup {"challenge", "nav"})

\* Bound: the browser's prompt for a passkey is gone when the login page is, and that
\* page comes with callbackUrl /account or /mfa.
ShortPrompts == page # "login" => prompt = None
FewBacks == page = "login" => back # "setup"
=============================================================================
