--------------------------- MODULE RequestAccess ---------------------------
(***************************************************************************)
(* What a request must show before the server works for it, and the work   *)
(* it then does on roles, clients and keys: the preHandlers (a session or  *)
(* an access token, a permission), client authentication, the issuing of   *)
(* access tokens and everyone who later verifies them. It composes         *)
(* SigningKeys, Clients and Roles, whose requests are the same ones.       *)
(***************************************************************************)
EXTENDS SigningKeys, Clients, Roles

CONSTANTS
    Sessions,    \* session tokens, each given out once
    RolesWrite   \* the permission roles:write

ASSUME RequestsAssumption == Callers = Requests /\ Editors = Requests

ASSUME RolesWriteAssumption == RolesWrite \in Perms

Nobody == "none"

VARIABLES
    session,   \* the row of each session token
    refresh,   \* the refresh token a client was last given
    issued,    \* access tokens that were delivered and have not expired
    visit      \* where each request is, for whom and with what

accessVars == <<session, refresh, issued, visit>>
vars == <<keyVars, clientVars, roleVars, accessVars>>

Outside == [pc |-> "out", who |-> Nobody, client |-> NoClient, kid |-> NoKid]
AccessToken == [sub : Users \cup Clients, kid : Kids]
SessionRow == [st : {"none", "live", "expired", "gone"}, user : Users \cup {Nobody}]
Visit == [pc : {"out", "in", "leaving", "roles", "clients", "client",
                "credentials", "bundle", "signed", "renewal", "renewed", "rotate"},
          who : Users \cup Sessions \cup {Nobody},
          client : Clients \cup {NoClient},
          kid : Kids \cup {NoKid}]

\* The subject of a token is a user or a client, and a token is neither.
ASSUME SubjectsAssumption == Users \cap Clients = {} /\ AccessToken \cap Clients = {}

\* A request is at work in one module at a time.
AtWork(r) ==
    /\ use[r].pc # "idle" => visit[r].pc \in {"credentials", "bundle", "renewal", "rotate"}
    /\ task[r].pc # "idle" => visit[r].pc \in {"clients", "client", "credentials"}
    /\ edit[r].pc # "idle" => visit[r].pc = "roles"

TablesOK ==
    /\ session \in [Sessions -> SessionRow]
    /\ refresh \in [Clients -> {"none", "live", "ended"}]
    /\ issued \in SUBSET AccessToken
    /\ visit \in [Requests -> Visit]

AccessTypeOK ==
    /\ KeysTypeOK /\ ClientsTypeOK /\ RolesTypeOK /\ TablesOK
    /\ \A r \in Requests : AtWork(r)

AccessInit ==
    /\ KeysInit /\ ClientsInit /\ RolesInit
    /\ session = [s \in Sessions |-> [st |-> "none", user |-> Nobody]]
    /\ refresh = [c \in Clients |-> "none"]
    /\ issued = {}
    /\ visit = [r \in Requests |-> Outside]

UserExists(u) == u # Root \/ rootRow # "none"

Goto(r, pc) == visit' = [visit EXCEPT ![r].pc = pc]
Leave(r) == visit' = [visit EXCEPT ![r] = Outside]

-----------------------------------------------------------------------------
(* Who verifies an access token. Every one is bound to the key of a DPoP   *)
(* proof: the token endpoint refuses a request without one. A proof is     *)
(* what its checks tell apart: who signed it, whether its method and URL   *)
(* are this call's, the token it names and when it was made. Proofs are    *)
(* not remembered: the same one is as good a second time.                  *)

Proof == [by : {"holder", "other"}, call : {"this", "other"},
          ath : {"this", "other", "none"}, iat : {"early", "in time", "late"}]
NoProof == [by |-> "nobody"]
Own == [by |-> "holder", call |-> "this", ath |-> "this", iat |-> "in time"]

\* validateDpopProof, for a call that shows a token.
ValidateDpopProof(p) ==
    IF p \in Proof /\ p.call = "this" /\ p.iat = "in time" /\ p.ath = "this"
    THEN p.by
    ELSE "refused"

Verifies(t) == t \in issued /\ t.kid \in Jwks

PluginAccepts(t, p) == Verifies(t) /\ ValidateDpopProof(p) = "holder"

\* It asks for the proof only of those who come with the DPoP scheme: with Bearer it
\* takes a token that is bound to a key, which the preHandler (auth.ts:99) refuses.
UserinfoAccepts(t, p) ==
    /\ Verifies(t)
    /\ p = NoProof \/ ValidateDpopProof(p) = "holder"
    /\ t.sub \in Users /\ UserExists(t.sub)

\* An access token is no refresh token, nor the reverse: the hint only says
\* which of the two is tried first.
FromAccessJwt(t) == IF t \in AccessToken /\ Verifies(t) THEN "active" ELSE "null"

FromRefresh(t) ==
    IF t \in Clients /\ client[t].st = "live" /\ refresh[t] # "none"
    THEN IF refresh[t] = "live" THEN "active" ELSE "inactive"
    ELSE "null"

Introspection(t, hint) ==
    LET first == IF hint = "refresh_token" THEN FromRefresh(t) ELSE FromAccessJwt(t)
        second == IF hint = "refresh_token" THEN FromAccessJwt(t) ELSE FromRefresh(t)
        answer == IF first # "null" THEN first ELSE second
    IN  answer = "active"

-----------------------------------------------------------------------------
(* Sessions: who signs in gets one (Accounts), requireSession reads it.    *)

OpenSession(s, u) ==
    /\ session[s].st = "none"
    /\ UserExists(u)
    /\ session' = [session EXCEPT ![s] = [st |-> "live", user |-> u]]
    /\ UNCHANGED <<keyVars, clientVars, roleVars, refresh, issued, visit>>

ExpireSession(s) ==
    /\ session[s].st = "live"
    /\ session' = [session EXCEPT ![s].st = "expired"]
    /\ UNCHANGED <<keyVars, clientVars, roleVars, refresh, issued, visit>>

DeleteExpired ==
    /\ \E s \in Sessions : session[s].st = "expired"
    /\ session' = [s \in Sessions |-> IF session[s].st = "expired"
                                      THEN [st |-> "gone", user |-> Nobody]
                                      ELSE session[s]]
    /\ UNCHANGED <<keyVars, clientVars, roleVars, refresh, issued, visit>>

\* A client's own token names no user: what needs one then fails.
RequireSession(r) ==
    /\ visit[r].pc = "out"
    /\ \E u \in Users :
          /\ \/ \E s \in Sessions : session[s] = [st |-> "live", user |-> u]
             \/ \E t \in issued : t.sub = u /\ PluginAccepts(t, Own)
          /\ visit' = [visit EXCEPT ![r].pc = "in", ![r].who = u]
    /\ UNCHANGED <<keyVars, clientVars, roleVars, session, refresh, issued>>

\* /end-session: the session is validated, then revoked by its id; with a
\* header and a cookie, the one after the other.
FindSession(r, s) ==
    /\ visit[r].pc = "out"
    /\ session[s].st = "live"
    /\ visit' = [visit EXCEPT ![r].pc = "leaving", ![r].who = s]
    /\ UNCHANGED <<keyVars, clientVars, roleVars, session, refresh, issued>>

EndSession(r) ==
    /\ visit[r].pc = "leaving"
    /\ session' = [session EXCEPT ![visit[r].who] = [st |-> "gone", user |-> Nobody]]
    /\ Leave(r)
    /\ UNCHANGED <<keyVars, clientVars, roleVars, refresh, issued>>

-----------------------------------------------------------------------------
(* Administration: requirePermission('roles', 'write') and requireAdmin    *)
(* ask once; the work comes after.                                         *)

PermitAdministration(r) ==
    /\ visit[r].pc = "in"
    /\ \/ HasPermission(visit[r].who, RolesWrite) /\ Goto(r, "roles")
       \/ MayAdminister(visit[r].who) /\ Goto(r, "clients")
    /\ UNCHANGED <<keyVars, clientVars, roleVars, session, refresh, issued>>

AdministerRoles(r) ==
    /\ visit[r].pc = "roles"
    /\ edit[r].pc = "idle"
    /\ \/ /\ \/ \E n \in Customs : CreateRole(n)
             \/ \E u \in Users, n \in Names : AssignRole(u, n) \/ RemoveRole(u, n)
          /\ Leave(r)
       \/ /\ \E n \in Names, want \in SUBSET Perms : AskPermissions(r, n, want)
          /\ UNCHANGED visit
    /\ UNCHANGED <<keyVars, clientVars, session, refresh, issued>>

ReplacePermissions(r) ==
    /\ \/ ClearPermissions(r) /\ UNCHANGED visit
       \/ FillPermissions(r) /\ Leave(r)
    /\ UNCHANGED <<keyVars, clientVars, session, refresh, issued>>

\* Deleting a client takes its refresh tokens along.
AdministerClients(r) ==
    /\ visit[r].pc = "clients"
    /\ \E c \in Clients :
          \/ (CreateClient(r, c) \/ RotateSecret(r, c)) /\ UNCHANGED <<visit, refresh>>
          \/ UpdateClient(r, c) /\ Leave(r) /\ UNCHANGED refresh
          \/ DeleteClient(r, c) /\ Leave(r) /\ refresh' = [refresh EXCEPT ![c] = "none"]
    /\ UNCHANGED <<keyVars, roleVars, session, issued>>

AnswerWithSecret(r) ==
    /\ DeliverSecret(r)
    /\ Leave(r)
    /\ UNCHANGED <<keyVars, roleVars, session, refresh, issued>>

-----------------------------------------------------------------------------
(* Clients at the token, introspection, revocation and PAR endpoints.      *)

ResolveClient(r, c) ==
    /\ visit[r].pc = "out"
    /\ ReadClient(r, c)
    /\ Goto(r, "client")
    /\ UNCHANGED <<keyVars, roleVars, session, refresh, issued>>

AuthenticateClient(r) ==
    /\ VerifySecret(r)
    /\ visit' = [visit EXCEPT ![r] = IF task'[r].pc = "idle" THEN Outside ELSE @]
    /\ UNCHANGED <<keyVars, roleVars, session, refresh, issued>>

\* exchangeClientCredentials, with the row as it was read.
ClientCredentials(r, s) ==
    /\ visit[r].pc = "client"
    /\ task[r].pc = "authed" /\ task[r].row.grant
    /\ BeginUse(r, s)
    /\ Goto(r, "credentials")
    /\ UNCHANGED <<clientVars, roleVars, session, refresh, issued>>

IssueToClient(r) ==
    /\ visit[r].pc = "credentials"
    /\ Sign(r)
    /\ issued' = issued \cup {[sub |-> task[r].client, kid |-> use[r].kid]}
    /\ LeaveClient(r)
    /\ Leave(r)
    /\ UNCHANGED <<roleVars, session, refresh>>

\* issueTokenBundle, after a code of u's was redeemed (OAuthGrants) or a
\* refresh token rotated (RefreshTokens): access and ID token are signed with
\* one key; for a code, a refresh token is stored then, where the rotation
\* stored one before; then the answer goes out.
BeginBundle(r, u, c, s) ==
    /\ visit[r].pc = "out"
    /\ UserExists(u)
    /\ client[c].st = "live"
    /\ BeginUse(r, s)
    /\ \E pc \in {"bundle"} \cup (IF refresh[c] = "live" THEN {"renewal"} ELSE {}) :
          visit' = [visit EXCEPT ![r] = [pc |-> pc, who |-> u, client |-> c, kid |-> NoKid]]
    /\ UNCHANGED <<clientVars, roleVars, session, refresh, issued>>

SignBundle(r) ==
    /\ visit[r].pc \in {"bundle", "renewal"}
    /\ Sign(r)
    /\ visit' = [visit EXCEPT ![r].pc = IF @ = "bundle" THEN "signed" ELSE "renewed",
                             ![r].kid = use[r].kid]
    /\ UNCHANGED <<clientVars, roleVars, session, refresh, issued>>

\* The row of a code's refresh token refers to its client: without it the
\* INSERT fails.  A renewal stores nothing more and goes out all the same.
DeliverBundle(r) ==
    /\ \/ /\ visit[r].pc = "signed"
          /\ client[visit[r].client].st = "live"
          /\ refresh' = [refresh EXCEPT ![visit[r].client] = "live"]
       \/ visit[r].pc = "renewed" /\ UNCHANGED refresh
    /\ issued' = issued \cup {[sub |-> visit[r].who, kid |-> visit[r].kid]}
    /\ Leave(r)
    /\ UNCHANGED <<keyVars, clientVars, roleVars, session>>

\* /revoke, or time. Revoking an access token changes nothing.
EndRefresh(c) ==
    /\ refresh[c] = "live"
    /\ refresh' = [refresh EXCEPT ![c] = "ended"]
    /\ UNCHANGED <<keyVars, clientVars, roleVars, session, issued, visit>>

ExpireToken(t) ==
    /\ t \in issued
    /\ issued' = issued \ {t}
    /\ UNCHANGED <<keyVars, clientVars, roleVars, session, refresh, visit>>

-----------------------------------------------------------------------------

RotateKeys(r, s) ==
    /\ visit[r].pc = "out"
    /\ RetireKeys(r, s)
    /\ Goto(r, "rotate")
    /\ UNCHANGED <<clientVars, roleVars, session, refresh, issued>>

UseKey(r) ==
    /\ KeyStep(r)
    /\ visit' = [visit EXCEPT ![r] = IF use'[r].pc = "idle" THEN Outside ELSE @]
    /\ UNCHANGED <<clientVars, roleVars, session, refresh, issued>>

\* Mutant of GiveUp: the client it had let in is let in still.
GiveUpLater(r) ==
    /\ visit[r].pc # "out"
    /\ AbandonKey(r) \/ (use[r].pc = "idle" /\ UNCHANGED keyVars)
    /\ AbandonEdit(r) \/ (edit[r].pc = "idle" /\ UNCHANGED roleVars)
    /\ Leave(r)
    /\ UNCHANGED <<clientVars, session, refresh, issued>>

\* A request is refused, is done, or dies, whatever it was at.
GiveUp(r) ==
    /\ visit[r].pc # "out"
    /\ AbandonKey(r) \/ (use[r].pc = "idle" /\ UNCHANGED keyVars)
    /\ LeaveClient(r) \/ (task[r].pc = "idle" /\ UNCHANGED clientVars)
    /\ AbandonEdit(r) \/ (edit[r].pc = "idle" /\ UNCHANGED roleVars)
    /\ Leave(r)
    /\ UNCHANGED <<session, refresh, issued>>

AccessNext ==
    \/ (Seeding \/ RegisterRoot) /\ UNCHANGED <<keyVars, clientVars, accessVars>>
    \/ \E s \in Services : Restart(s) /\ UNCHANGED <<clientVars, roleVars, accessVars>>
    \/ \E s \in Sessions, u \in Users : OpenSession(s, u)
    \/ \E s \in Sessions : ExpireSession(s)
    \/ DeleteExpired
    \/ \E r \in Requests :
          \/ RequireSession(r) \/ EndSession(r) \/ PermitAdministration(r)
          \/ AdministerRoles(r) \/ ReplacePermissions(r)
          \/ AdministerClients(r) \/ AnswerWithSecret(r)
          \/ AuthenticateClient(r) \/ IssueToClient(r)
          \/ SignBundle(r) \/ DeliverBundle(r) \/ UseKey(r) \/ GiveUp(r)
    \/ \E r \in Requests, s \in Sessions : FindSession(r, s)
    \/ \E r \in Requests, c \in Clients : ResolveClient(r, c)
    \/ \E r \in Requests, s \in Services : ClientCredentials(r, s) \/ RotateKeys(r, s)
    \/ \E r \in Requests, u \in Users, c \in Clients, s \in Services : BeginBundle(r, u, c, s)
    \/ \E c \in Clients : EndRefresh(c)
    \/ \E t \in AccessToken : ExpireToken(t)

AccessSpec == AccessInit /\ [][AccessNext]_vars

-----------------------------------------------------------------------------
(* Everyone who verifies an access token takes one that was delivered and  *)
(* has not expired, whatever keys were rotated, clients deleted or         *)
(* processes restarted since: the preHandler and introspection, which is   *)
(* the same with any hint, and userinfo for a user's token.                *)
IssuedAccepted ==
    \A t \in issued :
        /\ PluginAccepts(t, Own)
        /\ t.sub \in Users => UserinfoAccepts(t, Own) /\ UserinfoAccepts(t, NoProof)
        /\ \A hint \in {"access_token", "refresh_token", "none"} : Introspection(t, hint)

\* What carries them: a request rotates keys, answers with a secret or compares one
\* for one errand only; the user of a bundle exists; what was signed and what was
\* delivered is known to the verifiers.
Sound(r) ==
    /\ AtWork(r)
    /\ use[r].pc # "idle" /\ use[r].task = "rotate" => visit[r].pc = "rotate"
    /\ task[r].pc = "reply" => visit[r].pc = "clients"
    /\ task[r].pc = "verify" => visit[r].pc = "client"
    /\ visit[r].pc \in {"bundle", "renewal", "signed", "renewed"} =>
          visit[r].who \in Users /\ UserExists(visit[r].who)
    /\ visit[r].pc \in {"signed", "renewed"} => visit[r].kid \in Jwks

Known(t) == t.kid \in Jwks /\ (t.sub \in Users => UserExists(t.sub))

AccessInv ==
    /\ KeysInv /\ ClientsInv /\ RolesInv /\ TablesOK
    /\ \A r \in Requests : Sound(r)
    /\ \A t \in issued : Known(t)
=============================================================================
