---------------------------- MODULE OAuthGrants ----------------------------
(***************************************************************************)
(* How a user's consent becomes tokens and how it is taken back:           *)
(* oauth/oauth.authorize.ts, oauth/par.service.ts and the code exchange of *)
(* oauth/oauth.token.ts, over the families of refresh tokens they end in.  *)
(*                                                                         *)
(* The refresh-token store is here only what TokenFamilies promises; that  *)
(* RefreshTokens keeps the promise is proved in AdminConsole_proofs.       *)
(*                                                                         *)
(* Every awaited statement is a step.  A request that the code refuses     *)
(* before it changed anything (unknown client, wrong verifier or redirect  *)
(* URI, scope not registered, PAR or code expired) is no step; a refusal   *)
(* later on ends the request as Abort does.  PKCE, redirect URIs, nonces   *)
(* and lifetimes decide only such refusals and are not state here: a row   *)
(* that expired is a row nobody reads any more.                            *)
(***************************************************************************)
EXTENDS FiniteSets

CONSTANTS
  User, Client,
  Scope,     \* scope values
  Asked,     \* the sets of them that requests ask for
  Par,       \* request_uri values the server may draw
  Code,      \* authorization codes the server may draw
  Family,    \* refresh-token families the server may draw
  Req,       \* requests in progress at the same time
  None       \* no value

ASSUME AskedAssumption == Asked \subseteq SUBSET Scope
ASSUME NoneAssumption == None \notin Family /\ None \notin Code /\ None \notin Par
\* A request, a code and a family are never the same thing.
ASSUME SortsAssumption == Req \cap Code = {} /\ Req \cap Family = {} /\ Code \cap Family = {}

VARIABLES
  first,      \* clients that are registered as first party
  gone,       \* deleted clients: their rows went with them
  consent,    \* scopes of the active consent_grants rows of each user and client
  par,        \* par_requests by request_uri
  code,       \* authorization_codes by code
  family,     \* what each refresh-token family is
  origin,     \* the code each family was issued for
  req,        \* the requests in progress
  outdated,   \* history: what relies on a consent withdrawn since it was read
  stranded,   \* history: grants whose withdrawal died before it revoked tokens
  overlapped  \* history: PARs and codes that two requests used side by side, PARs
              \* whose authorization died before it marked them

vars == <<first, gone, consent, par, code, family, origin, req,
          outdated, stranded, overlapped>>
rows == <<first, gone, consent, par, code, family, origin>>
history == <<outdated, stranded, overlapped>>

-----------------------------------------------------------------------------
GrantId == User \X Client
Status == {"open", "used"}
ParRow == [client : Client, scope : SUBSET Scope, status : Status]
\* par: the PAR it was issued for, None after a consent form; free: issued to a
\* first-party client, for which no consent is asked.
CodeRow == [grant : GrantId, scope : SUBSET Scope, status : Status,
            par : Par \cup {None}, free : BOOLEAN]

PC == {"idle", "client", "merge", "insert", "mark", "approve", "redeem", "issue",
       "withdraw", "revoke", "rotate"}

Request == [pc : PC, grant : GrantId \cup {None}, scope : SUBSET Scope,
            par : Par \cup {None}, code : Code \cup {None},
            family : Family \cup {None}, free : BOOLEAN]

Idle == [pc |-> "idle", grant |-> None, scope |-> {}, par |-> None,
         code |-> None, family |-> None, free |-> FALSE]

Drawn == DOMAIN code
\* Rows of a deleted client are gone (ON DELETE CASCADE).
Registered(g) == g[2] \notin gone
\* loadMergedConsentScopes
Merged(g) == UNION consent[g]
GrantOf(f) == code[origin[f]].grant
Issued == DOMAIN origin
LiveFamilies(G) == {f \in Issued : GrantOf(f) \in G /\ family[f] = "live"}

Families == INSTANCE TokenFamilies WITH
  state <- family,
  rotating <- [r \in Req |-> IF req[r].pc = "rotate" THEN req[r].family ELSE None]

Begin(r, q) == req[r].pc = "idle" /\ req' = [req EXCEPT ![r] = q]
Goto(r, pc) == req' = [req EXCEPT ![r].pc = pc]
Finish(r) == req' = [req EXCEPT ![r] = Idle]

\* What a request that ends leaves behind of the history.
Forget(r) == outdated' = outdated \ {r}

Init ==
  /\ first \in SUBSET Client
  /\ gone = {}
  /\ consent = [g \in GrantId |-> {}]
  /\ par = [p \in {} |-> None]
  /\ code = [x \in {} |-> None]
  /\ family = [f \in Family |-> "unused"]
  /\ origin = [f \in {} |-> None]
  /\ req = [r \in Req |-> Idle]
  /\ outdated = {}
  /\ stranded = {}
  /\ overlapped = {}

-----------------------------------------------------------------------------
(* authorizeWithPar *)

\* createParRequest: the client pushes its request.
PushPar(p) ==
  /\ p \notin DOMAIN par
  /\ \E c \in Client \ gone, s \in Asked :
       par' = [q \in DOMAIN par \cup {p} |->
                 IF q = p THEN [client |-> c, scope |-> s, status |-> "open"]
                 ELSE par[q]]
  /\ UNCHANGED <<first, gone, consent, code, family, origin, req, history>>

\* readParRequest, for the user whose session came with the request.
ReadPar(r) ==
  /\ \E p \in DOMAIN par, u \in User :
       /\ par[p].client \notin gone
       /\ par[p].status = "open"
       /\ Begin(r, [Idle EXCEPT !.pc = "client", !.grant = <<u, par[p].client>>,
                                !.scope = par[p].scope, !.par = p])
       /\ overlapped' = IF \E s \in Req : req[s].par = p
                        THEN overlapped \cup {p} ELSE overlapped
  /\ UNCHANGED <<rows, outdated, stranded>>

\* authorize reads the client: nobody asks for consent to a first-party client.
CheckClient(r) ==
  /\ req[r].pc = "client"
  /\ Registered(req[r].grant)
  /\ IF req[r].grant[2] \in first
     THEN req' = [req EXCEPT ![r] = [@ EXCEPT !.pc = "insert", !.free = TRUE]]
     ELSE Goto(r, "merge")
  /\ UNCHANGED <<rows, history>>

\* The active consents are merged; "consent_required" ends the request.
MergeConsents(r) ==
  /\ req[r].pc = "merge"
  /\ IF req[r].scope \subseteq Merged(req[r].grant) THEN Goto(r, "insert") ELSE Finish(r)
  /\ UNCHANGED <<rows, history>>

\* issueAuthorizationCode.  A code that was authorized through a PAR is answered
\* only after the PAR is marked; after a consent form it is answered at once.
IssueCode(r) ==
  LET q == req[r] IN
  /\ q.pc = "insert"
  /\ Registered(q.grant)
  /\ \E x \in Code \ Drawn :
       /\ code' = [y \in Drawn \cup {x} |->
            IF y = x THEN [grant |-> q.grant, scope |-> q.scope, status |-> "open",
                           par |-> q.par, free |-> q.free]
            ELSE code[y]]
       /\ outdated' = (IF r \in outdated THEN outdated \cup {x} ELSE outdated) \ {r}
  /\ IF q.par # None THEN Goto(r, "mark") ELSE Finish(r)
  /\ UNCHANGED <<first, gone, consent, par, family, origin, stranded, overlapped>>

\* markParRequestUsed
MarkUsed(r) ==
  /\ req[r].pc = "mark"
  /\ par' = [par EXCEPT ![req[r].par].status = "used"]
  /\ Finish(r)
  /\ UNCHANGED <<first, gone, consent, code, family, origin, history>>

-----------------------------------------------------------------------------
(* submitConsent: the form carries the scope it was shown, not the PAR. *)

StartConsent(r) ==
  /\ \E u \in User, c \in Client \ gone, s \in Asked :
       Begin(r, [Idle EXCEPT !.pc = "approve", !.grant = <<u, c>>, !.scope = s])
  /\ UNCHANGED <<rows, history>>

\* Mutant of GrantConsent: the new consent takes the place of the earlier ones.
GrantConsentAnew(r) ==
  LET g == req[r].grant IN
  /\ req[r].pc = "approve"
  /\ Registered(g)
  /\ consent' = [consent EXCEPT ![g] = {req[r].scope}]
  /\ Goto(r, "insert")
  /\ UNCHANGED <<first, gone, par, code, family, origin, history>>
GrantConsent(r) ==
  LET g == req[r].grant IN
  /\ req[r].pc = "approve"
  /\ Registered(g)
  /\ consent' = [consent EXCEPT ![g] = @ \cup {req[r].scope}]
  /\ Goto(r, "insert")
  /\ UNCHANGED <<first, gone, par, code, family, origin, history>>

-----------------------------------------------------------------------------
(* exchangeAuthorizationCode *)

\* The transaction reads the code and its client and finds them in order.
ReadCode(r) ==
  /\ \E x \in Drawn :
       /\ Registered(code[x].grant)
       /\ code[x].status = "open"
       /\ Begin(r, [Idle EXCEPT !.pc = "redeem", !.grant = code[x].grant,
                                !.code = x])
       /\ outdated' = IF x \in outdated THEN outdated \cup {r} ELSE outdated
  /\ UNCHANGED <<rows, stranded, overlapped>>

\* Mutant of RedeemCode: used_at is not written.
RedeemUnmarked(r) ==
  /\ req[r].pc = "redeem"
  /\ Goto(r, "issue")
  /\ UNCHANGED <<rows, history>>
\* Its UPDATE names the code by id only and does not look at used_at again.
RedeemCode(r) ==
  LET x == req[r].code IN
  /\ req[r].pc = "redeem"
  /\ code' = [code EXCEPT ![x].status = "used"]
  /\ overlapped' = IF code[x].status = "used" THEN overlapped \cup {x} ELSE overlapped
  /\ Goto(r, "issue")
  /\ UNCHANGED <<first, gone, consent, par, family, origin, outdated, stranded>>

\* Mutant of IssueTokens: the new row does not say whom it belongs to.
IssueAnonymous(r) ==
  /\ req[r].pc = "issue"
  /\ Registered(req[r].grant)
  /\ Finish(r)
  /\ \E f \in Family :
       /\ Families!Issue(f)
       /\ outdated' = (IF r \in outdated THEN outdated \cup {f} ELSE outdated) \ {r}
  /\ UNCHANGED <<first, gone, consent, par, code, origin, stranded, overlapped>>
\* issueTokenBundle stores the first refresh token outside that transaction.
IssueTokens(r) ==
  /\ req[r].pc = "issue"
  /\ Registered(req[r].grant)
  /\ Finish(r)
  /\ \E f \in Family :
       /\ Families!Issue(f)
       /\ origin' = [e \in Issued \cup {f} |-> IF e = f THEN req[r].code ELSE origin[e]]
       /\ outdated' = (IF r \in outdated THEN outdated \cup {f} ELSE outdated) \ {r}
  /\ UNCHANGED <<first, gone, consent, par, code, stranded, overlapped>>

-----------------------------------------------------------------------------
(* revokeConsent *)

\* Without an active consent the answer is 404.
FindGrant(r) ==
  /\ \E g \in GrantId :
       /\ Registered(g)
       /\ consent[g] # {}
       /\ Begin(r, [Idle EXCEPT !.pc = "withdraw", !.grant = g])
  /\ UNCHANGED <<rows, history>>

\* What has read the consent of g by now: authorizations past their check, codes
\* and exchanges of them, rotations.
ReliesOn(g) == {s \in Req : /\ req[s].grant = g
                            /\ req[s].pc \in {"insert", "redeem", "issue", "rotate"}}
               \cup {x \in Drawn : code[x].grant = g}
RotatingOf(g) == {s \in Req : req[s].grant = g /\ req[s].pc = "rotate"}

Withdraw(r) ==
  LET g == req[r].grant IN
  /\ req[r].pc = "withdraw"
  /\ consent' = [consent EXCEPT ![g] = {}]
  /\ outdated' = outdated \cup ReliesOn(g)
  /\ Goto(r, "revoke")
  /\ UNCHANGED <<first, gone, par, code, family, origin, stranded, overlapped>>

\* revokeAllForClient
RevokeTokens(r) ==
  LET g == req[r].grant IN
  /\ req[r].pc = "revoke"
  /\ Finish(r)
  /\ IF LiveFamilies({g}) = {} THEN UNCHANGED family
                               ELSE Families!End(LiveFamilies({g}))
  /\ outdated' = outdated \cup RotatingOf(g)
  /\ stranded' = stranded \ {g}
  /\ UNCHANGED <<first, gone, consent, par, code, origin, overlapped>>

-----------------------------------------------------------------------------
(* The other users of the store and of the tables. *)

\* A refresh_token grant finds the family live, and commits behind whatever
\* happened to it since.
StartRotation(r) ==
  /\ \E f \in Issued :
       /\ Registered(GrantOf(f))
       /\ Begin(r, [Idle EXCEPT !.pc = "rotate", !.grant = GrantOf(f), !.family = f])
       /\ Families!Admit(r, f)
  /\ UNCHANGED <<first, gone, consent, par, code, origin, history>>

CommitRotation(r) ==
  LET f == req[r].family IN
  /\ req[r].pc = "rotate"
  /\ Registered(req[r].grant)
  /\ Finish(r)
  /\ Families!Rotate(r)
  /\ outdated' = (IF r \in outdated THEN outdated \cup {f} ELSE outdated) \ {r}
  /\ UNCHANGED <<first, gone, consent, par, code, origin, stranded, overlapped>>

\* Reuse detection and the revocation endpoint.
RevokeFamily(f) ==
  /\ UNCHANGED <<first, gone, consent, par, code, origin, req, history>>
  /\ Families!End({f})

DeleteClient(c) ==
  LET F == LiveFamilies(User \X {c}) IN
  /\ c \notin gone
  /\ gone' = gone \cup {c}
  /\ consent' = [g \in GrantId |-> IF g[2] = c THEN {} ELSE consent[g]]
  /\ UNCHANGED <<first, par, code, origin, req, history>>
  /\ IF F = {} THEN UNCHANGED family ELSE Families!End(F)

\* updateClient may make a client first party or stop it being so.
UpdateClient(c) ==
  /\ c \notin gone
  /\ first' = IF c \in first THEN first \ {c} ELSE first \cup {c}
  /\ UNCHANGED <<gone, consent, par, code, family, origin, req, history>>

\* The process dies, the database fails, a listener throws, a check fails.
Abort(r) ==
  /\ req[r].pc # "idle"
  /\ stranded' = IF req[r].pc = "revoke" THEN stranded \cup {req[r].grant} ELSE stranded
  /\ overlapped' = IF req[r].pc = "mark" THEN overlapped \cup {req[r].par} ELSE overlapped
  /\ Finish(r)
  /\ Forget(r)
  /\ UNCHANGED rows

Step(r) ==
  \/ ReadPar(r) \/ CheckClient(r) \/ MergeConsents(r) \/ IssueCode(r) \/ MarkUsed(r)
  \/ StartConsent(r) \/ GrantConsent(r)
  \/ ReadCode(r) \/ RedeemCode(r) \/ IssueTokens(r)
  \/ FindGrant(r) \/ Withdraw(r) \/ RevokeTokens(r)
  \/ StartRotation(r) \/ CommitRotation(r)

Next ==
  \/ \E r \in Req : Step(r) \/ Abort(r)
  \/ \E p \in Par : PushPar(p)
  \/ \E f \in Family : RevokeFamily(f)
  \/ \E c \in Client : DeleteClient(c) \/ UpdateClient(c)

Spec == Init /\ [][Next]_vars

-----------------------------------------------------------------------------
TypeOK ==
  /\ first \subseteq Client /\ gone \subseteq Client
  /\ consent \in [GrantId -> SUBSET SUBSET Scope]
  /\ DOMAIN par \subseteq Par /\ par \in [DOMAIN par -> ParRow]
  /\ Drawn \subseteq Code /\ code \in [Drawn -> CodeRow]
  /\ family \in [Family -> Families!States]
  /\ Issued = {f \in Family : family[f] # "unused"} /\ origin \in [Issued -> Drawn]
  /\ req \in [Req -> Request]
  /\ outdated \subseteq Req \cup Drawn \cup Issued
  /\ stranded \subseteq GrantId
  /\ overlapped \subseteq Par \cup Code

\* A code for a third party never carries more than the user's active consents
\* to that very client, unless a consent was withdrawn after it was read.
CodesConsented ==
  \A x \in Drawn : Registered(code[x].grant) =>
    \/ code[x].free
    \/ x \in outdated
    \/ code[x].scope \subseteq Merged(code[x].grant)

Covered(f) ==
  \/ code[origin[f]].free
  \/ f \in outdated
  \/ code[origin[f]].scope \subseteq Merged(GrantOf(f))
  \/ GrantOf(f) \in stranded
  \/ \E r \in Req : req[r].pc = "revoke" /\ req[r].grant = GrantOf(f)

\* A live family of a third party is covered by active consents, but for four
\* reasons: its withdrawal is about to revoke it, or died before it did, or the
\* family was issued or rotated by a request that relied on the old consent.
LiveConsented == \A f \in Issued : family[f] = "live" => Covered(f)

\* What authorize (oauth.authorize.ts:154) and revokeConsent (:319) owe the user
\* together: codes and tokens alike stay within the consents of their owner.
Consented == CodesConsented /\ LiveConsented

\* A code yields one family, unless the UPDATE of a second exchange found the code
\* used already: both had read it before.  A PAR yields one code, unless a second
\* authorization read it before the first one marked it used or after the first
\* one died on the way there.
OnceUnlessOverlapped ==
  /\ \A e, f \in Issued : origin[e] = origin[f] => e = f \/ origin[e] \in overlapped
  /\ \A x, y \in Drawn : code[x].par = code[y].par /\ code[x].par # None =>
       x = y \/ code[x].par \in overlapped

-----------------------------------------------------------------------------
(* What carries these: GrantsInv is inductive. *)

\* What a request or a code names exists, and a request is about the grant of it.
Refers(r) ==
  LET q == req[r] IN
  /\ q.pc # "idle" => q.grant \in GrantId
  /\ q.pc \in {"redeem", "issue"} => q.code \in Drawn /\ code[q.code].grant = q.grant
  /\ q.pc = "rotate" => q.family \in Issued /\ GrantOf(q.family) = q.grant
  /\ q.pc = "mark" => q.par # None
  /\ q.par # None => q.par \in DOMAIN par /\ q.pc \in {"client", "merge", "insert", "mark"}

RowsRefer ==
  /\ \A r \in Req : Refers(r)
  /\ \A x \in Drawn : code[x].par # None => code[x].par \in DOMAIN par

\* What a request is about to insert is as good as what is there: a code that is
\* consented to, a family whose code is, a family that is covered.
Consenting(r) ==
  LET q == req[r] IN
  /\ q.pc = "insert" /\ Registered(q.grant) =>
       q.free \/ r \in outdated \/ q.scope \subseteq Merged(q.grant)
  /\ q.pc \in {"redeem", "issue"} /\ q.code \in outdated => r \in outdated
  /\ q.pc = "rotate" /\ Registered(q.grant) => r \in outdated \/ Covered(q.family)

RequestsConsented == \A r \in Req : Consenting(r)

\* A code that is open, or on its way from used to its family, has no family yet,
\* and goes that way once.
CodeOnce(x) ==
  LET issuing == {r \in Req : req[r].pc = "issue" /\ req[r].code = x}
      families == {f \in Issued : origin[f] = x}
  IN  /\ code[x].status = "open" => issuing = {} /\ families = {}
      /\ \A r \in issuing : issuing = {r} /\ families = {}
      /\ \A f \in families : families = {f}

\* A PAR is in one request's hands, and has a code only from its "mark" on.
ParOnce(p) ==
  LET holding == {r \in Req : req[r].par = p}
      codes == {x \in Drawn : code[x].par = p}
  IN  /\ \A r \in holding : holding = {r} /\ (req[r].pc # "mark" => codes = {})
      /\ \A x \in codes : codes = {x} /\ (par[p].status = "used" \/ holding # {})

OnceEach ==
  /\ \A x \in Drawn \ overlapped : CodeOnce(x)
  /\ \A p \in DOMAIN par \ overlapped : ParOnce(p)

GrantsInv == TypeOK /\ RowsRefer /\ RequestsConsented /\ Consented /\ OnceEach

\* oauth.routes.integration.test.ts:881 "DELETE /consent/:clientId revokes
\* consent and refresh tokens": once no request is under way, what a user has
\* not consented to is not live.
WithdrawalEndsAccess ==
  (\A r \in Req : req[r].pc = "idle") =>
    \A f \in Issued : family[f] = "live" =>
      code[origin[f]].free \/ code[origin[f]].scope \subseteq Merged(GrantOf(f))
=============================================================================
