--------------------------- MODULE RefreshTokens ---------------------------
(***************************************************************************)
(* The refresh-token store: token/refresh-token.service.ts and the part of *)
(* oauth/oauth.token.ts that answers a refresh_token grant.                *)
(*                                                                         *)
(* The table refresh_tokens is the function "row" from the tokens inserted *)
(* so far to their columns; a token stands for its hash and its plaintext  *)
(* alike.  Every awaited statement of a rotation is an action of its own,  *)
(* because Node runs other requests while it waits; an UPDATE and the      *)
(* INSERT of the same transaction are one action, because nobody sees one  *)
(* without the other and Postgres (READ COMMITTED) serialises two UPDATEs  *)
(* of one row.  The SELECT of that transaction locks nothing, so it is a   *)
(* step before.  An UPDATE that waited for a row lock looks at its WHERE   *)
(* clause again, which is what doing it in one step at that moment means.  *)
(***************************************************************************)
EXTENDS Integers

CONSTANTS
  Token,        \* tokens the server may ever draw (bounds their number)
  Family,       \* family identifiers (uuidv7)
  Grant,        \* what a family was granted for: a client and a user
  Key,          \* thumbprints of DPoP keys
  Req,          \* requests in progress at the same time
  None,         \* SQL NULL, and a token the server never issued
  Grace,        \* REFRESH_GRACE_PERIOD_SECONDS
  Ttl,          \* refresh token lifetime of a first token
  MinLifetime,  \* the 60_000 ms floor on a successor's lifetime
  MaxTime       \* bound on the clock

ASSUME NoneAssumption == None \notin Nat /\ None \notin Token /\ None \notin Key
                         /\ None \notin Family
ASSUME TimeAssumption == /\ Grace \in Nat /\ MaxTime \in Nat
                         /\ MinLifetime \in Nat /\ Ttl \in Nat

VARIABLES
  row,      \* refresh_tokens, by token
  removed,  \* grants whose client was deleted: its rows went with it
  clock,    \* wall clock
  req,      \* the requests in progress
  held,     \* tokens whose plaintext reached a caller
  raced,    \* history: families where a rotation replaced a revoked token
  closed    \* history: families revoked as a whole

vars == <<row, removed, clock, req, held, raced, closed>>

-----------------------------------------------------------------------------
Time == 0..MaxTime

Row == [family : Family, grant : Grant, key : Key,
        created : Nat, expires : Nat, revokedAt : Nat \cup {None},
        successor : Token \cup {None}]

PC == {"idle", "lookup", "child", "reuse", "select", "commit", "deliver"}

Request == [pc : PC, token : Token \cup {None}, key : Key \cup {None}, now : Nat,
            cur : Token \cup {None}, new : Token \cup {None}]

Idle == [pc |-> "idle", token |-> None, key |-> None, now |-> 0,
         cur |-> None, new |-> None]

Drawn == DOMAIN row
\* The rows the table holds: those of deleted clients are gone (ON DELETE CASCADE).
Stored == {t \in Drawn : row[t].grant \notin removed}
Live(t) == t \in Stored /\ row[t].revokedAt = None
Unrevoked(F) == {t \in Stored : row[t].family \in F /\ row[t].revokedAt = None}
FamiliesOf(T) == {row[t].family : t \in T}

\* Mutant of NextTtl: a sign slip in the successor's lifetime.
NextTtlNegated(c) == row[c].created - row[c].expires
\* A successor gets the lifetime that c's columns say, and no less than the floor.
NextTtl(c) ==
  LET life == row[c].expires - row[c].created IN IF life > MinLifetime THEN life ELSE MinLifetime

\* Mutant of Presentable: the DPoP comparison is lost.
PresentableToAnyKey(r, t) == row[t].expires > req[r].now
\* The checks a row must pass before it is rotated, on a request's own clock.
Presentable(r, t) ==
  /\ req[r].key = row[t].key
  /\ row[t].expires > req[r].now

Goto(r, pc) == req' = [req EXCEPT ![r].pc = pc]
\* The request reads the token that t was replaced by, as its row said so then.
Following(r, t) == req' = [req EXCEPT ![r] = [@ EXCEPT !.pc = "child", !.cur = t]]
\* rotateActiveRefreshTokenRow starts on row t.
Rotating(r, t) == req' = [req EXCEPT ![r] = [@ EXCEPT !.pc = "select", !.cur = t]]
\* The handler returns or throws: the request is over.
Finish(r) == req' = [req EXCEPT ![r] = Idle]

\* UPDATE ... SET revoked_at = at WHERE <in S> AND revoked_at IS NULL
RevokeRows(S, at) ==
  row' = [t \in Drawn |->
            IF t \in S /\ Live(t) THEN [row[t] EXCEPT !.revokedAt = at] ELSE row[t]]

InsertRow(t, columns) ==
  row' = [u \in Drawn \cup {t} |-> IF u = t THEN columns ELSE row[u]]

\* Mutants of Replace: the UPDATE sets the successor but not revoked_at; the
\* UPDATE is left out and only the INSERT happens.
ReplaceUnrevoked(c, t, at, began) ==
  row' = [u \in Drawn \cup {t} |->
    IF u = t THEN [row[c] EXCEPT !.created = began, !.expires = at + NextTtl(c)]
    ELSE IF u = c THEN [row[c] EXCEPT !.successor = t]
    ELSE row[u]]
ReplaceWithoutUpdate(c, t, at, began) ==
  row' = [u \in Drawn \cup {t} |->
    IF u = t THEN [row[c] EXCEPT !.revokedAt = None, !.successor = None,
                                 !.created = began, !.expires = at + NextTtl(c)]
    ELSE row[u]]
\* The UPDATE and the INSERT of a rotation: c is revoked and points at t, whose
\* created_at is the database's now(), when the transaction began.
Replace(c, t, at, began) ==
  row' = [u \in Drawn \cup {t} |->
    IF u = t THEN [family |-> row[c].family, grant |-> row[c].grant,
                   key |-> row[c].key, created |-> began, expires |-> at + NextTtl(c),
                   revokedAt |-> None, successor |-> None]
    ELSE IF u = c THEN [row[c] EXCEPT !.revokedAt = at, !.successor = t]
    ELSE row[u]]

Init ==
  /\ row = [t \in {} |-> None]
  /\ removed = {}
  /\ clock = 0
  /\ req = [r \in Req |-> Idle]
  /\ held = {}
  /\ raced = {}
  /\ closed = {}

-----------------------------------------------------------------------------
(* createRefreshToken, called for an authorization code: the first token of *)
(* a new family.  The row is stored before the answer is on its way.        *)
Create(r) ==
  /\ req[r].pc = "idle"
  /\ \E t \in Token \ Drawn, f \in Family \ FamiliesOf(Drawn),
       g \in Grant \ removed, k \in Key :
       /\ InsertRow(t, [family |-> f, grant |-> g, key |-> k, created |-> clock,
                        expires |-> clock + Ttl, revokedAt |-> None,
                        successor |-> None])
       /\ req' = [req EXCEPT ![r] = [pc |-> "deliver", token |-> None, key |-> k,
                                    now |-> 0, cur |-> None, new |-> t]]
  /\ UNCHANGED <<removed, clock, held, raced, closed>>

\* rotateRefreshToken: the request takes its timestamp before it reads anything.
Begin(r) ==
  /\ req[r].pc = "idle"
  /\ \E t \in held \cup {None}, k \in Key :
       req' = [req EXCEPT ![r] = [pc |-> "lookup", token |-> t, key |-> k,
                                  now |-> clock, cur |-> None, new |-> None]]
  /\ UNCHANGED <<row, removed, clock, held, raced, closed>>

\* The presented row is read and its state decides how the request goes on.
Lookup(r) ==
  LET t == req[r].token
      withinGrace == req[r].now < row[t].revokedAt + Grace
  IN
  /\ req[r].pc = "lookup"
  /\ \/ t \notin Stored /\ Finish(r)
     \/ /\ t \in Stored /\ ~Live(t)
        /\ \/ /\ withinGrace /\ row[t].successor # None
              /\ Following(r, row[t].successor)
           \/ withinGrace /\ row[t].successor = None /\ Finish(r)
           \/ ~withinGrace /\ Goto(r, "reuse")
     \/ Live(t) /\ ~Presentable(r, t) /\ Finish(r)
     \/ /\ Live(t) /\ Presentable(r, t)
        /\ Rotating(r, t)
  /\ UNCHANGED <<row, removed, clock, held, raced, closed>>

\* Within the grace period the successor stands in for the presented token.
FindChild(r) ==
  LET t == req[r].token
      c == req[r].cur
      found == Live(c) /\ row[c].family = row[t].family
  IN
  /\ req[r].pc = "child"
  /\ \/ found /\ Presentable(r, c) /\ Rotating(r, c)
     \/ ~(found /\ Presentable(r, c)) /\ Finish(r)
  /\ UNCHANGED <<row, removed, clock, held, raced, closed>>

\* Mutant of RevokeFamily: only the presented token is revoked.
RevokePresentedOnly(r) ==
  /\ req[r].pc = "reuse"
  /\ RevokeRows({req[r].token}, clock)
  /\ closed' = closed \cup {row[req[r].token].family}
  /\ Finish(r)
  /\ UNCHANGED <<removed, clock, held, raced>>
\* revokeAllNonRevokedInFamily, then "Refresh token reuse detected".
RevokeFamily(r) ==
  LET f == row[req[r].token].family IN
  /\ req[r].pc = "reuse"
  /\ RevokeRows(Unrevoked({f}), clock)
  /\ closed' = closed \cup {f}
  /\ Finish(r)
  /\ UNCHANGED <<removed, clock, held, raced>>

\* Mutant of TxSelect: the transaction trusts the row read before it.
TxSelectTrusting(r) ==
  /\ req[r].pc = "select"
  /\ Goto(r, "commit")
  /\ UNCHANGED <<row, removed, clock, held, raced, closed>>
\* The transaction of rotateActiveRefreshTokenRow reads the row again.
TxSelect(r) ==
  LET c == req[r].cur IN
  /\ req[r].pc = "select"
  /\ \/ Live(c) /\ row[c].expires > req[r].now /\ Goto(r, "commit")
     \/ ~(Live(c) /\ row[c].expires > req[r].now) /\ Finish(r)
  /\ UNCHANGED <<row, removed, clock, held, raced, closed>>

\* Its UPDATE names the row by id only, so it revokes a second time what
\* another transaction revoked since, and the INSERT follows all the same.
\* The INSERT of a deleted client's token breaks the foreign key: roll back.
TxCommit(r) ==
  LET c == req[r].cur IN
  /\ req[r].pc = "commit"
  /\ \/ /\ c \in Stored
        /\ \E t \in Token \ Drawn, began \in req[r].now..clock :
             /\ Replace(c, t, req[r].now, began)
             /\ req' = [req EXCEPT ![r] = [@ EXCEPT !.pc = "deliver", !.new = t]]
        /\ raced' = IF row[c].revokedAt = None THEN raced
                    ELSE raced \cup {row[c].family}
     \/ c \notin Stored /\ Finish(r) /\ UNCHANGED <<row, raced>>
  /\ UNCHANGED <<removed, clock, held, closed>>

\* The answer.  exchangeRefreshToken reads the new row first and fails without
\* it; the exchange of an authorization code (cur = None) answers all the same.
Deliver(r) ==
  /\ req[r].pc = "deliver"
  /\ held' = IF req[r].cur = None \/ req[r].new \in Stored
             THEN held \cup {req[r].new} ELSE held
  /\ Finish(r)
  /\ UNCHANGED <<row, removed, clock, raced, closed>>

\* The request ends without an answer: the process dies, the connection
\* drops or an event listener throws after the write.
Abort(r) ==
  /\ req[r].pc # "idle"
  /\ Finish(r)
  /\ UNCHANGED <<row, removed, clock, held, raced, closed>>

-----------------------------------------------------------------------------
\* revokeRefreshToken, and revokeToken of the revocation endpoint.
RevokeToken(t) ==
  /\ t \in held
  /\ Live(t)
  /\ RevokeRows({t}, clock)
  /\ UNCHANGED <<removed, clock, req, held, raced, closed>>

\* revokeAllForClient, when the user withdraws consent.
RevokeAllForClient(g) ==
  LET F == FamiliesOf({t \in Stored : row[t].grant = g}) IN
  /\ F # {}
  /\ RevokeRows(Unrevoked(F), clock)
  /\ closed' = closed \cup F
  /\ UNCHANGED <<removed, clock, req, held, raced>>

\* deleteClient: its rows are deleted by cascade.
DeleteClient(g) ==
  /\ g \notin removed
  /\ removed' = removed \cup {g}
  /\ UNCHANGED <<row, clock, req, held, raced, closed>>

Tick ==
  /\ clock < MaxTime
  /\ clock' = clock + 1
  /\ UNCHANGED <<row, removed, req, held, raced, closed>>

Rotation(r) ==
  \/ Begin(r)
  \/ Lookup(r)
  \/ FindChild(r)
  \/ RevokeFamily(r)
  \/ TxSelect(r)
  \/ TxCommit(r)
  \/ Deliver(r)

Next ==
  \/ \E r \in Req : Create(r) \/ Rotation(r) \/ Abort(r)
  \/ \E t \in Token : RevokeToken(t)
  \/ \E g \in Grant : RevokeAllForClient(g) \/ DeleteClient(g)
  \/ Tick

Spec == Init /\ [][Next]_vars

-----------------------------------------------------------------------------
TypeOK ==
  /\ Drawn \subseteq Token
  /\ row \in [Drawn -> Row]
  /\ removed \subseteq Grant
  /\ clock \in Nat
  /\ req \in [Req -> Request]
  /\ held \subseteq Drawn
  /\ raced \subseteq FamiliesOf(Drawn)
  /\ closed \subseteq FamiliesOf(Drawn)

\* Rotation carries the grant and the DPoP binding from row to row: no chain
\* of rotations, straight or through the grace period, moves a family to
\* another client or user or loosens its key (line 95-103).
FamilyCoherent ==
  \A t, u \in Drawn :
    row[t].family = row[u].family =>
      row[t].grant = row[u].grant /\ row[t].key = row[u].key

\* The grace pointer is a forest: only a revoked row has one, it leads to a
\* later row of the same family, and no two rows lead to the same successor,
\* so a retry can never be answered from somebody else's rotation.
SuccessorsChain ==
  \A t \in Drawn : row[t].successor # None =>
    /\ row[t].revokedAt # None
    /\ row[t].successor \in Drawn \ {t}
    /\ row[row[t].successor].family = row[t].family
    /\ \A u \in Drawn \ {t} : row[u].successor # row[t].successor

\* Two live tokens in one family come from one cause only: a rotation whose
\* unguarded UPDATE (line 87-93) replaced a row revoked since its SELECT.
OneLiveUnlessRaced ==
  \A t, u \in Stored :
    Live(t) /\ Live(u) /\ row[t].family = row[u].family
      => t = u \/ row[t].family \in raced

\* A family revoked as a whole, by reuse detection or by withdrawing consent,
\* has no live token ever after, unless a rotation was overtaken by the
\* revocation and committed behind it.
ClosedStaysClosed ==
  \A t \in Stored : Live(t) /\ row[t].family \in closed => row[t].family \in raced

\* Whoever is about to receive a token proved the key the token is bound to,
\* on the grace path as well as on the straight one.
DeliveredToKeyHolder ==
  \A r \in Req :
    req[r].pc = "deliver" =>
      req[r].new \in Drawn /\ row[req[r].new].key = req[r].key

\* The binding to a DPoP key, from the first token of a family to its last: rows of a
\* family agree on it, and whoever is handed a token has proved it.
KeyBound == FamilyCoherent /\ DeliveredToKeyHolder

\* The rows implement the families they stand for (TokenFamilies).
FamilyState(f) ==
  IF f \notin FamiliesOf(Drawn) THEN "unused"
  ELSE IF Unrevoked({f}) # {} THEN "live" ELSE "dead"

Abstract == INSTANCE TokenFamilies WITH
  state <- [f \in Family |-> FamilyState(f)],
  rotating <- [r \in Req |-> IF req[r].pc = "commit" THEN row[req[r].cur].family
                             ELSE None]

\* A dead family comes back only through a rotation admitted while it lived.
ImplementsFamilies == Abstract!Spec

\* What the tests say of a revoked family: "replay after grace revokes refresh
\* token family" (oauth.routes.integration.test.ts:519) and "DELETE
\* /consent/:clientId revokes consent and refresh tokens" (:881).  Taken at its
\* word, no token of the family is live from then on.
RevokedFamilyIsDead == \A t \in Stored : row[t].family \in closed => ~Live(t)
=============================================================================
