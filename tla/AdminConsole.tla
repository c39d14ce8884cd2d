---------------------------- MODULE AdminConsole ----------------------------
(***************************************************************************)
(* One browser of the admin console and the refresh tokens behind it: the  *)
(* routes apps/admin/src/app/auth/{login,callback,logout}/route.ts and     *)
(* lib/{api-client.server,token-refresh}.ts, composed with RefreshTokens.  *)
(*                                                                         *)
(* The console keeps no session of its own: everything is in two cookies,  *)
(* which every request carries as they were when it was sent and every     *)
(* answer may set, in the order the answers arrive.  Whether the access    *)
(* token of a visit has run out, so that it refreshes, is a free choice.   *)
(* An answer that sets no cookie is lost: the connection broke, or a page  *)
(* was being rendered, in which Next.js lets nobody set cookies.           *)
(***************************************************************************)
EXTENDS RefreshTokens

CONSTANT Delay  \* a request or an answer under way for longer is late

\* Two legs of a refresh that are in time fit into the grace period.
ASSUME DelayAssumption == Delay \in Nat /\ 2 * Delay < Grace

VARIABLES
  session,  \* the cookie admin_session: refresh token and key pair, or None
  pkce,     \* the cookie admin_pkce: the key pair of the login begun last, or None
  begun,    \* key pairs of logins that have not come back yet
  visit,    \* the session cookie that a request on its way to the console carries
  answers,  \* answers under way to the browser
  leaving,  \* the token that a logout under way found in its cookie, or None
  revoking, \* whether that logout has still to have it revoked
  seen,     \* history: tokens that were in the cookie
  fault,    \* history: "missed" once the browser has missed a token or lost it to an
            \* older one, else "late" once a refresh took too long, else "none"
  ended,    \* history: families of finished logouts
  crossed   \* history: families of which a refresh was under way when a logout read its
            \* cookie, or was sent before that logout had the token revoked

browser == <<session, pkce, begun, visit, answers, leaving, revoking>>
past == <<seen, fault, ended, crossed>>
consoleVars == <<vars, browser, past>>

-----------------------------------------------------------------------------
Cookie == [token : Token, key : Key]
\* at: when the request of a visit was sent, when that of an answer reached the
\* server; 0 for a login, which may take its time.
Sent == [token : Token, key : Key, at : Nat]
Answer == [token : Token, key : Key, at : Nat, login : BOOLEAN]

\* Tokens under way, with a visit, a refresh at the server or an answer; their families.
Going == {visit[r].token : r \in {s \in Req : visit[s] # None}}
         \cup {req[r].token : r \in Req} \cup {req[r].new : r \in Req}
         \cup {a.token : a \in answers}
Underway == FamiliesOf(Going \ {None})

\* Whether a leg of a refresh takes longer than Delay.
Late(now) ==
  \/ \E r \in Req : visit[r] # None /\ visit[r].at + Delay < now
  \/ \E r \in Req : req[r].token # None /\ req[r].now + Delay < now
  \/ \E a \in answers : ~a.login /\ a.at + Delay < now

ConsoleInit ==
  /\ Init
  /\ session = None /\ pkce = None /\ leaving = None /\ revoking = FALSE
  /\ begun = {} /\ answers = {} /\ seen = {} /\ ended = {} /\ crossed = {}
  /\ fault = "none"
  /\ visit = [r \in Req |-> None]

-----------------------------------------------------------------------------
(* Login *)

\* GET /auth/login: a fresh key pair goes into the cookie, whatever was there.
StartLogin(k) ==
  /\ k \notin begun /\ k # pkce
  /\ \A t \in Drawn : row[t].key # k
  /\ \A r \in Req : req[r].key # k
  /\ pkce' = k
  /\ begun' = begun \cup {k}
  /\ UNCHANGED <<vars, session, visit, answers, leaving, revoking, past>>

\* A login comes back to GET /auth/callback with its state.  The one that began
\* last has its code exchanged with the key pair of the cookie; another one only
\* empties the cookie.
Callback(r, k) ==
  /\ k \in begun
  /\ req[r].pc = "idle" /\ visit[r] = None
  /\ begun' = begun \ {k}
  /\ \/ pkce = k /\ Create(r) /\ req'[r].key = k /\ UNCHANGED pkce
     \/ pkce # k /\ pkce' = None /\ UNCHANGED vars
  /\ UNCHANGED <<session, visit, answers, leaving, revoking, past>>

-----------------------------------------------------------------------------
(* Refresh *)

\* A request of the browser whose access token has run out.  It crosses a logout
\* that has read the same cookie and has not had the token revoked yet.
Visit(r) ==
  /\ session # None
  /\ req[r].pc = "idle" /\ visit[r] = None
  /\ visit' = [visit EXCEPT ![r] = [token |-> session.token, key |-> session.key, at |-> clock]]
  /\ crossed' = IF revoking
                THEN crossed \cup ({row[session.token].family} \cap {row[leaving].family})
                ELSE crossed
  /\ UNCHANGED <<vars, session, pkce, begun, answers, leaving, revoking, seen, fault, ended>>

\* getCredentials and refreshAccessToken: the request asks for the next token.
Refresh(r) ==
  /\ visit[r] # None
  /\ Begin(r)
  /\ req'[r].token = visit[r].token
  /\ req'[r].key = visit[r].key
  /\ visit' = [visit EXCEPT ![r] = None]
  /\ UNCHANGED <<session, pkce, begun, answers, leaving, revoking, past>>

\* What the server does with it meanwhile.
Serve(r) ==
  /\ Lookup(r) \/ FindChild(r) \/ RevokeFamily(r) \/ TxSelect(r) \/ TxCommit(r)
  /\ UNCHANGED <<browser, past>>

\* Mutant of SendAnswer: a callback answers with the key pair of the cookie as it
\* is by now.
SendAnswerWithLatestKey(r) ==
  /\ Deliver(r)
  /\ answers' = answers \cup {[token |-> req[r].new, at |-> req[r].now,
       key |-> IF req[r].cur = None /\ pkce # None THEN pkce ELSE req[r].key,
       login |-> req[r].cur = None]}
  /\ UNCHANGED <<session, pkce, begun, visit, leaving, revoking, past>>
\* Mutant of SendAnswer: the token that was presented is taken for the new one.
SendAnswerWithOldToken(r) ==
  /\ Deliver(r)
  /\ answers' = answers \cup {[token |-> req[r].token, at |-> req[r].now,
                               key |-> req[r].key, login |-> req[r].cur = None]}
  /\ UNCHANGED <<session, pkce, begun, visit, leaving, revoking, past>>
\* The answer is on its way to the browser, with the key pair the request carried.
SendAnswer(r) ==
  /\ Deliver(r)
  /\ answers' = answers \cup {[token |-> req[r].new, at |-> req[r].now,
                               key |-> req[r].key, login |-> req[r].cur = None]}
  /\ UNCHANGED <<session, pkce, begun, visit, leaving, revoking, past>>

\* Mutant of SetSession: only a login writes the cookie.
SetSessionAtLogin(a) ==
  /\ a \in answers
  /\ answers' = answers \ {a}
  /\ session' = IF a.login THEN [token |-> a.token, key |-> a.key] ELSE session
  /\ pkce' = IF a.login THEN None ELSE pkce
  /\ seen' = seen \cup {a.token}
  /\ fault' = IF row[a.token].successor \in seen THEN "missed" ELSE fault
  /\ UNCHANGED <<vars, begun, visit, leaving, revoking, ended, crossed>>
\* It arrives and sets the cookie.  It was overtaken if the cookie has held the
\* successor of its token by then.
SetSession(a) ==
  /\ a \in answers
  /\ answers' = answers \ {a}
  /\ session' = [token |-> a.token, key |-> a.key]
  /\ pkce' = IF a.login THEN None ELSE pkce
  /\ seen' = seen \cup {a.token}
  /\ fault' = IF row[a.token].successor \in seen THEN "missed" ELSE fault
  /\ UNCHANGED <<vars, begun, visit, leaving, revoking, ended, crossed>>

Lose(a) ==
  /\ a \in answers
  /\ answers' = answers \ {a}
  /\ fault' = IF a.login THEN fault ELSE "missed"
  /\ UNCHANGED <<vars, session, pkce, begun, visit, leaving, revoking, seen, ended, crossed>>

\* A request does not get through, or breaks off at the server.
BreakOff(r) ==
  /\ \/ visit[r] # None /\ visit' = [visit EXCEPT ![r] = None] /\ UNCHANGED <<vars, fault>>
     \/ /\ Abort(r)
        /\ fault' = IF req[r].pc = "deliver" /\ req[r].cur # None THEN "missed" ELSE fault
        /\ UNCHANGED visit
  /\ UNCHANGED <<session, pkce, begun, answers, leaving, revoking, seen, ended, crossed>>

-----------------------------------------------------------------------------
(* Logout *)

\* POST /auth/logout reads the token of the cookie it was sent with.
LogOut ==
  /\ session # None /\ leaving = None
  /\ leaving' = session.token
  /\ revoking' = TRUE
  /\ crossed' = crossed \cup (Underway \cap {row[session.token].family})
  /\ UNCHANGED <<vars, session, pkce, begun, visit, answers, seen, fault, ended>>

\* Mutant of Revoke: the token is not revoked.
RevokeNothing ==
  /\ revoking
  /\ revoking' = FALSE
  /\ UNCHANGED <<vars, session, pkce, begun, visit, answers, leaving, past>>
\* It has that token revoked over the network, whatever the cookie holds by then; a
\* failure is ignored.
Revoke ==
  /\ revoking
  /\ revoking' = FALSE
  /\ \/ /\ IF Live(leaving) THEN RevokeToken(leaving) ELSE UNCHANGED vars
        /\ UNCHANGED fault
     \/ fault' = "missed" /\ UNCHANGED vars
  /\ UNCHANGED <<session, pkce, begun, visit, answers, leaving, seen, ended, crossed>>

\* Its answer deletes the cookie, whatever it holds by then.
ClearSession ==
  /\ leaving # None /\ ~revoking
  /\ session' = None /\ leaving' = None
  /\ ended' = ended \cup {row[leaving].family}
  /\ UNCHANGED <<vars, pkce, begun, visit, answers, revoking, seen, fault, crossed>>

\* Time passes; what is under way for too long is late.
Wait ==
  /\ Tick
  /\ fault' = IF Late(clock + 1) /\ fault = "none" THEN "late" ELSE fault
  /\ UNCHANGED <<browser, seen, ended, crossed>>

-----------------------------------------------------------------------------
ConsoleNext ==
  \/ \E k \in Key : StartLogin(k)
  \/ \E r \in Req, k \in Key : Callback(r, k)
  \/ \E r \in Req : Visit(r) \/ Refresh(r) \/ Serve(r) \/ SendAnswer(r)
                    \/ BreakOff(r)
  \/ \E a \in answers : SetSession(a) \/ Lose(a)
  \/ LogOut \/ Revoke \/ ClearSession
  \/ Wait

ConsoleSpec == ConsoleInit /\ [][ConsoleNext]_consoleVars

-----------------------------------------------------------------------------
ConsoleTypeOK ==
  /\ TypeOK
  /\ session \in Cookie \cup {None} /\ pkce \in Key \cup {None}
  /\ begun \subseteq Key
  /\ visit \in [Req -> Sent \cup {None}]
  /\ answers \subseteq Answer
  /\ leaving \in Drawn \cup {None} /\ revoking \in BOOLEAN
  /\ revoking => leaving # None
  /\ seen \subseteq Drawn
  /\ fault \in {"none", "late", "missed"}
  /\ ended \subseteq FamiliesOf(Drawn) /\ crossed \subseteq FamiliesOf(Drawn)

\* The token in the cookie is bound to the key pair beside it, however the tabs of
\* the browser log in and refresh across each other: otherwise the next refresh
\* is refused and the administrator is logged out.
CookieUsable == session # None => row[session.token].key = session.key

\* Families that a logout has been through with, but for deleting the cookie.
Ended == ended \cup FamiliesOf(IF revoking THEN {} ELSE {leaving} \ {None})

\* Before a logout revokes its token, reuse detection strikes a session only if an
\* answer was lost, was late or came after that of the refresh which followed: the
\* grace period absorbs refreshes that merely run at the same time.
GraceAbsorbsConcurrency ==
  \A r \in Req : req[r].pc = "reuse" => fault # "none" \/ row[req[r].token].family \in Ended

\* After a logout no token of the session is live, unless a refresh was under way
\* when it read the cookie or was sent before the revocation came through, two
\* rotations of one token raced, or the browser had missed a token.
LogoutEndsFamily ==
  \A f \in ended :
    Unrevoked({f}) # {} => f \in raced \cup crossed \/ fault = "missed"

-----------------------------------------------------------------------------
(* What carries these, beside the invariants of the store: ConsoleInv. *)

Delivering == {r \in Req : req[r].pc = "deliver"}
\* Tokens on their way to the cookie.
Coming == {a.token : a \in answers} \cup {req[r].new : r \in Delivering}

\* What is presented was in the cookie; what a request rotates is that token or the
\* one which replaced it.
Presented(r) ==
  LET q == req[r] IN
  /\ visit[r] # None => visit[r].token \in seen /\ visit[r].at <= clock
  /\ q.now <= clock
  /\ q.pc \in {"lookup", "child", "reuse", "select", "commit"} => q.token \in seen
  /\ q.pc \in {"child", "select", "commit"} =>
       /\ q.cur \in Drawn /\ row[q.cur].family = row[q.token].family
       /\ q.cur \in {q.token, row[q.token].successor} \/ row[q.token].family \in raced
  /\ q.pc = "deliver" => q.token \in IF q.cur = None THEN {None} ELSE seen

\* A token comes to the cookie once, with the key it is bound to.
ComesOnce ==
  /\ Coming \cap seen = {}
  /\ \A a, b \in answers : a.token = b.token => a = b
  /\ \A r, s \in Delivering : req[r].new = req[s].new => r = s
  /\ \A a \in answers, r \in Delivering : a.token # req[r].new
  /\ \A a \in answers : a.token \in Drawn /\ row[a.token].key = a.key
  /\ session # None => session.token \in seen

\* A family the cookie has not seen is one token, that of a login; of the others it
\* has seen every token or will, unless the browser misses one.
OneAtFirst ==
  \A t, u \in Drawn : row[t].family = row[u].family =>
    t = u \/ row[t].family \in FamiliesOf(seen)
LoginsFirst ==
  /\ \A a \in answers : a.login => row[a.token].family \notin FamiliesOf(seen)
  /\ \A r \in Delivering : req[r].cur = None => row[req[r].new].family \notin FamiliesOf(seen)
OthersCome ==
  fault = "missed" \/ \A t \in Drawn : row[t].family \in FamiliesOf(seen) => t \in seen \cup Coming
FirstComes == OneAtFirst /\ LoginsFirst /\ OthersCome

\* The live tokens of t's family are in T.
LivesIn(t, T) == \A u \in Drawn : row[u].family = row[t].family /\ row[u].revokedAt = None => u \in T

\* Outside races a family is one chain: a token was replaced by somebody who had it
\* or its predecessor, and one revoked without being replaced is the last.
OneChain ==
  \A t \in Drawn : row[t].family \notin raced /\ row[t].revokedAt # None =>
    IF row[t].successor = None
    THEN LivesIn(t, {})
    ELSE t \in seen \/ \E p \in seen : row[p].successor = t

\* While the browser misses nothing, the cookie holds the live token of its family or
\* that token is coming, and what replaced the token in the cookie is coming too.
CookieFollows ==
  fault # "missed" /\ session # None =>
    /\ \/ row[session.token].family \in raced
       \/ LivesIn(session.token, Coming \cup {session.token})
    /\ row[session.token].successor \notin seen

\* What a logout is about to revoke is all that lives of its family, until a refresh
\* crosses it.
LastOne ==
  revoking /\ fault # "missed" /\ row[leaving].family \notin raced \cup crossed =>
    row[leaving].family \notin Underway /\ LivesIn(leaving, {leaving})

\* A family logged out of has no live token and no rotation that would make one.
EndedIsDead ==
  fault # "missed" => \A f \in Ended \ (raced \cup crossed) :
    /\ Unrevoked({f}) = {}
    /\ \A r \in Req : req[r].pc = "commit" => row[req[r].cur].family # f

\* The token that replaced t left the server for the browser when t was replaced.
NextOf(t) ==
  \/ row[t].successor \in seen \cup {None}
  \/ \E a \in answers : ~a.login /\ a.token = row[t].successor /\ a.at = row[t].revokedAt
  \/ \E r \in Delivering : /\ req[r].cur # None
                           /\ req[r].new = row[t].successor /\ req[r].now = row[t].revokedAt

NextComes == fault # "missed" => \A t \in Drawn : NextOf(t)

\* While nothing is late, a token that was replaced was presented soon enough, and
\* one that was not is of a family logged out of.
InTime == fault = "none" => ~Late(clock)
InGrace ==
  fault = "none" =>
    /\ \A t \in Drawn : row[t].revokedAt # None /\ row[t].successor = None =>
         row[t].family \in Ended
    /\ \A r \in Req : visit[r] # None /\ row[visit[r].token].successor # None =>
         visit[r].at <= row[visit[r].token].revokedAt + Delay
    /\ \A r \in Req : req[r].pc = "lookup" /\ row[req[r].token].successor # None =>
         req[r].now < row[req[r].token].revokedAt + Grace
    /\ \A r \in Req : req[r].pc = "reuse" => row[req[r].token].family \in Ended

ConsoleInv ==
  /\ ConsoleTypeOK /\ CookieUsable
  /\ removed = {} /\ Going \subseteq Drawn \cup {None}
  /\ \A r \in Req : Presented(r)
  /\ ComesOnce /\ FirstComes /\ OneChain /\ CookieFollows
  /\ LastOne /\ EndedIsDead
  /\ NextComes /\ InTime /\ InGrace
=============================================================================
