------------------------------ MODULE Accounts ------------------------------
(***************************************************************************)
(* One user account, its passwords, its status and its sessions:           *)
(* auth/auth.service.ts, auth/password-reset.service.ts,                   *)
(* auth/email-verification.service.ts, session/session.service.ts, the     *)
(* part of mfa/mfa.service.ts that answers a challenge, the passkey login, *)
(* and what an administrator does to users and sessions.                   *)
(*                                                                         *)
(* Every statement these services send names the account or one of its     *)
(* rows, so one account stands for all.  Every awaited statement that      *)
(* reads or writes shared state is a step; hashing, a counter of login     *)
(* failures (LoginThrottle) and events are only time that passes, and any  *)
(* request may end at any step.  A password is its number: the first one   *)
(* is 1, and every later one is new.                                       *)
(***************************************************************************)
EXTENDS Integers, FiniteSets

CONSTANTS
  Session,      \* ids of sessions the server may draw
  Challenge,    \* MFA challenges it may draw
  Reset,        \* password reset tokens it may draw
  Verification, \* email verification tokens it may draw
  Req,          \* requests in progress at the same time
  ResetLimit,   \* MAX_UNUSED_RESET_REQUESTS_PER_HOUR
  MaxPassword,  \* bound on the passwords the account ever has
  MaxStint,     \* bound on its suspensions
  None          \* no value

ASSUME BoundAssumption == ResetLimit \in Nat /\ MaxPassword \in Nat \ {0} /\ MaxStint \in Nat
ASSUME NoneAssumption ==
  None \notin Session /\ None \notin Challenge \cup Reset \cup Verification
\* Tokens of different tables are never the same.
ASSUME SortsAssumption ==
  Challenge \cap Reset = {} /\ Challenge \cap Verification = {} /\ Reset \cap Verification = {}

VARIABLES
  password,     \* the users row: its password, 0 before it is registered
  status,       \* its status
  session,      \* sessions, by id: the row, None once it is deleted
  challenge,    \* mfa_challenges
  reset,        \* password_reset_tokens
  verification, \* email_verification_tokens
  req,          \* the requests in progress
  stint,        \* history: how often the account was suspended
  decision,     \* history: the status an administrator last gave it
  swept,        \* history: for every password, the revocation that followed it
  expelled,     \* history: suspensions that deleted the sessions
  overlapped    \* history: challenges, reset tokens and (until an administrator's
                \* next word) verifications that two requests used side by side

users == <<password, status>>
tokens == <<challenge, reset, verification>>
history == <<stint, decision, swept, expelled, overlapped>>
vars == <<users, session, tokens, req, history>>

-----------------------------------------------------------------------------
Status == {"absent", "pending_verification", "active", "suspended"}
TokenState == {"unused", "used", "expired"}

\* How a session came about (via), and, as history, the password and the number
\* of suspensions when it was inserted, whether one was in force, how many there
\* were when its login read the account, and the challenge it answers.
SessionRow == [via : {"register", "password", "mfa", "passkey"},
               since : 0..MaxPassword, stint : 0..MaxStint, suspended : BOOLEAN,
               read : 0..MaxStint, challenge : Challenge \cup {None}]

PC == {"idle", "session", "challenge", "mark", "verifier", "void", "change",
       "issue", "reset", "sweep", "delete", "verify", "expel"}

\* token: the challenge, reset or verification token at hand; spare: the current
\* session a password change leaves alone; seen: the status that was read; read:
\* suspensions before that; noted: the password or suspension the request wrote,
\* or the tokens it counted.
Request == [pc : PC, via : {"register", "password", "mfa", "passkey", None},
            token : Challenge \cup Reset \cup Verification \cup {None},
            spare : Session \cup {None}, seen : Status \cup {None},
            read : 0..MaxStint, noted : Nat]
Idle == [pc |-> "idle", via |-> None, token |-> None, spare |-> None,
         seen |-> None, read |-> 0, noted |-> 0]

Unused(t) == {x \in DOMAIN t : t[x] = "unused"}
Put(t, x, state) == [y \in DOMAIN t \cup {x} |-> IF y = x THEN state ELSE t[y]]

Live == {s \in DOMAIN session : session[s] # None}
\* DELETE FROM sessions WHERE <in S>
Delete(S) == session' = [s \in DOMAIN session |-> IF s \in S THEN None ELSE session[s]]

Begin(r, q) == req[r].pc = "idle" /\ req' = [req EXCEPT ![r] = q]
Goto(r, pc) == req' = [req EXCEPT ![r].pc = pc]
Finish(r) == req' = [req EXCEPT ![r] = Idle]

Init ==
  /\ password = 0 /\ status = "absent"
  /\ session = [s \in {} |-> None]
  /\ challenge = [x \in {} |-> None]
  /\ reset = [x \in {} |-> None]
  /\ verification = [x \in {} |-> None]
  /\ req = [r \in Req |-> Idle]
  /\ stint = 0 /\ decision = None
  /\ swept = {} /\ expelled = {} /\ overlapped = {}

-----------------------------------------------------------------------------
(* Ways to a session *)

\* Mutant of Register: the row is inserted without its password.
RegisterBare(r) ==
  /\ status = "absent"
  /\ status' = "pending_verification"
  /\ Begin(r, [Idle EXCEPT !.pc = "session", !.via = "register"])
  /\ UNCHANGED <<password, session, tokens, history>>
\* register: a second INSERT of the address is a Conflict.
Register(r) ==
  /\ status = "absent"
  /\ password' = 1 /\ status' = "pending_verification"
  /\ Begin(r, [Idle EXCEPT !.pc = "session", !.via = "register"])
  /\ UNCHANGED <<session, tokens, history>>

\* Mutant of LoginRead: the status is not looked at.
LoginReadAnyStatus(r) ==
  /\ status # "absent"
  /\ \E pc \in {"session", "challenge"} :
       Begin(r, [Idle EXCEPT !.pc = pc, !.via = "password", !.read = stint])
  /\ UNCHANGED <<users, session, tokens, history>>
\* login reads the row and verifies the right password against it.  Whether TOTP
\* is enrolled decides how it goes on.
LoginRead(r) ==
  /\ status \notin {"absent", "suspended"}
  /\ \E pc \in {"session", "challenge"} :
       Begin(r, [Idle EXCEPT !.pc = pc, !.via = "password", !.read = stint])
  /\ UNCHANGED <<users, session, tokens, history>>

IssueChallenge(r) ==
  /\ req[r].pc = "challenge"
  /\ \E x \in Challenge \ DOMAIN challenge : challenge' = Put(challenge, x, "unused")
  /\ Finish(r)
  /\ UNCHANGED <<users, session, reset, verification, history>>

\* verifyMfaChallenge finds the challenge unused and the second factor right.
AnswerChallenge(r) ==
  /\ \E x \in Unused(challenge) :
       /\ Begin(r, [Idle EXCEPT !.pc = "session", !.via = "mfa", !.token = x])
       /\ overlapped' = IF \E s \in Req : req[s].via = "mfa" /\ req[s].token = x
                        THEN overlapped \cup {x} ELSE overlapped
  /\ UNCHANGED <<users, session, tokens, stint, decision, swept, expelled>>

\* verifyPasskeyAuthentication looks at the passkey, not at the account.
PasskeyLogin(r) ==
  /\ status # "absent"
  /\ Begin(r, [Idle EXCEPT !.pc = "session", !.via = "passkey"])
  /\ UNCHANGED <<users, session, tokens, history>>

CreateSession(r) ==
  LET q == req[r] IN
  /\ q.pc = "session"
  /\ \E s \in Session \ DOMAIN session :
       /\ session' = Put(session, s,
            [via |-> q.via, since |-> password, stint |-> stint,
             suspended |-> status = "suspended", read |-> q.read,
             challenge |-> q.token])
  /\ CASE q.via = "register" -> Goto(r, "verifier")
       [] q.via = "mfa" -> Goto(r, "mark")
       [] OTHER -> Finish(r)
  /\ UNCHANGED <<users, tokens, history>>

\* Mutant of MarkChallenge: the UPDATE is forgotten.
MarkNoChallenge(r) ==
  /\ req[r].pc = "mark"
  /\ Finish(r)
  /\ UNCHANGED <<users, session, tokens, history>>
\* used_at is written, by id, after the session was created.
MarkChallenge(r) ==
  /\ req[r].pc = "mark"
  /\ challenge' = Put(challenge, req[r].token, "used")
  /\ Finish(r)
  /\ UNCHANGED <<users, session, reset, verification, history>>

\* One session ends: logout, revokeOwnSession, an administrator's revokeSession,
\* or its expiry and deleteExpiredSessions.
RevokeSession(s) ==
  /\ s \in Live
  /\ Delete({s})
  /\ UNCHANGED <<users, tokens, req, history>>

-----------------------------------------------------------------------------
(* Email verification *)

\* generateVerificationToken, after register and after a resend.
IssueVerification(r) ==
  /\ req[r].pc = "verifier"
  /\ \E x \in Verification \ DOMAIN verification :
       verification' = Put(verification, x, "unused")
  /\ Finish(r)
  /\ UNCHANGED <<users, session, challenge, reset, history>>

\* resendVerificationForEmail, for a pending account only.
ResendRead(r) ==
  /\ status = "pending_verification"
  /\ Begin(r, [Idle EXCEPT !.pc = "void"])
  /\ UNCHANGED <<users, session, tokens, history>>

ResendVoid(r) ==
  /\ req[r].pc = "void"
  /\ verification' = [x \in DOMAIN verification |->
       IF verification[x] = "unused" THEN "used" ELSE verification[x]]
  /\ Goto(r, "verifier")
  /\ UNCHANGED <<users, session, challenge, reset, history>>

\* verifyEmail marks its token, which locks the row, and reads the user.  It is
\* as if the mark came with the commit: another request sees it only then.
VerifyRead(r) ==
  /\ \E x \in Unused(verification) :
       Begin(r, [Idle EXCEPT !.pc = "verify", !.token = x, !.seen = status])
  /\ UNCHANGED <<users, session, tokens, history>>

\* The account that was read pending is made active, whatever it is now.
VerifyCommit(r) ==
  LET x == req[r].token IN
  /\ req[r].pc = "verify"
  /\ Finish(r)
  /\ \/ /\ verification[x] = "unused"
        /\ verification' = Put(verification, x, "used")
        /\ IF req[r].seen = "pending_verification"
           THEN /\ status' = "active"
                /\ overlapped' = IF status = req[r].seen THEN overlapped
                                 ELSE overlapped \cup {x}
           ELSE UNCHANGED <<status, overlapped>>
     \/ verification[x] # "unused" /\ UNCHANGED <<verification, status, overlapped>>
  /\ UNCHANGED <<password, session, challenge, reset, stint, decision, swept,
                 expelled>>

-----------------------------------------------------------------------------
(* Passwords *)

\* changePassword: the caller's session is valid, the password right.
ChangeRead(r) ==
  /\ \E s \in Live : Begin(r, [Idle EXCEPT !.pc = "change", !.spare = s])
  /\ UNCHANGED <<users, session, tokens, history>>

\* The UPDATE names the user and nothing that was verified.
ChangeWrite(r) ==
  /\ req[r].pc = "change"
  /\ password < MaxPassword
  /\ password' = password + 1
  /\ req' = [req EXCEPT ![r] = [@ EXCEPT !.pc = "sweep", !.noted = password + 1]]
  /\ UNCHANGED <<status, session, tokens, history>>

\* Unused tokens of the last hour; a token expires as it leaves that hour.
WithinLimit == Cardinality(Unused(reset)) < ResetLimit

\* requestPasswordReset counts, and inserts in a later statement.
RequestReset(r) ==
  /\ status # "absent"
  /\ WithinLimit
  /\ Begin(r, [Idle EXCEPT !.pc = "issue", !.noted = Cardinality(Unused(reset))])
  /\ UNCHANGED <<users, session, tokens, history>>

IssueReset(r) ==
  /\ req[r].pc = "issue"
  /\ \E x \in Reset \ DOMAIN reset :
       /\ reset' = Put(reset, x, "unused")
       /\ overlapped' = IF Cardinality(Unused(reset)) > req[r].noted
                        THEN overlapped \cup {x} ELSE overlapped
  /\ Finish(r)
  /\ UNCHANGED <<users, session, challenge, verification, stint, decision,
                 swept, expelled>>

\* resetPassword finds the token in order, and hashes the new password.
ResetRead(r) ==
  /\ \E x \in Unused(reset) : Begin(r, [Idle EXCEPT !.pc = "reset", !.token = x])
  /\ UNCHANGED <<users, session, tokens, history>>

\* Its transaction writes the password and used_at, by id, and looks at neither.
ResetCommit(r) ==
  LET x == req[r].token IN
  /\ req[r].pc = "reset"
  /\ password < MaxPassword
  /\ password' = password + 1
  /\ reset' = Put(reset, x, "used")
  /\ overlapped' = IF reset[x] = "used" THEN overlapped \cup {x} ELSE overlapped
  /\ req' = [req EXCEPT ![r] = [@ EXCEPT !.pc = "sweep", !.noted = password + 1]]
  /\ UNCHANGED <<status, session, challenge, verification, stint, decision,
                 swept, expelled>>

\* revokeAllUserSessions: the sessions to announce are selected, and with none
\* there is nothing to delete.
Revocable(r) == Live \ {req[r].spare}
Revoked(r) == [password |-> req[r].noted, token |-> req[r].token, spare |-> req[r].spare]

SweepSelect(r) ==
  /\ req[r].pc = "sweep"
  /\ IF Revocable(r) = {}
     THEN swept' = swept \cup {Revoked(r)} /\ Finish(r)
     ELSE Goto(r, "delete") /\ UNCHANGED swept
  /\ UNCHANGED <<users, session, tokens, stint, decision, expelled, overlapped>>

\* Mutant of SweepDelete: only one of the selected sessions is deleted.
SweepDeleteOne(r) ==
  /\ req[r].pc = "delete"
  /\ \E s \in Revocable(r) : Delete({s})
  /\ swept' = swept \cup {Revoked(r)}
  /\ Finish(r)
  /\ UNCHANGED <<users, tokens, stint, decision, expelled, overlapped>>
\* The DELETE repeats the condition of the SELECT.
SweepDelete(r) ==
  /\ req[r].pc = "delete"
  /\ Delete(Revocable(r))
  /\ swept' = swept \cup {Revoked(r)}
  /\ Finish(r)
  /\ UNCHANGED <<users, tokens, stint, decision, expelled, overlapped>>

-----------------------------------------------------------------------------
(* The administrator *)

\* updateUserStatus to "suspended": the row, then listeners, then the sessions.
Suspend(r) ==
  /\ status # "absent"
  /\ stint < MaxStint
  /\ status' = "suspended" /\ decision' = "suspended" /\ stint' = stint + 1
  /\ Begin(r, [Idle EXCEPT !.pc = "expel", !.noted = stint + 1])
  /\ overlapped' = overlapped \ Verification
  /\ UNCHANGED <<password, session, tokens, swept, expelled>>

\* Mutant of Expel: one session of the user is deleted.
ExpelOne(r) ==
  /\ req[r].pc = "expel"
  /\ \/ Live = {} /\ UNCHANGED session
     \/ \E s \in Live : Delete({s})
  /\ expelled' = expelled \cup {req[r].noted}
  /\ Finish(r)
  /\ UNCHANGED <<users, tokens, stint, decision, swept, overlapped>>
Expel(r) ==
  /\ req[r].pc = "expel"
  /\ Delete(Live)
  /\ expelled' = expelled \cup {req[r].noted}
  /\ Finish(r)
  /\ UNCHANGED <<users, tokens, stint, decision, swept, overlapped>>

\* updateUserStatus to "active".
Activate ==
  /\ status # "absent"
  /\ status' = "active" /\ decision' = "active"
  /\ overlapped' = overlapped \ Verification
  /\ UNCHANGED <<password, session, tokens, req, stint, swept, expelled>>

\* bulkRevokeSessions
BulkRevoke ==
  /\ Live # {}
  /\ Delete(Live)
  /\ UNCHANGED <<users, tokens, req, history>>

-----------------------------------------------------------------------------
\* A challenge, a reset token or a verification token runs out.
ExpireChallenge(x) ==
  /\ x \in Unused(challenge)
  /\ challenge' = Put(challenge, x, "expired")
  /\ UNCHANGED <<users, session, reset, verification, req, history>>
ExpireReset(x) ==
  /\ x \in Unused(reset)
  /\ reset' = Put(reset, x, "expired")
  /\ UNCHANGED <<users, session, challenge, verification, req, history>>
ExpireVerification(x) ==
  /\ x \in Unused(verification)
  /\ verification' = Put(verification, x, "expired")
  /\ UNCHANGED <<users, session, challenge, reset, req, history>>

\* The process dies, the database fails or a listener throws: the request is over,
\* and what it still had to do is not done.
Abort(r) ==
  LET q == req[r] IN
  /\ q.pc # "idle"
  /\ Finish(r)
  /\ overlapped' = IF q.pc = "mark" THEN overlapped \cup {q.token} ELSE overlapped
  /\ UNCHANGED <<users, session, tokens, stint, decision, swept, expelled>>

Login(r) ==
  \/ Register(r) \/ LoginRead(r) \/ IssueChallenge(r) \/ AnswerChallenge(r)
  \/ PasskeyLogin(r) \/ CreateSession(r) \/ MarkChallenge(r)
Email(r) ==
  \/ IssueVerification(r) \/ ResendRead(r) \/ ResendVoid(r)
  \/ VerifyRead(r) \/ VerifyCommit(r)
Passwords(r) ==
  \/ ChangeRead(r) \/ ChangeWrite(r) \/ RequestReset(r) \/ IssueReset(r)
  \/ ResetRead(r) \/ ResetCommit(r) \/ SweepSelect(r) \/ SweepDelete(r)

Next ==
  \/ \E r \in Req :
       Login(r) \/ Email(r) \/ Passwords(r) \/ Suspend(r) \/ Expel(r) \/ Abort(r)
  \/ Activate \/ BulkRevoke
  \/ \E s \in Session : RevokeSession(s)
  \/ \E x \in Challenge : ExpireChallenge(x)
  \/ \E x \in Reset : ExpireReset(x)
  \/ \E x \in Verification : ExpireVerification(x)

Spec == Init /\ [][Next]_vars

-----------------------------------------------------------------------------
TypeOK ==
  /\ password \in 0..MaxPassword
  /\ status \in Status /\ (status = "absent" <=> password = 0)
  /\ DOMAIN session \subseteq Session 
  /\ session \in [DOMAIN session -> SessionRow \cup {None}]
  /\ DOMAIN challenge \subseteq Challenge /\ challenge \in [DOMAIN challenge -> TokenState]
  /\ DOMAIN reset \subseteq Reset /\ reset \in [DOMAIN reset -> TokenState]
  /\ DOMAIN verification \subseteq Verification
  /\ verification \in [DOMAIN verification -> TokenState]
  /\ req \in [Req -> Request]
  /\ stint \in 0..MaxStint
  /\ decision \in {None, "active", "suspended"}
  /\ swept \subseteq [password : 1..MaxPassword, token : Reset \cup {None},
                      spare : Session \cup {None}]
  /\ expelled \subseteq 1..MaxStint
  /\ overlapped \subseteq Challenge \cup Reset \cup Verification

\* Once the revocation that follows a new password is through, every session that
\* was there before that password is gone, but for the one a change left alone.
SweepIsTotal ==
  \A w \in swept : \A s \in Live :
    session[s].since < w.password => s = w.spare

\* Once a suspension is through, no session from before it is left.
ExpelIsTotal ==
  \A n \in expelled : \A s \in Live : session[s].stint >= n

\* A password alone gives no session to a suspended account, unless the
\* suspension came after its login had read the account.
NoPasswordLoginWhileSuspended ==
  \A s \in Live :
    session[s].via = "password" /\ session[s].suspended
      => session[s].read < session[s].stint

\* An administrator's word on the status stands, unless a verification that read
\* the account before he spoke wrote over it.
DecisionStands ==
  decision # None =>
    status = decision \/ overlapped \cap Verification # {}

\* A reset token sets one password, unless two requests had read it unused.
ResetOnce ==
  \A v, w \in swept :
    v.token = w.token /\ v.token # None => v = w \/ v.token \in overlapped

\* There are never more unused reset tokens than the limit, except for those
\* inserted after another request had inserted since they counted.
ResetsLimited == Cardinality(Unused(reset) \ overlapped) <= ResetLimit

\* A challenge is answered by one session, unless two answers overlapped or one
\* died between its session and its mark.
ChallengeOnce ==
  \A s, u \in Live :
    session[s].challenge = session[u].challenge /\ session[s].challenge # None
      => s = u \/ session[s].challenge \in overlapped

\* What updateUserStatus (admin.service.ts:84) owes: a suspended account gets no
\* session by its password and stays suspended, but for the two overlaps above.
SuspensionHolds == NoPasswordLoginWhileSuspended /\ DecisionStands

\* What is good for one use is used once: a reset token, a place among the tokens
\* of an hour, a challenge (password-reset.service.ts:41, :76, mfa.service.ts:324).
OneTimeOnly == ResetOnce /\ ResetsLimited /\ ChallengeOnce

-----------------------------------------------------------------------------
(* What carries these: AccountInv is inductive. *)

\* A request at a statement has what the statement needs, a token in hand is in its
\* table, and only the steps that use a token have one in hand.
Refers(r) ==
  LET q == req[r] IN
  /\ q.pc = "session" => /\ q.via \in {"register", "password", "mfa", "passkey"}
                         /\ q.token \in IF q.via = "mfa" THEN Challenge ELSE {None}
  /\ q.pc = "mark" => q.token \in Challenge
  /\ q.pc = "verify" => q.token \in Verification
  /\ q.pc = "reset" => q.token \in Reset
  /\ q.pc = "change" => q.token = None
  /\ q.pc \in {"sweep", "delete"} => q.token \in Reset \cup {None}
  /\ q.token \in Challenge => q.token \in DOMAIN challenge /\ q.pc \in {"session", "mark"}
                              /\ q.via = "mfa"
  /\ q.token \in Reset => q.token \in DOMAIN reset /\ q.pc \in {"reset", "sweep", "delete"}
  /\ q.token \in Verification => q.token \in DOMAIN verification /\ q.pc = "verify"

\* What a request noted is a password or a suspension there has been, or a count
\* of tokens below the limit.
Noted(r) ==
  /\ req[r].pc \in {"sweep", "delete"} => req[r].noted \in 1..password
  /\ req[r].pc = "expel" => req[r].noted \in 1..stint
  /\ req[r].pc = "issue" => req[r].noted < ResetLimit

\* Before the account is registered there is nothing of it.
NothingBefore ==
  status = "absent" =>
    /\ \A r \in Req : req[r].pc = "idle"
    /\ DOMAIN session = {} /\ DOMAIN challenge = {} /\ DOMAIN reset = {}
    /\ DOMAIN verification = {} /\ decision = None

RowsRefer ==
  /\ \A r \in Req : Refers(r) /\ Noted(r)
  /\ NothingBefore
  /\ \A s \in Live : session[s].challenge \in DOMAIN challenge \cup {None}
  /\ \A w \in swept : w.token \in DOMAIN reset \cup {None} /\ w.password <= password
  /\ \A n \in expelled : n <= stint
  /\ IsFiniteSet(DOMAIN reset)

\* A login on its way by password read the account before it was suspended.
LoginsAsked ==
  \A r \in Req : req[r].pc = "session" /\ req[r].via = "password" =>
    req[r].read <= stint /\ (status = "suspended" => req[r].read < stint)

\* A reset token that is not used has set no password; one that is used has set
\* one, whose sessions are about to be revoked or have been.
ResetOnceEach(x) ==
  LET sweeping == {r \in Req : req[r].pc \in {"sweep", "delete"} /\ req[r].token = x}
      through == {w \in swept : w.token = x}
  IN  /\ reset[x] # "used" => sweeping = {} /\ through = {}
      /\ \A r \in sweeping : sweeping = {r} /\ through = {}
      /\ \A w \in through : through = {w}

\* A challenge is in the hands of one answer, and has a session only from its
\* "mark" on.
ChallengeOnceEach(x) ==
  LET answering == {r \in Req : req[r].token = x}
      sessions == {s \in Live : session[s].challenge = x}
  IN  /\ \A r \in answering : answering = {r} /\ (req[r].pc # "mark" => sessions = {})
      /\ \A s \in sessions : sessions = {s} /\ (challenge[x] = "unused" => answering # {})

OnceEach ==
  /\ \A x \in DOMAIN reset \ overlapped : ResetOnceEach(x)
  /\ \A x \in DOMAIN challenge \ overlapped : ChallengeOnceEach(x)

AccountInv ==
  /\ TypeOK /\ RowsRefer /\ SweepIsTotal /\ ExpelIsTotal
  /\ LoginsAsked /\ SuspensionHolds /\ OnceEach /\ ResetsLimited
=============================================================================
