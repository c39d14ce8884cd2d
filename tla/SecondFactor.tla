---------------------------- MODULE SecondFactor ----------------------------
(***************************************************************************)
(* TOTP enrolment and recovery codes of one user: mfa/mfa.service.ts.      *)
(*                                                                         *)
(* Nothing here is a transaction: enrolling is five kinds of statements,   *)
(* one INSERT for every recovery code, and any of them may be the last.    *)
(* The right password, which disabling and regenerating ask for, is a free *)
(* choice, and so is the right one-time password.  Challenges are those of *)
(* Accounts; here it matters only whether one is open, and what a recovery *)
(* code makes of it.                                                       *)
(***************************************************************************)
EXTENDS Integers, FiniteSets

CONSTANTS
  Secret,     \* TOTP secrets the server may draw, each for a row of its own
  Code,       \* recovery codes it may draw
  Req,        \* requests in progress at the same time
  BatchSize,  \* recovery codes of one generation, 8 in the code
  None        \* no value

ASSUME SizeAssumption == BatchSize \in Nat \ {0}
ASSUME NoneAssumption == None \notin Secret /\ None \notin Code
\* No recovery code is a secret.
ASSUME SortsAssumption == Secret \cap Code = {}
ASSUME ReqAssumption == IsFiniteSet(Req)

VARIABLES
  totp,       \* the user's totp_secrets row (user_id is unique), or None
  drawn,      \* secrets drawn so far
  code,       \* recovery_codes: what became of every code inserted
  open,       \* whether a challenge of the user can still be answered
  shown,      \* secrets and codes that reached the user
  req,        \* the requests in progress
  proven,     \* history: secrets for which a one-time password was right
  logins,     \* history: sessions every code gave
  overlapped, \* history: codes that two answers had read unused
  mixed       \* history: the codes are what two requests or a dead one left

store == <<totp, drawn, code>>
history == <<proven, logins, overlapped, mixed>>
vars == <<store, open, shown, req, history>>

-----------------------------------------------------------------------------
Totp == [secret : Secret, verified : BOOLEAN]

PC == {"idle", "clear", "insert", "wipe", "codes", "deliver", "confirm",
       "dropcodes", "spend", "session"}
\* secret: the one to show or to confirm; code: the recovery code presented;
\* codes: those inserted and not shown yet.
Request == [pc : PC, secret : Secret \cup {None}, code : Code \cup {None},
            codes : {S \in SUBSET Code : Cardinality(S) <= BatchSize}]
Idle == [pc |-> "idle", secret |-> None, code |-> None, codes |-> {}]

Drawn == DOMAIN code
Kept == {c \in Drawn : code[c] # "deleted"}
Unused == {c \in Drawn : code[c] = "unused"}
\* checkMfaEnrolled
Enrolled == totp # None /\ totp.verified

Begin(r, q) == req[r].pc = "idle" /\ req' = [req EXCEPT ![r] = q]
Goto(r, pc) == req' = [req EXCEPT ![r].pc = pc]
Finish(r) == req' = [req EXCEPT ![r] = Idle]

\* DELETE FROM recovery_codes WHERE user_id = ...
DeleteCodes == code' = [c \in Drawn |-> "deleted"]

Init ==
  /\ totp = None /\ drawn = {}
  /\ code = [c \in {} |-> None]
  /\ open = FALSE
  /\ shown = {}
  /\ req = [r \in Req |-> Idle]
  /\ proven = {} /\ overlapped = {} /\ mixed = FALSE
  /\ logins = [c \in Code |-> 0]

-----------------------------------------------------------------------------
(* enrollTotp *)

\* A verified row is a Conflict.
EnrolRead(r) ==
  /\ ~Enrolled
  /\ Begin(r, [Idle EXCEPT !.pc = "clear"])
  /\ UNCHANGED <<store, open, shown, history>>

\* Mutant of EnrolClear: verified = false is lost from the WHERE clause.
EnrolClearAll(r) ==
  /\ req[r].pc = "clear"
  /\ totp' = None
  /\ Goto(r, "insert")
  /\ UNCHANGED <<drawn, code, open, shown, history>>
\* An enrolment that was begun and not confirmed makes room.
EnrolClear(r) ==
  /\ req[r].pc = "clear"
  /\ totp' = IF Enrolled THEN totp ELSE None
  /\ Goto(r, "insert")
  /\ UNCHANGED <<drawn, code, open, shown, history>>

\* The INSERT breaks the unique key if another enrolment was faster or has been
\* confirmed since: the request fails and nothing else happens.
EnrolInsert(r) ==
  /\ req[r].pc = "insert"
  /\ \/ /\ totp = None
        /\ \E s \in Secret \ drawn :
             /\ totp' = [secret |-> s, verified |-> FALSE]
             /\ drawn' = drawn \cup {s}
             /\ req' = [req EXCEPT ![r] = [@ EXCEPT !.pc = "wipe", !.secret = s]]
     \/ totp # None /\ Finish(r) /\ UNCHANGED <<totp, drawn>>
  /\ UNCHANGED <<code, open, shown, history>>

-----------------------------------------------------------------------------
(* Recovery codes, for enrollTotp and for regenerateRecoveryCodes *)

\* regenerateRecoveryCodes, once the password is right.
Regenerate(r) ==
  /\ Enrolled
  /\ Begin(r, [Idle EXCEPT !.pc = "wipe"])
  /\ UNCHANGED <<store, open, shown, history>>

\* The codes there are go, and whoever else is at work on them mixes with these.
Wipe(r) ==
  /\ req[r].pc = "wipe"
  /\ DeleteCodes
  /\ mixed' = \E s \in Req \ {r} : req[s].pc \in {"codes", "dropcodes"}
  /\ Goto(r, "codes")
  /\ UNCHANGED <<totp, drawn, open, shown, proven, logins, overlapped>>

\* Mutant of InsertCode: the loop runs once too often.
InsertCodeOnceMore(r) ==
  LET codes == req[r].codes IN
  /\ req[r].pc = "codes"
  /\ \E c \in Code \ Drawn :
       /\ code' = [d \in Drawn \cup {c} |-> IF d = c THEN "unused" ELSE code[d]]
       /\ req' = [req EXCEPT ![r] = [@ EXCEPT !.codes = codes \cup {c},
            !.pc = IF Cardinality(codes) = BatchSize THEN "deliver" ELSE "codes"]]
  /\ UNCHANGED <<totp, drawn, open, shown, history>>
\* One INSERT of the loop.
InsertCode(r) ==
  LET codes == req[r].codes IN
  /\ req[r].pc = "codes"
  /\ \E c \in Code \ Drawn :
       /\ code' = [d \in Drawn \cup {c} |-> IF d = c THEN "unused" ELSE code[d]]
       /\ req' = [req EXCEPT ![r] = [@ EXCEPT !.codes = codes \cup {c},
            !.pc = IF Cardinality(codes) + 1 = BatchSize THEN "deliver" ELSE "codes"]]
  /\ UNCHANGED <<totp, drawn, open, shown, history>>

\* The answer: the codes, and the secret of an enrolment.
Deliver(r) ==
  /\ req[r].pc = "deliver"
  /\ shown' = shown \cup req[r].codes \cup ({req[r].secret} \ {None})
  /\ Finish(r)
  /\ UNCHANGED <<store, open, history>>

-----------------------------------------------------------------------------
(* verifyTotpEnrollment *)

\* The pending row is read and a one-time password of its secret is right, which
\* only a user who was shown that secret can send.
ConfirmRead(r) ==
  /\ totp # None /\ ~totp.verified
  /\ totp.secret \in shown
  /\ Begin(r, [Idle EXCEPT !.pc = "confirm", !.secret = totp.secret])
  /\ proven' = proven \cup {totp.secret}
  /\ UNCHANGED <<store, open, shown, logins, overlapped, mixed>>

\* Mutant of Confirm: the UPDATE names the user, not the row that was read.
ConfirmByUser(r) ==
  /\ req[r].pc = "confirm"
  /\ totp' = IF totp = None THEN None ELSE [totp EXCEPT !.verified = TRUE]
  /\ Finish(r)
  /\ UNCHANGED <<drawn, code, open, shown, history>>
\* The UPDATE names the row, and finds none if it was replaced since.
Confirm(r) ==
  /\ req[r].pc = "confirm"
  /\ totp' = IF totp # None /\ totp.secret = req[r].secret
             THEN [totp EXCEPT !.verified = TRUE] ELSE totp
  /\ Finish(r)
  /\ UNCHANGED <<drawn, code, open, shown, history>>

-----------------------------------------------------------------------------
\* disableTotp, once the password is right: the secret, then the codes.
Disable(r) ==
  /\ Begin(r, [Idle EXCEPT !.pc = "dropcodes"])
  /\ totp' = None
  /\ UNCHANGED <<drawn, code, open, shown, history>>

DropCodes(r) ==
  /\ req[r].pc = "dropcodes"
  /\ DeleteCodes
  /\ Finish(r)
  /\ UNCHANGED <<totp, drawn, open, shown, history>>

-----------------------------------------------------------------------------
(* Challenges, and a recovery code that answers one *)

\* A login asks for the second factor of an enrolled user.
Challenge ==
  /\ Enrolled
  /\ open' = TRUE
  /\ UNCHANGED <<store, shown, req, history>>

\* The challenges are used or run out.
CloseChallenges ==
  /\ open
  /\ open' = FALSE
  /\ UNCHANGED <<store, shown, req, history>>

\* verifyMfaChallenge finds the challenge and, among the unused codes, the one
\* presented.
AnswerWithCode(r) ==
  /\ open
  /\ \E c \in Unused \cap shown :
       /\ Begin(r, [Idle EXCEPT !.pc = "spend", !.code = c])
       /\ overlapped' = IF \E s \in Req : req[s].pc = "spend" /\ req[s].code = c
                        THEN overlapped \cup {c} ELSE overlapped
  /\ UNCHANGED <<store, open, shown, proven, logins, mixed>>

\* Mutant of SpendCode: the UPDATE is forgotten.
SpendNothing(r) ==
  /\ req[r].pc = "spend"
  /\ Goto(r, "session")
  /\ UNCHANGED <<store, open, shown, history>>
\* used_at is written by id, whether or not it is set already.
SpendCode(r) ==
  LET c == req[r].code IN
  /\ req[r].pc = "spend"
  /\ code' = [code EXCEPT ![c] = IF @ = "deleted" THEN @ ELSE "used"]
  /\ Goto(r, "session")
  /\ UNCHANGED <<totp, drawn, open, shown, history>>

\* createSession, after which the challenge is marked used (Accounts).
GiveSession(r) ==
  /\ req[r].pc = "session"
  /\ logins' = [logins EXCEPT ![req[r].code] = @ + 1]
  /\ Finish(r)
  /\ UNCHANGED <<store, open, shown, proven, overlapped, mixed>>

\* The process dies, the database fails or a listener throws.
Abort(r) ==
  /\ req[r].pc # "idle"
  /\ mixed' = (mixed \/ req[r].pc = "codes")
  /\ Finish(r)
  /\ UNCHANGED <<store, open, shown, proven, logins, overlapped>>

Enrol(r) == EnrolRead(r) \/ EnrolClear(r) \/ EnrolInsert(r) \/ ConfirmRead(r) \/ Confirm(r)
Codes(r) == Regenerate(r) \/ Wipe(r) \/ InsertCode(r) \/ Deliver(r)
Answer(r) == AnswerWithCode(r) \/ SpendCode(r) \/ GiveSession(r)

Next ==
  \/ \E r \in Req : Enrol(r) \/ Codes(r) \/ Answer(r) \/ Disable(r) \/ DropCodes(r) \/ Abort(r)
  \/ Challenge \/ CloseChallenges

Spec == Init /\ [][Next]_vars

-----------------------------------------------------------------------------
TypeOK ==
  /\ totp \in Totp \cup {None}
  /\ drawn \subseteq Secret /\ (totp # None => totp.secret \in drawn)
  /\ Drawn \subseteq Code /\ code \in [Drawn -> {"unused", "used", "deleted"}]
  /\ open \in BOOLEAN
  /\ shown \subseteq drawn \cup Drawn
  /\ req \in [Req -> Request]
  /\ proven \subseteq shown
  /\ logins \in [Code -> 0..Cardinality(Req)]
  /\ overlapped \subseteq Drawn
  /\ mixed \in BOOLEAN

\* Whatever enrolments meet, a login asks for no secret but one whose owner has
\* shown that he has it: nobody is locked out by an enrolment he never saw.
ProvenSecret == Enrolled => totp.secret \in proven

\* Only disableTotp ends a confirmed enrolment: one that was begun before the
\* confirmation and is still under way does not.
EnrolmentStays ==
  [][Enrolled /\ totp' # totp => \E r \in Req : Disable(r)]_vars

\* A user who is enrolled has his whole set of recovery codes, spent ones
\* included, unless two requests worked on the codes at once or one died amid.
EnrolledHasCodes ==
  Enrolled /\ ~mixed /\ (\A r \in Req : req[r].pc # "codes") =>
    Cardinality(Kept) = BatchSize

\* A recovery code gives one session, unless two answers read it unused.
CodeOnceUnlessOverlapped == \A c \in Code : logins[c] > 1 => c \in overlapped

\* What the recovery codes are worth: the set is whole, and each opens one session.
CodesHold == EnrolledHasCodes /\ CodeOnceUnlessOverlapped

-----------------------------------------------------------------------------
(* What carries TypeOK and CodesHold: FactorInv is inductive. *)

\* What a request has in hand was drawn, and its loop has codes to go.
InHand(r) ==
  LET q == req[r] IN
  /\ q.secret \in drawn \cup {None}
  /\ q.codes \subseteq Drawn /\ IsFiniteSet(q.codes)
  /\ q.pc \notin {"codes", "deliver"} => q.codes = {}
  /\ q.pc = "codes" => Cardinality(q.codes) < BatchSize
  /\ q.pc \in {"spend", "session"} => q.code \in Drawn

\* The enrolment there is has come as far as deleting the codes before its own.
Begun ==
  /\ totp # None
  /\ \/ totp.secret \in shown
     \/ \E r \in Req : req[r].pc \in {"codes", "deliver"} /\ req[r].secret = totp.secret

\* From then on the codes are the whole set, or that of the one loop at work, and
\* none are about to be deleted.
CodesWhole ==
  Begun /\ ~mixed =>
    /\ \A r \in Req : req[r].pc # "dropcodes"
    /\ \A r, s \in Req : req[r].pc = "codes" =>
         /\ Kept = req[r].codes
         /\ req[s].pc = "codes" => r = s
    /\ (\A r \in Req : req[r].pc # "codes") => Cardinality(Kept) = BatchSize

\* Every answer with a code is on its way to a session or has given it, and found
\* the code unused; only answers side by side make two of them.
HoldersOf(c) == {r \in Req : req[r].pc \in {"spend", "session"} /\ req[r].code = c}
CodeOnceEach(c) ==
  /\ logins[c] + Cardinality(HoldersOf(c)) <= Cardinality(Req)
  /\ c \notin Drawn => HoldersOf(c) = {} /\ logins[c] = 0
  /\ c \in Unused => logins[c] = 0 /\ \A r \in HoldersOf(c) : req[r].pc = "spend"
  /\ c \notin overlapped =>
       /\ logins[c] <= 1
       /\ \A r \in HoldersOf(c) : HoldersOf(c) = {r} /\ logins[c] = 0

FactorInv ==
  /\ TypeOK
  /\ \A r \in Req : InHand(r)
  /\ CodesWhole
  /\ \A c \in Code : CodeOnceEach(c)
=============================================================================
