--------------------------- MODULE Accounts_proofs ---------------------------
(***************************************************************************)
(* Theorems about Accounts, for any numbers of sessions, tokens, requests, *)
(* passwords and suspensions.                                              *)
(***************************************************************************)
EXTENDS Accounts, FiniteSetTheorems, TLAPS

Typed == TypeOK /\ RowsRefer

-----------------------------------------------------------------------------
(* What the operators do to a request, to a table of tokens, to the sessions. *)

LEMMA IdleRequest == /\ Idle \in Request /\ Idle.pc = "idle" /\ Idle.token = None
                     /\ Idle.spare = None /\ Idle.read = 0 /\ Idle.noted = 0
BY BoundAssumption DEF Idle, Request, PC

LEMMA RequestTypes ==
  ASSUME TypeOK, NEW r \in Req
  PROVE  /\ req[r] \in Request
         /\ Finish(r) => req' \in [Req -> Request] /\ req'[r] = Idle
         /\ \A q \in Request : Begin(r, q) => req' \in [Req -> Request] /\ req'[r] = q
         /\ \A pc \in PC : Goto(r, pc) => /\ req' \in [Req -> Request]
                                          /\ req'[r] = [req[r] EXCEPT !.pc = pc]
         /\ \A q : Begin(r, q) \/ Finish(r) => \A s \in Req \ {r} : req'[s] = req[s]
         /\ \A pc : Goto(r, pc) => \A s \in Req \ {r} : req'[s] = req[s]
<1>1. Idle \in Request
  BY IdleRequest
<1>2. req[r] \in Request
  BY DEF TypeOK
<1>3. Finish(r) => req' \in [Req -> Request] /\ req'[r] = Idle
  BY <1>1 DEF TypeOK, Finish
<1>4. \A q \in Request : Begin(r, q) => req' \in [Req -> Request] /\ req'[r] = q
  BY DEF TypeOK, Begin
<1>5. ASSUME NEW pc \in PC, Goto(r, pc)
      PROVE  req' \in [Req -> Request] /\ req'[r] = [req[r] EXCEPT !.pc = pc]
  BY <1>5 DEF TypeOK, Goto, Request
<1>6. QED
  BY <1>2, <1>3, <1>4, <1>5 DEF TypeOK, Finish, Begin, Goto

LEMMA Moved ==
  ASSUME TypeOK, NEW r \in Req, NEW pc \in PC, Goto(r, pc)
  PROVE  /\ req'[r].pc = pc /\ req'[r].via = req[r].via /\ req'[r].token = req[r].token
         /\ req'[r].spare = req[r].spare /\ req'[r].seen = req[r].seen
         /\ req'[r].read = req[r].read /\ req'[r].noted = req[r].noted
<1>1. req'[r] = [req[r] EXCEPT !.pc = pc] /\ req[r] \in Request
  BY RequestTypes
<1>2. QED
  BY <1>1 DEF Request

LEMMA Ended ==
  ASSUME TypeOK, NEW r \in Req, Finish(r)
  PROVE  req'[r].pc = "idle" /\ req'[r].token = None
<1>1. req'[r] = Idle
  BY RequestTypes
<1>2. QED
  BY <1>1 DEF Idle

LEMMA Tables ==
  ASSUME TypeOK, NEW state \in {"unused", "used", "expired"}
  PROVE  /\ \A x \in Challenge : challenge' = Put(challenge, x, state) =>
              /\ DOMAIN challenge' = DOMAIN challenge \cup {x}
              /\ DOMAIN challenge' \subseteq Challenge
              /\ challenge' \in [DOMAIN challenge' -> TokenState] /\ challenge'[x] = state
              /\ \A y \in DOMAIN challenge : y # x => challenge'[y] = challenge[y]
         /\ \A x \in Reset : reset' = Put(reset, x, state) =>
              /\ DOMAIN reset' = DOMAIN reset \cup {x}
              /\ DOMAIN reset' \subseteq Reset
              /\ reset' \in [DOMAIN reset' -> TokenState] /\ reset'[x] = state
              /\ \A y \in DOMAIN reset : y # x => reset'[y] = reset[y]
         /\ \A x \in Verification : verification' = Put(verification, x, state) =>
              /\ DOMAIN verification' = DOMAIN verification \cup {x}
              /\ DOMAIN verification' \subseteq Verification
              /\ verification' \in [DOMAIN verification' -> TokenState]
              /\ verification'[x] = state
              /\ \A y \in DOMAIN verification : y # x => verification'[y] = verification[y]
<1>1. state \in TokenState
  BY DEF TokenState
<1>2. /\ DOMAIN challenge \subseteq Challenge /\ challenge \in [DOMAIN challenge -> TokenState]
      /\ DOMAIN reset \subseteq Reset /\ reset \in [DOMAIN reset -> TokenState]
      /\ DOMAIN verification \subseteq Verification
      /\ verification \in [DOMAIN verification -> TokenState]
  BY DEF TypeOK
<1>3. ASSUME NEW x \in Challenge, challenge' = Put(challenge, x, state)
      PROVE  /\ DOMAIN challenge' = DOMAIN challenge \cup {x}
             /\ DOMAIN challenge' \subseteq Challenge
             /\ challenge' \in [DOMAIN challenge' -> TokenState] /\ challenge'[x] = state
             /\ \A y \in DOMAIN challenge : y # x => challenge'[y] = challenge[y]
  BY <1>1, <1>2, <1>3 DEF Put
<1>4. ASSUME NEW x \in Reset, reset' = Put(reset, x, state)
      PROVE  /\ DOMAIN reset' = DOMAIN reset \cup {x}
             /\ DOMAIN reset' \subseteq Reset
             /\ reset' \in [DOMAIN reset' -> TokenState] /\ reset'[x] = state
             /\ \A y \in DOMAIN reset : y # x => reset'[y] = reset[y]
  BY <1>1, <1>2, <1>4 DEF Put
<1>5. ASSUME NEW x \in Verification, verification' = Put(verification, x, state)
      PROVE  /\ DOMAIN verification' = DOMAIN verification \cup {x}
             /\ DOMAIN verification' \subseteq Verification
             /\ verification' \in [DOMAIN verification' -> TokenState]
             /\ verification'[x] = state
             /\ \A y \in DOMAIN verification : y # x => verification'[y] = verification[y]
  BY <1>1, <1>2, <1>5 DEF Put
<1>6. QED
  BY <1>3, <1>4, <1>5

LEMMA Deleted ==
  ASSUME TypeOK, NEW S, Delete(S)
  PROVE  /\ DOMAIN session' = DOMAIN session
         /\ session' \in [DOMAIN session' -> SessionRow \cup {None}]
         /\ Live' \subseteq Live \ S
         /\ \A s \in Live' : session'[s] = session[s]
BY DEF TypeOK, Delete, Live

(* A session is inserted under an id that was never drawn before.          *)
LEMMA Inserted ==
  ASSUME TypeOK, NEW s \in Session \ DOMAIN session, NEW row \in SessionRow,
         session' = Put(session, s, row)
  PROVE  /\ DOMAIN session' = DOMAIN session \cup {s}
         /\ session' \in [DOMAIN session' -> SessionRow \cup {None}]
         /\ Live' \subseteq Live \cup {s} /\ s \notin Live /\ session'[s] = row
         /\ \A u \in Live : session'[u] = session[u]
BY DEF TypeOK, Put, Live

(* What is used of a request and of a token it has in hand.                *)
LEMMA Sorts ==
  ASSUME Typed
  PROVE  /\ \A r \in Req : Refers(r) /\ Noted(r) /\ req[r] \in Request
         /\ \A r \in Req : req[r].pc # "idle" => status # "absent"
         /\ DOMAIN challenge # {} \/ DOMAIN reset # {} \/ DOMAIN verification # {} \/ Live # {}
              => status # "absent"
         /\ status # "absent" => password \in 1..MaxPassword
         /\ \A s \in Live : session[s] \in SessionRow
         /\ \A x \in Challenge : x \notin Reset /\ x \notin Verification /\ x # None
         /\ \A x \in Reset : x \notin Verification /\ x # None
         /\ \A x \in Verification : x # None
BY NoneAssumption, SortsAssumption DEF Typed, TypeOK, RowsRefer, NothingBefore, Live

LEMMA Rows ==
  ASSUME Typed
  PROVE  /\ IsFiniteSet(DOMAIN reset) /\ password \in Nat /\ stint \in Nat
         /\ \A s \in Live : session[s].challenge \in DOMAIN challenge \cup {None}
         /\ \A w \in swept : w.token \in DOMAIN reset \cup {None} /\ w.password <= password
         /\ \A n \in expelled : n <= stint
         /\ session' = session => Live' = Live
BY BoundAssumption DEF Typed, TypeOK, RowsRefer, Live

(* A step that carries on with one request and removes no row of a token.   *)
LEMMA Referring ==
  ASSUME Typed, TypeOK', status' # "absent", NEW r \in Req,
         \A s \in Req \ {r} : req'[s] = req[s], Refers(r)', Noted(r)',
         DOMAIN challenge \subseteq DOMAIN challenge',
         DOMAIN reset \subseteq DOMAIN reset', IsFiniteSet(DOMAIN reset'),
         DOMAIN verification \subseteq DOMAIN verification',
         password <= password', stint <= stint',
         \A s \in Live' : session'[s].challenge \in DOMAIN challenge \cup {None},
         \A w \in swept' : w.token \in DOMAIN reset \cup {None} /\ w.password <= password,
         \A n \in expelled' : n <= stint
  PROVE  RowsRefer'
<1>1. /\ password \in Nat /\ stint \in Nat /\ password' \in Nat /\ stint' \in Nat
      /\ \A w \in swept' : w.password \in Nat
      /\ \A n \in expelled' : n \in Nat
  BY BoundAssumption DEF Typed, TypeOK
<1>2. ASSUME NEW s \in Req \ {r} PROVE Refers(s)' /\ Noted(s)'
  <2>1. Refers(s) /\ Noted(s) /\ req'[s] = req[s]
    BY Sorts
  <2>2. Refers(s)'
    BY <2>1 DEF Refers
  <2>3. Noted(s)'
    BY <1>1, <2>1 DEF Noted
  <2>4. QED
    BY <2>2, <2>3
<1>3. QED
  BY <1>1, <1>2 DEF RowsRefer, NothingBefore

-----------------------------------------------------------------------------
(* The tables keep their shape, and requests refer to rows. *)

LEMMA LoginTypes ==
  ASSUME Typed, NEW r \in Req, Login(r)
  PROVE  Typed'
<1> USE DEF Typed, users, tokens, history
<1>1. CASE Register(r)
  <2>1. PICK q : q = [Idle EXCEPT !.pc = "session", !.via = "register"] /\ Begin(r, q)
    BY <1>1 DEF Register
  <2>2. q \in Request /\ q.pc = "session" /\ q.via = "register" /\ q.token = None
    BY <2>1, IdleRequest DEF Request, PC
  <2>3. TypeOK'
    BY <1>1, <2>1, <2>2, RequestTypes, BoundAssumption DEF Register, TypeOK, Status
  <2>4. Refers(r)' /\ Noted(r)'
    BY <2>1, <2>2, RequestTypes, Sorts DEF Refers, Noted
  <2>5. password = 0 /\ password' = 1 /\ status' # "absent"
    BY <1>1 DEF Register, TypeOK
  <2>6. \A s \in Req \ {r} : req'[s] = req[s]
    BY <2>1, RequestTypes
  <2>7. UNCHANGED <<session, tokens, history>>
    BY <1>1 DEF Register
  <2>8. QED
    BY <2>3, <2>4, <2>5, <2>6, <2>7, Rows, Referring
<1>2. CASE LoginRead(r)
  <2>0. PICK pc \in {"session", "challenge"} :
          Begin(r, [Idle EXCEPT !.pc = pc, !.via = "password", !.read = stint])
    BY <1>2 DEF LoginRead
  <2>1. PICK q :
          /\ q = [Idle EXCEPT !.pc = pc, !.via = "password", !.read = stint]
          /\ pc \in {"session", "challenge"} /\ Begin(r, q)
    BY <2>0
  <2>2. q \in Request /\ q.pc \in {"session", "challenge"} /\ q.via = "password" /\ q.token = None
    BY <2>1, IdleRequest DEF Request, PC, TypeOK
  <2>3. TypeOK'
    BY <1>2, <2>1, <2>2, RequestTypes DEF LoginRead, TypeOK
  <2>4. Refers(r)' /\ Noted(r)'
    BY <2>1, <2>2, RequestTypes, Sorts DEF Refers, Noted
  <2>5. \A s \in Req \ {r} : req'[s] = req[s]
    BY <2>1, RequestTypes
  <2>6. UNCHANGED <<users, session, tokens, history>> /\ status # "absent"
    BY <1>2 DEF LoginRead
  <2>7. QED
    BY <2>3, <2>4, <2>5, <2>6, Rows, Referring
<1>3. CASE IssueChallenge(r)
  <2>1. PICK x \in Challenge \ DOMAIN challenge : challenge' = Put(challenge, x, "unused")
    BY <1>3 DEF IssueChallenge
  <2>2. Finish(r) /\ status # "absent"
    BY <1>3, Sorts DEF IssueChallenge
  <2>3. /\ DOMAIN challenge' = DOMAIN challenge \cup {x} /\ DOMAIN challenge' \subseteq Challenge
        /\ challenge' \in [DOMAIN challenge' -> TokenState]
    BY <2>1, Tables
  <2>4. TypeOK'
    BY <1>3, <2>2, <2>3, RequestTypes DEF IssueChallenge, TypeOK
  <2>5. Refers(r)' /\ Noted(r)'
    BY <2>2, Ended, Sorts DEF Refers, Noted
  <2>6. \A s \in Req \ {r} : req'[s] = req[s]
    BY <2>2, RequestTypes
  <2>7. UNCHANGED <<users, session, reset, verification, history>>
    BY <1>3 DEF IssueChallenge
  <2>8. QED
    BY <2>2, <2>3, <2>4, <2>5, <2>6, <2>7, Rows, Referring
<1>4. CASE AnswerChallenge(r)
  <2>1. PICK x, q :
       /\ x \in Unused(challenge)
       /\ q = [Idle EXCEPT !.pc = "session", !.via = "mfa", !.token = x]
       /\ Begin(r, q)
       /\ overlapped' \in {overlapped, overlapped \cup {x}}
    BY <1>4 DEF AnswerChallenge
  <2>2. x \in DOMAIN challenge /\ x \in Challenge
    BY <2>1 DEF Unused, TypeOK
  <2>3. q \in Request /\ q.pc = "session" /\ q.via = "mfa" /\ q.token = x
    BY <2>1, <2>2, IdleRequest DEF Request, PC
  <2>4. TypeOK'
    BY <1>4, <2>1, <2>2, <2>3, RequestTypes DEF AnswerChallenge, TypeOK
  <2>5. Refers(r)' /\ Noted(r)'
    <3>1. req'[r] = q
      BY <2>1, <2>3, RequestTypes
    <3>2. challenge' = challenge
      BY <1>4 DEF AnswerChallenge, tokens
    <3>3. Refers(r)'
      BY <2>1, <2>2, <2>3, <3>1, <3>2, Sorts DEF Refers
    <3>4. Noted(r)'
      BY <2>1, <2>3, <3>1 DEF Noted
    <3>5. QED
      BY <3>3, <3>4
  <2>6. status # "absent"
    BY <2>2, Sorts
  <2>7. \A s \in Req \ {r} : req'[s] = req[s]
    BY <2>1, RequestTypes
  <2>8. UNCHANGED <<users, session, tokens, stint, decision, swept, expelled>>
    BY <1>4 DEF AnswerChallenge
  <2>9. QED
    BY <2>4, <2>5, <2>6, <2>7, <2>8, Rows, Referring
<1>5. CASE PasskeyLogin(r)
  <2>1. PICK q : q = [Idle EXCEPT !.pc = "session", !.via = "passkey"] /\ Begin(r, q)
    BY <1>5 DEF PasskeyLogin
  <2>2. q \in Request /\ q.pc = "session" /\ q.via = "passkey" /\ q.token = None
    BY <2>1, IdleRequest DEF Request, PC
  <2>3. TypeOK'
    BY <1>5, <2>1, <2>2, RequestTypes DEF PasskeyLogin, TypeOK
  <2>4. Refers(r)' /\ Noted(r)'
    BY <2>1, <2>2, RequestTypes, Sorts DEF Refers, Noted
  <2>5. \A s \in Req \ {r} : req'[s] = req[s]
    BY <2>1, RequestTypes
  <2>6. UNCHANGED <<users, session, tokens, history>> /\ status # "absent"
    BY <1>5 DEF PasskeyLogin
  <2>7. QED
    BY <2>3, <2>4, <2>5, <2>6, Rows, Referring
<1>6. CASE CreateSession(r)
  <2>1. PICK s, row :
       /\ s \in Session \ DOMAIN session
       /\ row = [via |-> req[r].via, since |-> password, stint |-> stint,
                 suspended |-> status = "suspended", read |-> req[r].read,
                 challenge |-> req[r].token]
       /\ session' = Put(session, s, row)
    BY <1>6 DEF CreateSession
  <2>2. req[r] \in Request /\ Refers(r) /\ req[r].pc = "session" /\ status # "absent"
    BY <1>6, Sorts DEF CreateSession
  <2>3. row \in SessionRow /\ row.challenge = req[r].token
    BY <2>1, <2>2 DEF SessionRow, Request, Refers, TypeOK
  <2>4. /\ DOMAIN session' = DOMAIN session \cup {s}
        /\ session' \in [DOMAIN session' -> SessionRow \cup {None}]
        /\ Live' \subseteq Live \cup {s} /\ session'[s] = row
        /\ \A u \in Live : session'[u] = session[u]
    BY <2>1, <2>3, Inserted
  <2>5. \/ req[r].via = "register" /\ Goto(r, "verifier")
        \/ req[r].via = "mfa" /\ Goto(r, "mark")
        \/ Finish(r)
    BY <1>6 DEF CreateSession
  <2>6. req' \in [Req -> Request] /\ \A u \in Req \ {r} : req'[u] = req[u]
    BY <2>5, RequestTypes DEF PC
  <2>7. TypeOK'
    BY <2>1, <1>6, <2>4, <2>6 DEF CreateSession, TypeOK
  <2>8. UNCHANGED <<users, tokens, history>>
    BY <1>6 DEF CreateSession
  <2>9. Refers(r)' /\ Noted(r)'
    <3>1. CASE req[r].via = "register" /\ Goto(r, "verifier")
      BY <2>2, <3>1, Moved, Sorts DEF Refers, Noted, PC
    <3>2. CASE req[r].via = "mfa" /\ Goto(r, "mark")
      <4>1. /\ req'[r].pc = "mark" /\ req'[r].token = req[r].token /\ req'[r].via = "mfa"
            /\ req'[r].token \in Challenge
        BY <2>2, <3>2, Moved DEF Refers, PC
      <4>2. QED
        BY <2>2, <2>8, <4>1, Sorts DEF Refers, Noted
    <3>3. CASE Finish(r)
      BY <3>3, Ended, Sorts DEF Refers, Noted
    <3>4. QED
      BY <2>5, <3>1, <3>2, <3>3
  <2>10. \A u \in Live' : session'[u].challenge \in DOMAIN challenge \cup {None}
    BY <2>2, <2>3, <2>4 DEF Refers, RowsRefer
  <2>11. QED
    BY <2>2, <2>6, <2>7, <2>8, <2>9, <2>10, Rows, Referring
<1>7. CASE MarkChallenge(r)
  <2>1. /\ Finish(r) /\ status # "absent" /\ req[r].token \in DOMAIN challenge
        /\ req[r].token \in Challenge /\ challenge' = Put(challenge, req[r].token, "used")
    BY <1>7, Sorts DEF MarkChallenge, Refers
  <2>2. /\ DOMAIN challenge' = DOMAIN challenge \cup {req[r].token}
        /\ DOMAIN challenge' \subseteq Challenge
        /\ challenge' \in [DOMAIN challenge' -> TokenState]
    BY <2>1, Tables
  <2>3. TypeOK'
    BY <1>7, <2>1, <2>2, RequestTypes DEF MarkChallenge, TypeOK
  <2>4. Refers(r)' /\ Noted(r)'
    BY <2>1, Ended, Sorts DEF Refers, Noted
  <2>5. \A s \in Req \ {r} : req'[s] = req[s]
    BY <2>1, RequestTypes
  <2>6. UNCHANGED <<users, session, reset, verification, history>>
    BY <1>7 DEF MarkChallenge
  <2>7. QED
    BY <2>1, <2>2, <2>3, <2>4, <2>5, <2>6, Rows, Referring
<1>8. QED
  BY <1>1, <1>2, <1>3, <1>4, <1>5, <1>6, <1>7 DEF Login

LEMMA EmailTypes ==
  ASSUME Typed, NEW r \in Req, Email(r)
  PROVE  Typed'
<1> USE DEF Typed, users, tokens, history
<1>1. CASE IssueVerification(r)
  <2>1. PICK x \in Verification \ DOMAIN verification :
          verification' = Put(verification, x, "unused")
    BY <1>1 DEF IssueVerification
  <2>2. Finish(r) /\ status # "absent"
    BY <1>1, Sorts DEF IssueVerification
  <2>3. /\ DOMAIN verification' = DOMAIN verification \cup {x}
        /\ DOMAIN verification' \subseteq Verification
        /\ verification' \in [DOMAIN verification' -> TokenState]
    BY <2>1, Tables
  <2>4. TypeOK'
    BY <1>1, <2>2, <2>3, RequestTypes DEF IssueVerification, TypeOK
  <2>5. Refers(r)' /\ Noted(r)'
    BY <2>2, Ended, Sorts DEF Refers, Noted
  <2>6. \A s \in Req \ {r} : req'[s] = req[s]
    BY <2>2, RequestTypes
  <2>7. UNCHANGED <<users, session, challenge, reset, history>>
    BY <1>1 DEF IssueVerification
  <2>8. QED
    BY <2>2, <2>3, <2>4, <2>5, <2>6, <2>7, Rows, Referring
<1>2. CASE ResendRead(r)
  <2>1. PICK q : q = [Idle EXCEPT !.pc = "void"] /\ Begin(r, q)
    BY <1>2 DEF ResendRead
  <2>2. q \in Request /\ q.pc = "void" /\ q.token = None
    BY <2>1, IdleRequest DEF Request, PC
  <2>3. TypeOK'
    BY <1>2, <2>1, <2>2, RequestTypes DEF ResendRead, TypeOK
  <2>4. Refers(r)' /\ Noted(r)'
    BY <2>1, <2>2, RequestTypes, Sorts DEF Refers, Noted
  <2>5. \A s \in Req \ {r} : req'[s] = req[s]
    BY <2>1, RequestTypes
  <2>6. UNCHANGED <<users, session, tokens, history>> /\ status # "absent"
    BY <1>2 DEF ResendRead
  <2>7. QED
    BY <2>3, <2>4, <2>5, <2>6, Rows, Referring
<1>3. CASE ResendVoid(r)
  <2>1. Goto(r, "verifier") /\ status # "absent" /\ req[r].pc = "void" /\ Refers(r)
    BY <1>3, Sorts DEF ResendVoid
  <2>2. /\ DOMAIN verification' = DOMAIN verification
        /\ verification' \in [DOMAIN verification -> TokenState]
    BY <1>3 DEF ResendVoid, TypeOK, TokenState
  <2>3. TypeOK'
    BY <1>3, <2>1, <2>2, RequestTypes DEF ResendVoid, TypeOK, PC
  <2>4. req'[r].pc = "verifier" /\ req'[r].token = req[r].token
    BY <2>1, Moved DEF PC
  <2>5. Refers(r)' /\ Noted(r)'
    BY <2>1, <2>4 DEF Refers, Noted
  <2>6. \A s \in Req \ {r} : req'[s] = req[s]
    BY <2>1, RequestTypes
  <2>7. UNCHANGED <<users, session, challenge, reset, history>>
    BY <1>3 DEF ResendVoid
  <2>8. QED
    BY <2>1, <2>2, <2>3, <2>5, <2>6, <2>7, Rows, Referring
<1>4. CASE VerifyRead(r)
  <2>1. PICK x, q :
       /\ x \in Unused(verification)
       /\ q = [Idle EXCEPT !.pc = "verify", !.token = x, !.seen = status] /\ Begin(r, q)
    BY <1>4 DEF VerifyRead
  <2>2. x \in DOMAIN verification /\ x \in Verification /\ status # "absent"
    BY <2>1, Sorts DEF Unused, TypeOK
  <2>3. q \in Request /\ q.pc = "verify" /\ q.token = x
    BY <2>1, <2>2, IdleRequest DEF Request, PC, TypeOK
  <2>4. TypeOK'
    BY <1>4, <2>1, <2>3, RequestTypes DEF VerifyRead, TypeOK
  <2>5. UNCHANGED <<users, session, tokens, history>>
    BY <1>4 DEF VerifyRead
  <2>6. Refers(r)' /\ Noted(r)'
    BY <2>1, <2>2, <2>3, <2>5, RequestTypes, Sorts DEF Refers, Noted
  <2>7. \A s \in Req \ {r} : req'[s] = req[s]
    BY <2>1, RequestTypes
  <2>8. QED
    BY <2>2, <2>4, <2>5, <2>6, <2>7, Rows, Referring
<1>5. CASE VerifyCommit(r)
  <2>1. PICK x \in Verification : x = req[r].token
    BY <1>5, Sorts DEF VerifyCommit, Refers
  <2>2. /\ Finish(r) /\ status # "absent"
        /\ status' \in {status, "active"} /\ overlapped' \in {overlapped, overlapped \cup {x}}
    BY <1>5, <2>1, Sorts DEF VerifyCommit
  <2>3. UNCHANGED <<password, session, challenge, reset, stint, decision, swept, expelled>>
    BY <1>5 DEF VerifyCommit
  <2>4. /\ DOMAIN verification \subseteq DOMAIN verification'
        /\ DOMAIN verification' \subseteq Verification
        /\ verification' \in [DOMAIN verification' -> TokenState]
    <3>1. CASE verification' = Put(verification, x, "used")
      <4>1. /\ DOMAIN verification' = DOMAIN verification \cup {x}
            /\ DOMAIN verification' \subseteq Verification
            /\ verification' \in [DOMAIN verification' -> TokenState]
        BY <3>1, Tables
      <4>2. QED
        BY <4>1
    <3>2. CASE UNCHANGED verification
      BY <3>2 DEF TypeOK
    <3>3. QED
      BY <1>5, <2>1, <3>1, <3>2 DEF VerifyCommit
  <2>5. TypeOK'
    BY <2>2, <2>3, <2>4, RequestTypes DEF TypeOK, Status
  <2>6. Refers(r)' /\ Noted(r)'
    BY <2>2, Ended, Sorts DEF Refers, Noted
  <2>7. \A s \in Req \ {r} : req'[s] = req[s]
    BY <2>2, RequestTypes
  <2>8. QED
    BY <2>2, <2>3, <2>4, <2>5, <2>6, <2>7, Rows, Referring
<1>6. QED
  BY <1>1, <1>2, <1>3, <1>4, <1>5 DEF Email

(* A new password, written by a request that then sweeps.                  *)
LEMMA Sweeping ==
  ASSUME Typed, NEW r \in Req, password < MaxPassword,
         req' = [req EXCEPT ![r] = [@ EXCEPT !.pc = "sweep", !.noted = password + 1]]
  PROVE  /\ req' \in [Req -> Request] /\ \A s \in Req \ {r} : req'[s] = req[s]
         /\ req'[r].pc = "sweep" /\ req'[r].token = req[r].token
         /\ req'[r].spare = req[r].spare /\ req'[r].noted = password + 1
<1>1. PICK q : q = [req[r] EXCEPT !.pc = "sweep", !.noted = password + 1]
  OBVIOUS
<1>2. req' = [req EXCEPT ![r] = q]
  BY <1>1 DEF Typed, TypeOK
<1>3. password + 1 \in Nat
  BY BoundAssumption DEF Typed, TypeOK
<1>4. /\ q \in Request /\ q.pc = "sweep" /\ q.token = req[r].token
      /\ q.spare = req[r].spare /\ q.noted = password + 1
  BY <1>1, <1>3, Sorts DEF Request, PC
<1>5. QED
  BY <1>2, <1>4 DEF Typed, TypeOK

LEMMA PasswordTypes ==
  ASSUME Typed, NEW r \in Req, Passwords(r)
  PROVE  Typed'
<1> USE DEF Typed, users, tokens, history
<1>1. CASE ChangeRead(r)
  <2>1. PICK u, q :
       /\ u \in Live
       /\ q = [Idle EXCEPT !.pc = "change", !.spare = u] /\ Begin(r, q)
    BY <1>1 DEF ChangeRead
  <2>2. u \in Session /\ status # "absent"
    BY <2>1, Sorts DEF Live, TypeOK
  <2>3. q \in Request /\ q.pc = "change" /\ q.token = None
    BY <2>1, <2>2, IdleRequest DEF Request, PC
  <2>4. TypeOK'
    BY <1>1, <2>1, <2>3, RequestTypes DEF ChangeRead, TypeOK
  <2>5. Refers(r)' /\ Noted(r)'
    BY <2>1, <2>3, RequestTypes, Sorts DEF Refers, Noted
  <2>6. \A s \in Req \ {r} : req'[s] = req[s]
    BY <2>1, RequestTypes
  <2>7. UNCHANGED <<users, session, tokens, history>>
    BY <1>1 DEF ChangeRead
  <2>8. QED
    BY <2>2, <2>4, <2>5, <2>6, <2>7, Rows, Referring
<1>2. CASE ChangeWrite(r)
  <2>1. /\ password' = password + 1 /\ password < MaxPassword /\ status # "absent"
        /\ req[r].token = None /\ UNCHANGED <<status, session, tokens, history>>
    BY <1>2, Sorts DEF ChangeWrite, Refers
  <2>2. /\ req' \in [Req -> Request] /\ \A s \in Req \ {r} : req'[s] = req[s]
        /\ req'[r].pc = "sweep" /\ req'[r].token = None /\ req'[r].noted = password + 1
    BY <1>2, <2>1, Sweeping DEF ChangeWrite
  <2>3. TypeOK'
    BY <2>1, <2>2, BoundAssumption DEF TypeOK
  <2>4. Refers(r)' /\ Noted(r)'
    BY <2>1, <2>2, Rows, Sorts DEF Refers, Noted
  <2>5. password <= password'
    BY <2>1, Rows
  <2>6. QED
    BY <2>1, <2>2, <2>3, <2>4, <2>5, Rows, Referring
<1>3. CASE RequestReset(r)
  <2>1. PICK n, q :
          /\ n = Cardinality(Unused(reset)) /\ n < ResetLimit
          /\ q = [Idle EXCEPT !.pc = "issue", !.noted = n] /\ Begin(r, q)
    BY <1>3 DEF RequestReset, WithinLimit
  <2>2. n \in Nat
    BY <2>1, Rows, FS_Subset, FS_CardinalityType DEF Unused
  <2>3. q \in Request /\ q.pc = "issue" /\ q.token = None /\ q.noted = n
    BY <2>1, <2>2, IdleRequest DEF Request, PC
  <2>4. TypeOK'
    BY <1>3, <2>1, <2>3, RequestTypes DEF RequestReset, TypeOK
  <2>5. Refers(r)' /\ Noted(r)'
    <3>1. req'[r] = q
      BY <2>1, <2>3, RequestTypes
    <3>2. Refers(r)'
      BY <2>1, <2>3, <3>1, Sorts DEF Refers
    <3>3. Noted(r)'
      BY <2>1, <2>3, <3>1 DEF Noted
    <3>4. QED
      BY <3>2, <3>3
  <2>6. \A s \in Req \ {r} : req'[s] = req[s]
    BY <2>1, RequestTypes
  <2>7. UNCHANGED <<users, session, tokens, history>> /\ status # "absent"
    BY <1>3 DEF RequestReset
  <2>8. QED
    BY <2>4, <2>5, <2>6, <2>7, Rows, Referring
<1>4. CASE IssueReset(r)
  <2>1. PICK x \in Reset \ DOMAIN reset :
          reset' = Put(reset, x, "unused") /\ overlapped' \in {overlapped, overlapped \cup {x}}
    BY <1>4 DEF IssueReset
  <2>2. /\ Finish(r) /\ status # "absent"
        /\ UNCHANGED <<users, session, challenge, verification, stint, decision, swept, expelled>>
    BY <1>4, Sorts DEF IssueReset
  <2>3. /\ DOMAIN reset' = DOMAIN reset \cup {x} /\ DOMAIN reset' \subseteq Reset
        /\ reset' \in [DOMAIN reset' -> TokenState]
    BY <2>1, Tables
  <2>4. TypeOK'
    BY <2>1, <2>2, <2>3, RequestTypes DEF TypeOK
  <2>5. Refers(r)' /\ Noted(r)'
    BY <2>2, Ended, Sorts DEF Refers, Noted
  <2>6. \A s \in Req \ {r} : req'[s] = req[s]
    BY <2>2, RequestTypes
  <2>7. /\ IsFiniteSet(DOMAIN reset') /\ DOMAIN reset \subseteq DOMAIN reset'
        /\ password <= password' /\ stint <= stint' /\ status' # "absent"
    BY <2>2, <2>3, Rows, FS_AddElement
  <2>8. QED
    BY <2>2, <2>3, <2>4, <2>5, <2>6, <2>7, Rows, Referring
<1>5. CASE ResetRead(r)
  <2>1. PICK x, q :
       /\ x \in Unused(reset)
       /\ q = [Idle EXCEPT !.pc = "reset", !.token = x] /\ Begin(r, q)
    BY <1>5 DEF ResetRead
  <2>2. x \in DOMAIN reset /\ x \in Reset /\ status # "absent"
    BY <2>1, Sorts DEF Unused, TypeOK
  <2>3. q \in Request /\ q.pc = "reset" /\ q.token = x
    BY <2>1, <2>2, IdleRequest DEF Request, PC
  <2>4. TypeOK'
    BY <1>5, <2>1, <2>3, RequestTypes DEF ResetRead, TypeOK
  <2>5. UNCHANGED <<users, session, tokens, history>>
    BY <1>5 DEF ResetRead
  <2>6. Refers(r)' /\ Noted(r)'
    BY <2>1, <2>2, <2>3, <2>5, RequestTypes, Sorts DEF Refers, Noted
  <2>7. \A s \in Req \ {r} : req'[s] = req[s]
    BY <2>1, RequestTypes
  <2>8. QED
    BY <2>2, <2>4, <2>5, <2>6, <2>7, Rows, Referring
<1>6. CASE ResetCommit(r)
  <2>1. PICK x \in Reset : x = req[r].token
    BY <1>6, Sorts DEF ResetCommit, Refers
  <2>2. /\ password' = password + 1 /\ password < MaxPassword /\ status # "absent"
        /\ x \in DOMAIN reset /\ reset' = Put(reset, x, "used")
        /\ overlapped' \in {overlapped, overlapped \cup {x}}
        /\ UNCHANGED <<status, session, challenge, verification, stint, decision,
                       swept, expelled>>
    BY <1>6, <2>1, Sorts DEF ResetCommit, Refers
  <2>3. /\ req' \in [Req -> Request] /\ \A s \in Req \ {r} : req'[s] = req[s]
        /\ req'[r].pc = "sweep" /\ req'[r].token = x /\ req'[r].noted = password + 1
    BY <1>6, <2>1, <2>2, Sweeping DEF ResetCommit
  <2>4. /\ DOMAIN reset' = DOMAIN reset \cup {x} /\ DOMAIN reset' \subseteq Reset
        /\ reset' \in [DOMAIN reset' -> TokenState]
    BY <2>2, Tables
  <2>5. TypeOK'
    BY <2>2, <2>3, <2>4, BoundAssumption DEF TypeOK
  <2>6. Refers(r)' /\ Noted(r)'
    BY <2>2, <2>3, <2>4, Rows, Sorts DEF Refers, Noted
  <2>7. password <= password' /\ IsFiniteSet(DOMAIN reset')
    BY <2>2, <2>4, Rows, FS_AddElement
  <2>8. QED
    BY <2>2, <2>3, <2>4, <2>5, <2>6, <2>7, Rows, Referring
<1>7. CASE SweepSelect(r) \/ SweepDelete(r)
  <2>1. /\ req[r] \in Request /\ status # "absent" /\ Refers(r) /\ Noted(r)
        /\ req[r].pc \in {"sweep", "delete"}
        /\ UNCHANGED <<users, tokens, stint, decision, expelled, overlapped>>
    BY <1>7, Sorts DEF SweepSelect, SweepDelete
  <2>2. /\ swept' \in {swept, swept \cup {Revoked(r)}}
        /\ Finish(r) \/ (Goto(r, "delete") /\ req[r].pc = "sweep")
    BY <1>7 DEF SweepSelect, SweepDelete
  <2>3. /\ Live' \subseteq Live /\ \A s \in Live' : session'[s] = session[s]
        /\ DOMAIN session' = DOMAIN session
        /\ session' \in [DOMAIN session' -> SessionRow \cup {None}]
    BY <1>7, Deleted DEF SweepSelect, SweepDelete, TypeOK, Live
  <2>4. /\ Revoked(r).password = req[r].noted /\ Revoked(r).token = req[r].token
        /\ req[r].noted \in 1..password /\ req[r].token \in DOMAIN reset \cup {None}
    BY <2>1 DEF Revoked, Refers, Noted
  <2>5. Revoked(r) \in [password : 1..MaxPassword, token : Reset \cup {None},
                        spare : Session \cup {None}]
    <3>1. req[r].token \in Reset \cup {None} /\ req[r].spare \in Session \cup {None}
      BY <2>1 DEF Refers, Request
    <3>2. req[r].noted \in 1..MaxPassword
      BY <2>4, BoundAssumption DEF TypeOK
    <3>3. QED
      BY <3>1, <3>2 DEF Revoked
  <2>6. req' \in [Req -> Request] /\ \A s \in Req \ {r} : req'[s] = req[s]
    BY <2>2, RequestTypes DEF PC
  <2>7. TypeOK'
    BY <2>1, <2>2, <2>3, <2>5, <2>6 DEF TypeOK
  <2>8. Refers(r)' /\ Noted(r)'
    <3>1. CASE Finish(r)
      BY <3>1, Ended, Sorts DEF Refers, Noted
    <3>2. CASE Goto(r, "delete") /\ req[r].pc = "sweep"
      <4>1. /\ req'[r].pc = "delete" /\ req'[r].token = req[r].token
            /\ req'[r].noted = req[r].noted
        BY <3>2, Moved DEF PC
      <4>2. QED
        BY <2>1, <3>2, <4>1 DEF Refers, Noted
    <3>3. QED
      BY <2>2, <3>1, <3>2
  <2>9. \A w \in swept' : w.token \in DOMAIN reset \cup {None} /\ w.password <= password
    BY <2>2, <2>4, Rows
  <2>10. \A s \in Live' : session'[s].challenge \in DOMAIN challenge \cup {None}
    BY <2>3, Rows
  <2>11. QED
    BY <2>1, <2>6, <2>7, <2>8, <2>9, <2>10, Rows, Referring
<1>8. QED
  BY <1>1, <1>2, <1>3, <1>4, <1>5, <1>6, <1>7 DEF Passwords

LEMMA AdminTypes ==
  ASSUME Typed, NEW r \in Req, Suspend(r) \/ Expel(r) \/ Abort(r)
  PROVE  Typed'
<1> USE DEF Typed, users, tokens, history
<1>1. CASE Suspend(r)
  <2>1. PICK q : q = [Idle EXCEPT !.pc = "expel", !.noted = stint + 1] /\ Begin(r, q)
    BY <1>1 DEF Suspend
  <2>2. /\ status' = "suspended" /\ decision' = "suspended" /\ stint' = stint + 1
        /\ stint < MaxStint /\ status # "absent" /\ overlapped' = overlapped \ Verification
        /\ UNCHANGED <<password, session, tokens, swept, expelled>>
    BY <1>1 DEF Suspend
  <2>3. q \in Request /\ q.pc = "expel" /\ q.token = None /\ q.noted = stint + 1
    <3>1. stint + 1 \in Nat
      BY Rows
    <3>2. QED
      BY <2>1, <3>1, IdleRequest DEF Request, PC
  <2>4. stint' \in 0..MaxStint
    BY <2>2, BoundAssumption DEF TypeOK
  <2>5. TypeOK'
    BY <2>1, <2>2, <2>3, <2>4, RequestTypes DEF TypeOK, Status
  <2>6. Refers(r)' /\ Noted(r)'
    <3>1. req'[r] = q
      BY <2>1, <2>3, RequestTypes
    <3>2. stint + 1 \in 1..(stint + 1)
      BY Rows
    <3>3. Noted(r)'
      BY <2>2, <2>3, <3>1, <3>2 DEF Noted
    <3>4. Refers(r)'
      BY <2>3, <3>1, Sorts DEF Refers
    <3>5. QED
      BY <3>3, <3>4
  <2>7. \A s \in Req \ {r} : req'[s] = req[s]
    BY <2>1, RequestTypes
  <2>8. stint <= stint' /\ status' # "absent"
    BY <2>2, Rows
  <2>9. QED
    BY <2>2, <2>5, <2>6, <2>7, <2>8, Rows, Referring
<1>2. CASE Expel(r)
  <2>1. /\ Finish(r) /\ Delete(Live) /\ expelled' = expelled \cup {req[r].noted}
        /\ req[r].noted \in 1..stint /\ status # "absent"
        /\ UNCHANGED <<users, tokens, stint, decision, swept, overlapped>>
    BY <1>2, Sorts DEF Expel, Noted
  <2>2. /\ DOMAIN session' = DOMAIN session /\ Live' = {}
        /\ session' \in [DOMAIN session' -> SessionRow \cup {None}]
    BY <2>1, Deleted
  <2>3. expelled' \subseteq 1..MaxStint
    BY <2>1, BoundAssumption DEF TypeOK
  <2>4. TypeOK'
    BY <2>1, <2>2, <2>3, RequestTypes DEF TypeOK
  <2>5. Refers(r)' /\ Noted(r)'
    BY <2>1, Ended, Sorts DEF Refers, Noted
  <2>6. \A s \in Req \ {r} : req'[s] = req[s]
    BY <2>1, RequestTypes
  <2>7. \A n \in expelled' : n <= stint
    BY <2>1, Rows
  <2>8. QED
    BY <2>1, <2>2, <2>4, <2>5, <2>6, <2>7, Rows, Referring
<1>3. CASE Abort(r)
  <2>1. /\ Finish(r) /\ status # "absent"
        /\ overlapped' = IF req[r].pc = "mark" THEN overlapped \cup {req[r].token} ELSE overlapped
        /\ UNCHANGED <<users, session, tokens, stint, decision, swept, expelled>>
    BY <1>3, Sorts DEF Abort
  <2>2. overlapped' \subseteq Challenge \cup Reset \cup Verification
    BY <2>1, Sorts DEF TypeOK, Refers
  <2>3. TypeOK'
    BY <2>1, <2>2, RequestTypes DEF TypeOK
  <2>4. Refers(r)' /\ Noted(r)'
    BY <2>1, Ended, Sorts DEF Refers, Noted
  <2>5. \A s \in Req \ {r} : req'[s] = req[s]
    BY <2>1, RequestTypes
  <2>6. QED
    BY <2>1, <2>3, <2>4, <2>5, Rows, Referring
<1>4. QED
  BY <1>1, <1>2, <1>3

(* What happens without a request.                                         *)
Elsewhere ==
  \/ Activate \/ BulkRevoke
  \/ \E s \in Session : RevokeSession(s)
  \/ \E x \in Challenge : ExpireChallenge(x)
  \/ \E x \in Reset : ExpireReset(x)
  \/ \E x \in Verification : ExpireVerification(x)
  \/ UNCHANGED vars

SessionsKept ==
  /\ DOMAIN session' = DOMAIN session
  /\ session' \in [DOMAIN session' -> SessionRow \cup {None}]
  /\ Live' \subseteq Live /\ \A s \in Live' : session'[s] = session[s]
ChallengesKept ==
  /\ DOMAIN challenge' = DOMAIN challenge /\ challenge' \in [DOMAIN challenge -> TokenState]
  /\ \A x \in DOMAIN challenge :
       challenge'[x] = challenge[x] \/ (challenge[x] = "unused" /\ challenge'[x] = "expired")
ResetsKept ==
  /\ DOMAIN reset' = DOMAIN reset /\ reset' \in [DOMAIN reset -> TokenState]
  /\ \A x \in DOMAIN reset :
       reset'[x] = reset[x] \/ (reset[x] = "unused" /\ reset'[x] = "expired")
VerificationsKept ==
  /\ DOMAIN verification' = DOMAIN verification
  /\ verification' \in [DOMAIN verification -> TokenState]

(* It deletes sessions, lets a token run out, or sets the status.          *)
LEMMA ElsewhereSteps ==
  ASSUME Typed, Elsewhere
  PROVE  /\ UNCHANGED <<password, req, stint, swept, expelled>>
         /\ SessionsKept /\ ChallengesKept /\ ResetsKept /\ VerificationsKept
         /\ \/ UNCHANGED <<status, decision, overlapped>>
            \/ /\ status # "absent" /\ status' = "active" /\ decision' = "active"
               /\ overlapped' = overlapped \ Verification
<1> USE DEF Typed, users, tokens, history
<1>1. UNCHANGED session => SessionsKept
  BY DEF TypeOK, Live, SessionsKept
<1>2. ASSUME NEW S, Delete(S) PROVE SessionsKept
  BY <1>2, Deleted DEF SessionsKept
<1>3. UNCHANGED challenge => ChallengesKept
  BY DEF TypeOK, ChallengesKept
<1>4. UNCHANGED reset => ResetsKept
  BY DEF TypeOK, ResetsKept
<1>5. UNCHANGED verification => VerificationsKept
  BY DEF TypeOK, VerificationsKept
<1>6. CASE Activate
  BY <1>1, <1>3, <1>4, <1>5, <1>6 DEF Activate
<1>7. CASE BulkRevoke
  BY <1>2, <1>3, <1>4, <1>5, <1>7 DEF BulkRevoke
<1>8. CASE \E s \in Session : RevokeSession(s)
  BY <1>2, <1>3, <1>4, <1>5, <1>8 DEF RevokeSession
<1>9. CASE \E x \in Challenge : ExpireChallenge(x)
  <2>1. PICK x \in Unused(challenge) : challenge' = Put(challenge, x, "expired")
    BY <1>9 DEF ExpireChallenge
  <2>2. /\ DOMAIN challenge' = DOMAIN challenge \cup {x} /\ x \in DOMAIN challenge
        /\ challenge' \in [DOMAIN challenge' -> TokenState]
        /\ challenge[x] = "unused" /\ challenge'[x] = "expired"
        /\ \A y \in DOMAIN challenge : y # x => challenge'[y] = challenge[y]
    BY <2>1, Tables DEF Unused, TypeOK
  <2>3. DOMAIN challenge' = DOMAIN challenge
    BY <2>2
  <2>4. ChallengesKept
    BY <2>2, <2>3 DEF ChallengesKept
  <2>5. QED
    BY <1>1, <1>4, <1>5, <1>9, <2>4 DEF ExpireChallenge
<1>10. CASE \E x \in Reset : ExpireReset(x)
  <2>1. PICK x \in Unused(reset) : reset' = Put(reset, x, "expired")
    BY <1>10 DEF ExpireReset
  <2>2. /\ DOMAIN reset' = DOMAIN reset \cup {x} /\ x \in DOMAIN reset
        /\ reset' \in [DOMAIN reset' -> TokenState]
        /\ reset[x] = "unused" /\ reset'[x] = "expired"
        /\ \A y \in DOMAIN reset : y # x => reset'[y] = reset[y]
    BY <2>1, Tables DEF Unused, TypeOK
  <2>3. DOMAIN reset' = DOMAIN reset
    BY <2>2
  <2>4. ResetsKept
    BY <2>2, <2>3 DEF ResetsKept
  <2>5. QED
    BY <1>1, <1>3, <1>5, <1>10, <2>4 DEF ExpireReset
<1>11. CASE \E x \in Verification : ExpireVerification(x)
  <2>1. PICK x \in Unused(verification) : verification' = Put(verification, x, "expired")
    BY <1>11 DEF ExpireVerification
  <2>2. /\ DOMAIN verification' = DOMAIN verification \cup {x} /\ x \in DOMAIN verification
        /\ verification' \in [DOMAIN verification' -> TokenState]
    BY <2>1, Tables DEF Unused, TypeOK
  <2>3. DOMAIN verification' = DOMAIN verification
    BY <2>2
  <2>4. VerificationsKept
    BY <2>2, <2>3 DEF VerificationsKept
  <2>5. QED
    BY <1>1, <1>3, <1>4, <1>11, <2>4 DEF ExpireVerification
<1>12. CASE UNCHANGED vars
  BY <1>1, <1>3, <1>4, <1>5, <1>12 DEF vars
<1>13. QED
  BY <1>6, <1>7, <1>8, <1>9, <1>10, <1>11, <1>12 DEF Elsewhere

LEMMA ElsewhereTypes ==
  ASSUME Typed, Elsewhere
  PROVE  Typed'
<1> USE DEF Typed, SessionsKept, ChallengesKept, ResetsKept, VerificationsKept
<1>1. TypeOK'
  BY ElsewhereSteps DEF TypeOK, Status
<1>2. \A r \in Req : Refers(r)' /\ Noted(r)'
  BY ElsewhereSteps DEF RowsRefer, Refers, Noted
<1>3. NothingBefore'
  BY ElsewhereSteps DEF RowsRefer, NothingBefore
<1>4. \A s \in Live' : session'[s].challenge \in DOMAIN challenge' \cup {None}
  BY ElsewhereSteps, Rows
<1>5. QED
  BY <1>1, <1>2, <1>3, <1>4, ElsewhereSteps DEF RowsRefer

LEMMA TypedStep == Typed /\ [Next]_vars => Typed'
BY LoginTypes, EmailTypes, PasswordTypes, AdminTypes, ElsewhereTypes DEF Next, Elsewhere

-----------------------------------------------------------------------------
(* Which step can bring a request where. *)

RequestStep(r) ==
  Login(r) \/ Email(r) \/ Passwords(r) \/ Suspend(r) \/ Expel(r) \/ Abort(r)

LEMMA Stepping ==
  ASSUME Typed, NEW r \in Req, RequestStep(r)
  PROVE  /\ \A s \in Req \ {r} : req'[s] = req[s]
         /\ req'[r].pc = "session" /\ req'[r].via = "password" => LoginRead(r)
         /\ req'[r].token \in Challenge => AnswerChallenge(r) \/ CreateSession(r)
         /\ req[r].token \in Challenge => CreateSession(r) \/ MarkChallenge(r) \/ Abort(r)
         /\ req'[r].pc \in {"sweep", "delete"} /\ req'[r].token \in Reset =>
              ResetCommit(r) \/ SweepSelect(r)
<1> USE DEF Typed
<1> DEFINE Goal == /\ \A s \in Req \ {r} : req'[s] = req[s]
                   /\ req'[r].pc = "session" /\ req'[r].via = "password" => LoginRead(r)
                   /\ req'[r].token \in Challenge => AnswerChallenge(r) \/ CreateSession(r)
                   /\ req[r].token \in Challenge =>
                        CreateSession(r) \/ MarkChallenge(r) \/ Abort(r)
                   /\ req'[r].pc \in {"sweep", "delete"} /\ req'[r].token \in Reset =>
                        ResetCommit(r) \/ SweepSelect(r)
<1>1. Refers(r) /\ (req[r].pc \notin {"session", "mark"} => req[r].token \notin Challenge)
  BY Sorts DEF Refers
<1>2. ASSUME Finish(r), req[r].pc \notin {"session", "mark"} \/ MarkChallenge(r) \/ Abort(r)
      PROVE  Goal
  BY <1>1, <1>2, Ended, RequestTypes, Sorts
<1>3. ASSUME NEW q, q.pc \notin {"session", "sweep", "delete"} \/ q.via # "password",
             q.pc \notin {"sweep", "delete"}, q.token \notin Challenge, Begin(r, q),
             q \in Request
      PROVE  Goal
  BY <1>1, <1>3, RequestTypes DEF Begin
<1>4. CASE Register(r)
  <2>1. PICK q : q = [Idle EXCEPT !.pc = "session", !.via = "register"] /\ Begin(r, q)
    BY <1>4 DEF Register
  <2>2. q \in Request /\ q.pc = "session" /\ q.via = "register" /\ q.token = None
    BY <2>1, IdleRequest DEF Request, PC
  <2>3. QED
    BY <1>3, <2>1, <2>2, Sorts
<1>5. CASE LoginRead(r)
  <2>0. PICK pc \in {"session", "challenge"} :
          Begin(r, [Idle EXCEPT !.pc = pc, !.via = "password", !.read = stint])
    BY <1>5 DEF LoginRead
  <2>1. PICK q :
          /\ q = [Idle EXCEPT !.pc = pc, !.via = "password", !.read = stint]
          /\ pc \in {"session", "challenge"} /\ Begin(r, q)
    BY <2>0
  <2>2. q \in Request /\ q.pc \in {"session", "challenge"} /\ q.token = None
    BY <2>1, IdleRequest DEF Request, PC, TypeOK
  <2>3. req'[r] = q /\ req[r].pc = "idle" /\ \A s \in Req \ {r} : req'[s] = req[s]
    BY <2>1, <2>2, RequestTypes DEF Begin
  <2>4. QED
    BY <1>1, <1>5, <2>2, <2>3, Sorts
<1>6. CASE IssueChallenge(r)
  BY <1>2, <1>6 DEF IssueChallenge
<1>7. CASE AnswerChallenge(r)
  <2>1. PICK x, q :
       /\ x \in Unused(challenge)
       /\ q = [Idle EXCEPT !.pc = "session", !.via = "mfa", !.token = x]
       /\ Begin(r, q)
    BY <1>7 DEF AnswerChallenge
  <2>2. x \in Challenge
    BY <2>1 DEF Unused, TypeOK
  <2>3. q \in Request /\ q.pc = "session" /\ q.via = "mfa" /\ q.token = x
    BY <2>1, <2>2, IdleRequest DEF Request, PC
  <2>4. req'[r] = q /\ req[r].pc = "idle" /\ \A s \in Req \ {r} : req'[s] = req[s]
    BY <2>1, <2>3, RequestTypes DEF Begin
  <2>5. QED
    BY <1>1, <1>7, <2>3, <2>4
<1>8. CASE PasskeyLogin(r)
  <2>1. PICK q : q = [Idle EXCEPT !.pc = "session", !.via = "passkey"] /\ Begin(r, q)
    BY <1>8 DEF PasskeyLogin
  <2>2. q \in Request /\ q.pc = "session" /\ q.via = "passkey" /\ q.token = None
    BY <2>1, IdleRequest DEF Request, PC
  <2>3. QED
    BY <1>3, <2>1, <2>2, Sorts
<1>9. CASE CreateSession(r)
  <2>1. \/ Goto(r, "verifier") \/ Goto(r, "mark") \/ Finish(r)
    BY <1>9 DEF CreateSession
  <2>2. req'[r].pc \in {"verifier", "mark", "idle"} /\ \A s \in Req \ {r} : req'[s] = req[s]
    BY <2>1, Moved, Ended, RequestTypes DEF PC
  <2>3. QED
    BY <1>9, <2>2
<1>10. CASE MarkChallenge(r)
  BY <1>2, <1>10 DEF MarkChallenge
<1>11. CASE IssueVerification(r)
  BY <1>2, <1>11 DEF IssueVerification
<1>12. CASE ResendRead(r)
  <2>1. PICK q : q = [Idle EXCEPT !.pc = "void"] /\ Begin(r, q)
    BY <1>12 DEF ResendRead
  <2>2. q \in Request /\ q.pc = "void" /\ q.token = None
    BY <2>1, IdleRequest DEF Request, PC
  <2>3. QED
    BY <1>3, <2>1, <2>2, Sorts
<1>13. CASE ResendVoid(r)
  <2>1. Goto(r, "verifier") /\ req[r].pc = "void"
    BY <1>13 DEF ResendVoid
  <2>2. /\ req'[r].pc = "verifier" /\ req'[r].token = req[r].token
        /\ \A s \in Req \ {r} : req'[s] = req[s]
    BY <2>1, Moved, RequestTypes DEF PC
  <2>3. QED
    BY <1>1, <2>1, <2>2
<1>14. CASE VerifyRead(r)
  <2>1. PICK x, q :
       /\ x \in Unused(verification)
       /\ q = [Idle EXCEPT !.pc = "verify", !.token = x, !.seen = status] /\ Begin(r, q)
    BY <1>14 DEF VerifyRead
  <2>2. x \in Verification
    BY <2>1 DEF Unused, TypeOK
  <2>3. q \in Request /\ q.pc = "verify" /\ q.token = x
    BY <2>1, <2>2, IdleRequest DEF Request, PC, TypeOK
  <2>4. QED
    BY <1>3, <2>1, <2>2, <2>3, Sorts
<1>15. CASE VerifyCommit(r)
  BY <1>2, <1>15 DEF VerifyCommit
<1>16. CASE ChangeRead(r)
  <2>1. PICK u, q :
       /\ u \in Live
       /\ q = [Idle EXCEPT !.pc = "change", !.spare = u] /\ Begin(r, q)
    BY <1>16 DEF ChangeRead
  <2>2. u \in Session
    BY <2>1 DEF Live, TypeOK
  <2>3. q \in Request /\ q.pc = "change" /\ q.token = None
    BY <2>1, <2>2, IdleRequest DEF Request, PC
  <2>4. QED
    BY <1>3, <2>1, <2>3, Sorts
<1>17. CASE ChangeWrite(r)
  <2>1. /\ req[r].token = None /\ req'[r].pc = "sweep" /\ req'[r].token = None
        /\ \A s \in Req \ {r} : req'[s] = req[s]
    BY <1>1, <1>17, Sweeping DEF ChangeWrite, Refers
  <2>2. QED
    BY <2>1, Sorts
<1>18. CASE RequestReset(r)
  <2>1. PICK n, q :
          /\ n = Cardinality(Unused(reset))
          /\ q = [Idle EXCEPT !.pc = "issue", !.noted = n] /\ Begin(r, q)
    BY <1>18 DEF RequestReset
  <2>2. n \in Nat
    BY <2>1, Rows, FS_Subset, FS_CardinalityType DEF Unused
  <2>3. q \in Request /\ q.pc = "issue" /\ q.token = None
    BY <2>1, <2>2, IdleRequest DEF Request, PC
  <2>4. QED
    BY <1>3, <2>1, <2>3, Sorts
<1>19. CASE IssueReset(r)
  BY <1>2, <1>19 DEF IssueReset
<1>20. CASE ResetRead(r)
  <2>1. PICK x, q :
       /\ x \in Unused(reset)
       /\ q = [Idle EXCEPT !.pc = "reset", !.token = x] /\ Begin(r, q)
    BY <1>20 DEF ResetRead
  <2>2. x \in Reset
    BY <2>1 DEF Unused, TypeOK
  <2>3. q \in Request /\ q.pc = "reset" /\ q.token = x
    BY <2>1, <2>2, IdleRequest DEF Request, PC
  <2>4. QED
    BY <1>3, <2>1, <2>2, <2>3, Sorts
<1>21. CASE ResetCommit(r)
  <2>1. /\ req[r].token \in Reset /\ req'[r].pc = "sweep" /\ req'[r].token = req[r].token
        /\ \A s \in Req \ {r} : req'[s] = req[s]
    BY <1>1, <1>21, Sweeping DEF ResetCommit, Refers
  <2>2. QED
    BY <1>21, <2>1, Sorts
<1>22. CASE SweepSelect(r)
  <2>1. Finish(r) \/ Goto(r, "delete")
    BY <1>22 DEF SweepSelect
  <2>2. req[r].token \in Reset \cup {None}
    BY <1>1, <1>22 DEF SweepSelect, Refers
  <2>3. /\ req'[r].pc \in {"idle", "delete"} /\ req'[r].token \in {None, req[r].token}
        /\ \A s \in Req \ {r} : req'[s] = req[s]
    BY <2>1, Moved, Ended, RequestTypes DEF PC
  <2>4. QED
    BY <1>22, <2>2, <2>3, Sorts
<1>23. CASE SweepDelete(r)
  BY <1>2, <1>23 DEF SweepDelete
<1>24. CASE Suspend(r)
  <2>1. PICK q : q = [Idle EXCEPT !.pc = "expel", !.noted = stint + 1] /\ Begin(r, q)
    BY <1>24 DEF Suspend
  <2>2. stint + 1 \in Nat
    BY Rows
  <2>3. q \in Request /\ q.pc = "expel" /\ q.token = None
    BY <2>1, <2>2, IdleRequest DEF Request, PC
  <2>4. QED
    BY <1>3, <2>1, <2>3, Sorts
<1>25. CASE Expel(r)
  BY <1>2, <1>25 DEF Expel
<1>26. CASE Abort(r)
  BY <1>2, <1>26 DEF Abort
<1>27. Goal
  BY <1>4, <1>5, <1>6, <1>7, <1>8, <1>9, <1>10, <1>11, <1>12, <1>13, <1>14, <1>15, <1>16,
     <1>17, <1>18, <1>19, <1>20, <1>21, <1>22, <1>23, <1>24, <1>25, <1>26
  DEF RequestStep, Login, Email, Passwords
<1>28. QED
  BY <1>27

-----------------------------------------------------------------------------
(* Revocations are total, and who is suspended stays out. *)

(* A session row is inserted by CreateSession alone, and never changed.    *)
LEMMA SessionSteps ==
  ASSUME Typed, [Next]_vars
  PROVE  /\ (\E r \in Req : CreateSession(r)) \/ SessionsKept
         /\ UNCHANGED swept \/ \E r \in Req : SweepSelect(r) \/ SweepDelete(r)
         /\ UNCHANGED expelled \/ \E r \in Req : Expel(r)
<1> USE DEF Typed, users, tokens, history
<1>1. UNCHANGED session => SessionsKept
  BY DEF TypeOK, Live, SessionsKept
<1>2. ASSUME NEW S, Delete(S) PROVE SessionsKept
  BY <1>2, Deleted DEF SessionsKept
<1>3. ASSUME Elsewhere
      PROVE  SessionsKept /\ UNCHANGED <<swept, expelled>>
  BY <1>3, ElsewhereSteps
<1>4. ASSUME NEW r \in Req, Login(r)
      PROVE  (CreateSession(r) \/ SessionsKept) /\ UNCHANGED <<swept, expelled>>
  BY <1>1, <1>4
  DEF Login, Register, LoginRead, IssueChallenge, AnswerChallenge, PasskeyLogin,
      CreateSession, MarkChallenge
<1>5. ASSUME NEW r \in Req, Email(r)
      PROVE  SessionsKept /\ UNCHANGED <<swept, expelled>>
  BY <1>1, <1>5
  DEF Email, IssueVerification, ResendRead, ResendVoid, VerifyRead, VerifyCommit
<1>6. ASSUME NEW r \in Req, Passwords(r)
      PROVE  /\ SessionsKept /\ UNCHANGED expelled
             /\ UNCHANGED swept \/ SweepSelect(r) \/ SweepDelete(r)
  BY <1>1, <1>2, <1>6
  DEF Passwords, ChangeRead, ChangeWrite, RequestReset, IssueReset, ResetRead,
      ResetCommit, SweepSelect, SweepDelete
<1>7. ASSUME NEW r \in Req, Suspend(r) \/ Expel(r) \/ Abort(r)
      PROVE  SessionsKept /\ UNCHANGED swept /\ (UNCHANGED expelled \/ Expel(r))
  BY <1>1, <1>2, <1>7 DEF Suspend, Expel, Abort
<1>8. QED
  BY <1>3, <1>4, <1>5, <1>6, <1>7 DEF Next, Elsewhere

(* What a new session says of when it was inserted.                        *)
LEMMA CreatedSession ==
  ASSUME Typed, NEW r \in Req, CreateSession(r)
  PROVE  /\ UNCHANGED <<users, tokens, history>> /\ req[r].pc = "session"
         /\ \E s \in Session \ DOMAIN session :
              /\ Live' \subseteq Live \cup {s} /\ s \notin Live
              /\ \A u \in Live : session'[u] = session[u]
              /\ session'[s].via = req[r].via /\ session'[s].since = password
              /\ session'[s].stint = stint /\ session'[s].read = req[r].read
              /\ session'[s].challenge = req[r].token
              /\ session'[s].suspended => status = "suspended"
<1>1. PICK s, row :
     /\ s \in Session \ DOMAIN session
     /\ row = [via |-> req[r].via, since |-> password, stint |-> stint,
               suspended |-> status = "suspended", read |-> req[r].read,
               challenge |-> req[r].token]
     /\ session' = Put(session, s, row)
  BY DEF CreateSession
<1>2. req[r] \in Request /\ Refers(r) /\ req[r].pc = "session"
  BY Sorts DEF CreateSession
<1>3. row \in SessionRow
  BY <1>1, <1>2 DEF SessionRow, Request, Refers, Typed, TypeOK
<1>4. /\ Live' \subseteq Live \cup {s} /\ s \notin Live /\ session'[s] = row
      /\ \A u \in Live : session'[u] = session[u]
  BY <1>1, <1>3, Inserted DEF Typed
<1>5. row.suspended => status = "suspended"
  BY <1>1
<1>6. QED
  BY <1>1, <1>2, <1>4, <1>5 DEF CreateSession

LEMMA SweepStep == Typed /\ SweepIsTotal /\ [Next]_vars => SweepIsTotal'
<1> SUFFICES ASSUME Typed, SweepIsTotal, [Next]_vars PROVE SweepIsTotal'
  OBVIOUS
<1>1. ASSUME NEW r \in Req, CreateSession(r) PROVE SweepIsTotal'
  <2>1. PICK s \in Session \ DOMAIN session :
          /\ Live' \subseteq Live \cup {s} /\ \A u \in Live : session'[u] = session[u]
          /\ session'[s].since = password
    BY <1>1, CreatedSession
  <2>2. swept' = swept /\ \A w \in swept : w.password \in Nat /\ w.password <= password
    BY <1>1, Rows, BoundAssumption DEF CreateSession, history, Typed, TypeOK
  <2>3. \A w \in swept : ~(session'[s].since < w.password)
    BY <2>1, <2>2, Rows
  <2>4. QED
    BY <2>1, <2>2, <2>3 DEF SweepIsTotal
<1>2. CASE SessionsKept /\ UNCHANGED swept
  BY <1>2 DEF SweepIsTotal, SessionsKept
<1>3. ASSUME NEW r \in Req, SweepSelect(r) \/ SweepDelete(r), SessionsKept PROVE SweepIsTotal'
  <2>1. \/ swept' = swept
        \/ /\ swept' = swept \cup {Revoked(r)}
           /\ Live' \subseteq {req[r].spare}
    <3>1. CASE SweepSelect(r)
      BY <3>1 DEF SweepSelect, Revocable, Live
    <3>2. CASE SweepDelete(r)
      <4>1. Live' \subseteq Live \ Revocable(r)
        BY <3>2, Deleted DEF SweepDelete, Typed
      <4>2. QED
        BY <3>2, <4>1 DEF SweepDelete, Revocable
    <3>3. QED
      BY <1>3, <3>1, <3>2
  <2>2. Revoked(r).spare = req[r].spare
    BY DEF Revoked
  <2>3. QED
    BY <1>3, <2>1, <2>2 DEF SweepIsTotal, SessionsKept
<1>4. QED
  BY <1>1, <1>2, <1>3, SessionSteps

LEMMA ExpelStep == Typed /\ ExpelIsTotal /\ [Next]_vars => ExpelIsTotal'
<1> SUFFICES ASSUME Typed, ExpelIsTotal, [Next]_vars PROVE ExpelIsTotal'
  OBVIOUS
<1>1. ASSUME NEW r \in Req, CreateSession(r) PROVE ExpelIsTotal'
  <2>1. PICK s \in Session \ DOMAIN session :
          /\ Live' \subseteq Live \cup {s} /\ \A u \in Live : session'[u] = session[u]
          /\ session'[s].stint = stint
    BY <1>1, CreatedSession
  <2>2. expelled' = expelled /\ \A n \in expelled : n \in Nat /\ n <= stint
    BY <1>1, Rows, BoundAssumption DEF CreateSession, history, Typed, TypeOK
  <2>3. \A n \in expelled : session'[s].stint >= n
    BY <2>1, <2>2, Rows
  <2>4. QED
    BY <2>1, <2>2, <2>3 DEF ExpelIsTotal
<1>2. CASE SessionsKept /\ UNCHANGED expelled
  BY <1>2 DEF ExpelIsTotal, SessionsKept
<1>3. ASSUME NEW r \in Req, Expel(r) PROVE ExpelIsTotal'
  <2>1. Live' = {}
    BY <1>3, Deleted DEF Expel, Typed
  <2>2. QED
    BY <2>1 DEF ExpelIsTotal
<1>4. QED
  BY <1>1, <1>2, <1>3, SessionSteps

(* The account's status, suspensions and the administrator's word.         *)
LEMMA StatusSteps ==
  ASSUME Typed, [Next]_vars
  PROVE  \/ UNCHANGED <<status, stint, decision>>
         \/ /\ status = "absent" /\ status' = "pending_verification"
            /\ UNCHANGED <<stint, decision>>
         \/ \E r \in Req : VerifyCommit(r)
         \/ \E r \in Req : Suspend(r)
         \/ UNCHANGED stint /\ status' = "active" /\ decision' = "active"
<1> USE DEF users, history
<1>1. ASSUME NEW r \in Req, Login(r)
      PROVE  UNCHANGED <<stint, decision>> /\ \/ UNCHANGED status
                                              \/ /\ status = "absent"
                                                 /\ status' = "pending_verification"
  BY <1>1
  DEF Login, Register, LoginRead, IssueChallenge, AnswerChallenge, PasskeyLogin,
      CreateSession, MarkChallenge
<1>2. ASSUME NEW r \in Req, Email(r)
      PROVE  UNCHANGED <<status, stint, decision>> \/ VerifyCommit(r)
  BY <1>2 DEF Email, IssueVerification, ResendRead, ResendVoid, VerifyRead
<1>3. ASSUME NEW r \in Req, Passwords(r)
      PROVE  UNCHANGED <<status, stint, decision>>
  BY <1>3
  DEF Passwords, ChangeRead, ChangeWrite, RequestReset, IssueReset, ResetRead,
      ResetCommit, SweepSelect, SweepDelete
<1>4. ASSUME NEW r \in Req, Expel(r) \/ Abort(r)
      PROVE  UNCHANGED <<status, stint, decision>>
  BY <1>4 DEF Expel, Abort
<1>5. ASSUME Elsewhere
      PROVE  \/ UNCHANGED <<status, stint, decision>>
             \/ UNCHANGED stint /\ status' = "active" /\ decision' = "active"
  BY <1>5, ElsewhereSteps
<1>6. QED
  BY <1>1, <1>2, <1>3, <1>4, <1>5 DEF Next, Elsewhere

LEMMA LoginsStep == Typed /\ LoginsAsked /\ [Next]_vars => LoginsAsked'
<1> SUFFICES ASSUME Typed, LoginsAsked, [Next]_vars,
                    NEW r \in Req, req'[r].pc = "session", req'[r].via = "password"
             PROVE  req'[r].read <= stint' /\ (status' = "suspended" => req'[r].read < stint')
  BY DEF LoginsAsked
<1>1. CASE LoginRead(r)
  <2>0. PICK pc \in {"session", "challenge"} :
          Begin(r, [Idle EXCEPT !.pc = pc, !.via = "password", !.read = stint])
    BY <1>1 DEF LoginRead
  <2>1. PICK q :
          /\ q = [Idle EXCEPT !.pc = pc, !.via = "password", !.read = stint]
          /\ pc \in {"session", "challenge"} /\ Begin(r, q)
    BY <2>0
  <2>2. q.read = stint /\ q \in Request
    BY <2>1, IdleRequest DEF Request, PC, Typed, TypeOK
  <2>3. req'[r] = q
    BY <2>1, <2>2, RequestTypes DEF Typed
  <2>4. UNCHANGED <<status, stint>> /\ status # "suspended" /\ stint \in Nat
    BY <1>1, Rows DEF LoginRead, users, history
  <2>5. QED
    BY <2>2, <2>3, <2>4
<1>2. CASE ~LoginRead(r)
  <2>1. req'[r] = req[r]
    BY <1>2, Stepping, ElsewhereSteps DEF Next, Elsewhere, RequestStep
  <2>2. /\ req[r].read <= stint /\ (status = "suspended" => req[r].read < stint)
        /\ req[r].read \in Nat /\ stint \in Nat
    BY <2>1, Rows, Sorts, BoundAssumption DEF LoginsAsked, Request
  <2>3. ASSUME NEW s \in Req, VerifyCommit(s)
        PROVE  UNCHANGED stint /\ status' \in {status, "active"}
    BY <2>3 DEF VerifyCommit
  <2>4. ASSUME NEW s \in Req, Suspend(s) PROVE stint' = stint + 1
    BY <2>4 DEF Suspend
  <2>5. QED
    BY <2>1, <2>2, <2>3, <2>4, StatusSteps
<1>3. QED
  BY <1>1, <1>2

LEMMA LoginHoldsStep ==
  Typed /\ LoginsAsked /\ NoPasswordLoginWhileSuspended /\ [Next]_vars
    => NoPasswordLoginWhileSuspended'
<1> SUFFICES ASSUME Typed, LoginsAsked, NoPasswordLoginWhileSuspended, [Next]_vars
             PROVE  NoPasswordLoginWhileSuspended'
  OBVIOUS
<1>1. ASSUME NEW r \in Req, CreateSession(r) PROVE NoPasswordLoginWhileSuspended'
  <2>1. PICK s \in Session \ DOMAIN session :
          /\ Live' \subseteq Live \cup {s} /\ \A u \in Live : session'[u] = session[u]
          /\ session'[s].via = req[r].via /\ session'[s].stint = stint
          /\ session'[s].read = req[r].read
          /\ session'[s].suspended => status = "suspended"
    BY <1>1, CreatedSession
  <2>2. req[r].pc = "session"
    BY <1>1 DEF CreateSession
  <2>3. session'[s].via = "password" /\ session'[s].suspended
          => session'[s].read < session'[s].stint
    BY <2>1, <2>2 DEF LoginsAsked
  <2>4. QED
    BY <2>1, <2>3 DEF NoPasswordLoginWhileSuspended
<1>2. CASE SessionsKept
  BY <1>2 DEF NoPasswordLoginWhileSuspended, SessionsKept
<1>3. QED
  BY <1>1, <1>2, SessionSteps

(* The history of tokens used side by side forgets verifications only, and *)
(* those when an administrator speaks.                                     *)
LEMMA OverlapSteps ==
  ASSUME Typed, [Next]_vars
  PROVE  /\ \A x \in overlapped : x \notin Verification => x \in overlapped'
         /\ overlapped \subseteq overlapped' \/ status' = decision'
<1> USE DEF users, history
<1>1. ASSUME NEW r \in Req, Login(r) PROVE overlapped \subseteq overlapped'
  BY <1>1
  DEF Login, Register, LoginRead, IssueChallenge, AnswerChallenge, PasskeyLogin,
      CreateSession, MarkChallenge
<1>2. ASSUME NEW r \in Req, Email(r) PROVE overlapped \subseteq overlapped'
  BY <1>2 DEF Email, IssueVerification, ResendRead, ResendVoid, VerifyRead, VerifyCommit
<1>3. ASSUME NEW r \in Req, Passwords(r) PROVE overlapped \subseteq overlapped'
  BY <1>3
  DEF Passwords, ChangeRead, ChangeWrite, RequestReset, IssueReset, ResetRead,
      ResetCommit, SweepSelect, SweepDelete
<1>4. ASSUME NEW r \in Req, Expel(r) \/ Abort(r) PROVE overlapped \subseteq overlapped'
  BY <1>4 DEF Expel, Abort
<1>5. ASSUME NEW r \in Req, Suspend(r)
      PROVE  overlapped' = overlapped \ Verification /\ status' = decision'
  BY <1>5 DEF Suspend
<1>6. ASSUME Elsewhere
      PROVE  \/ overlapped' = overlapped
             \/ overlapped' = overlapped \ Verification /\ status' = decision'
  BY <1>6, ElsewhereSteps
<1>7. QED
  BY <1>1, <1>2, <1>3, <1>4, <1>5, <1>6 DEF Next, Elsewhere

LEMMA DecisionStep == Typed /\ DecisionStands /\ [Next]_vars => DecisionStands'
<1> SUFFICES ASSUME Typed, DecisionStands, [Next]_vars PROVE DecisionStands'
  OBVIOUS
<1>1. CASE UNCHANGED <<status, stint, decision>>
  BY <1>1, OverlapSteps DEF DecisionStands
<1>2. CASE status = "absent" /\ UNCHANGED decision
  BY <1>2 DEF DecisionStands, Typed, RowsRefer, NothingBefore
<1>3. ASSUME NEW r \in Req, VerifyCommit(r) PROVE DecisionStands'
  <2>1. req[r].token \in Verification
    BY <1>3, Sorts DEF VerifyCommit, Refers
  <2>2. /\ UNCHANGED decision /\ overlapped \subseteq overlapped'
        /\ \/ UNCHANGED status
           \/ status' = "active" /\ status = "pending_verification"
           \/ req[r].token \in overlapped'
    BY <1>3 DEF VerifyCommit
  <2>3. decision \in {None, "active", "suspended"}
    BY DEF Typed, TypeOK
  <2>4. QED
    BY <2>1, <2>2, <2>3 DEF DecisionStands
<1>4. CASE status' = decision'
  BY <1>4 DEF DecisionStands
<1>5. ASSUME NEW r \in Req, Suspend(r) PROVE status' = decision'
  BY <1>5 DEF Suspend
<1>6. QED
  BY <1>1, <1>2, <1>3, <1>4, <1>5, StatusSteps

-----------------------------------------------------------------------------
(* One-time tokens are used once. *)

Sweepers(x) == {r \in Req : req[r].pc \in {"sweep", "delete"} /\ req[r].token = x}
Through(x) == {w \in swept : w.token = x}
Answering(x) == {r \in Req : req[r].token = x}
SessionsOf(x) == {s \in Live : session[s].challenge = x}

(* The tables of reset tokens and of challenges.                           *)
LEMMA ResetSteps ==
  ASSUME Typed, [Next]_vars
  PROVE  \/ ResetsKept
         \/ \E r \in Req : IssueReset(r)
         \/ \E r \in Req : ResetCommit(r)
<1> USE DEF tokens
<1>1. UNCHANGED reset => ResetsKept
  BY DEF Typed, TypeOK, ResetsKept
<1>2. ASSUME NEW r \in Req, Login(r) \/ Email(r) PROVE UNCHANGED reset
  BY <1>2
  DEF Login, Register, LoginRead, IssueChallenge, AnswerChallenge, PasskeyLogin,
      CreateSession, MarkChallenge, Email, IssueVerification, ResendRead, ResendVoid,
      VerifyRead, VerifyCommit
<1>3. ASSUME NEW r \in Req, Passwords(r)
      PROVE  UNCHANGED reset \/ IssueReset(r) \/ ResetCommit(r)
  BY <1>3
  DEF Passwords, ChangeRead, ChangeWrite, RequestReset, ResetRead, SweepSelect, SweepDelete
<1>4. ASSUME NEW r \in Req, Suspend(r) \/ Expel(r) \/ Abort(r) PROVE UNCHANGED reset
  BY <1>4 DEF Suspend, Expel, Abort
<1>5. Elsewhere => ResetsKept
  BY ElsewhereSteps
<1>6. QED
  BY <1>1, <1>2, <1>3, <1>4, <1>5 DEF Next, Elsewhere

LEMMA ChallengeSteps ==
  ASSUME Typed, [Next]_vars
  PROVE  \/ ChallengesKept
         \/ \E r \in Req : IssueChallenge(r)
         \/ \E r \in Req : MarkChallenge(r)
<1> USE DEF tokens
<1>1. UNCHANGED challenge => ChallengesKept
  BY DEF Typed, TypeOK, ChallengesKept
<1>2. ASSUME NEW r \in Req, Login(r)
      PROVE  UNCHANGED challenge \/ IssueChallenge(r) \/ MarkChallenge(r)
  BY <1>2 DEF Login, Register, LoginRead, AnswerChallenge, PasskeyLogin, CreateSession
<1>3. ASSUME NEW r \in Req, Email(r) PROVE UNCHANGED challenge
  BY <1>3 DEF Email, IssueVerification, ResendRead, ResendVoid, VerifyRead, VerifyCommit
<1>4. ASSUME NEW r \in Req, Passwords(r) PROVE UNCHANGED challenge
  BY <1>4
  DEF Passwords, ChangeRead, ChangeWrite, RequestReset, IssueReset, ResetRead,
      ResetCommit, SweepSelect, SweepDelete
<1>5. ASSUME NEW r \in Req, Suspend(r) \/ Expel(r) \/ Abort(r) PROVE UNCHANGED challenge
  BY <1>5 DEF Suspend, Expel, Abort
<1>6. Elsewhere => ChallengesKept
  BY ElsewhereSteps
<1>7. QED
  BY <1>1, <1>2, <1>3, <1>4, <1>5, <1>6 DEF Next, Elsewhere

LEMMA ResetKept ==
  ASSUME NEW x, ResetOnceEach(x), Sweepers(x)' \subseteq Sweepers(x), Through(x)' = Through(x),
         reset'[x] = reset[x] \/ reset[x] # "used"
  PROVE  ResetOnceEach(x)'
BY DEF ResetOnceEach, Sweepers, Through

LEMMA ResetOnceStep ==
  ASSUME Typed, OnceEach, [Next]_vars,
         NEW x \in DOMAIN reset', x \notin overlapped'
  PROVE  ResetOnceEach(x)'
<1> USE DEF users, tokens, history
<1>1. \A y \in DOMAIN reset : y \in Reset /\ (y \notin overlapped' => ResetOnceEach(y))
  BY OverlapSteps, Sorts DEF OnceEach, Typed, TypeOK
<1>2. CASE \E r \in Req : IssueReset(r)
  <2>1. PICK r \in Req, t \in Reset \ DOMAIN reset :
          /\ Finish(r) /\ UNCHANGED swept /\ req[r].pc = "issue"
          /\ reset' = Put(reset, t, "unused")
    BY <1>2 DEF IssueReset
  <2>2. /\ DOMAIN reset' = DOMAIN reset \cup {t} /\ reset'[t] = "unused"
        /\ \A y \in DOMAIN reset : y # t => reset'[y] = reset[y]
    BY <2>1, Tables DEF Typed
  <2>3. /\ req'[r].pc = "idle" /\ \A s \in Req \ {r} : req'[s] = req[s]
    BY <2>1, Ended, RequestTypes DEF Typed
  <2>4. Sweepers(x)' \subseteq Sweepers(x) /\ Through(x)' = Through(x)
    BY <2>1, <2>3 DEF Sweepers, Through
  <2>5. CASE x = t
    <3>1. Sweepers(x) = {}
      BY <2>1, <2>5, Sorts DEF Sweepers, Refers
    <3>2. Through(x) = {}
      BY <2>1, <2>5, Rows, Sorts DEF Through
    <3>3. QED
      BY <2>2, <2>4, <2>5, <3>1, <3>2 DEF ResetOnceEach, Sweepers, Through
  <2>6. CASE x # t
    BY <1>1, <2>1, <2>2, <2>4, <2>6, ResetKept
  <2>7. QED
    BY <2>5, <2>6
<1>3. CASE \E r \in Req : ResetCommit(r)
  <2>1. PICK r \in Req : ResetCommit(r)
    BY <1>3
  <2>2. PICK t \in Reset : t = req[r].token
    BY <2>1, Sorts DEF ResetCommit, Refers
  <2>3. /\ req[r].pc = "reset" /\ UNCHANGED swept /\ reset' = Put(reset, t, "used")
        /\ overlapped' = IF reset[t] = "used" THEN overlapped \cup {t} ELSE overlapped
        /\ t \in DOMAIN reset
    BY <2>1, <2>2, Sorts DEF ResetCommit, Refers
  <2>4. /\ req'[r].pc = "sweep" /\ req'[r].token = t
        /\ \A s \in Req \ {r} : req'[s] = req[s]
    BY <2>1, <2>2, Sweeping DEF ResetCommit
  <2>5. /\ DOMAIN reset' = DOMAIN reset \cup {t} /\ reset'[t] = "used"
        /\ \A y \in DOMAIN reset : y # t => reset'[y] = reset[y]
    BY <2>3, Tables DEF Typed
  <2>6. Through(x)' = Through(x) /\ ResetOnceEach(x)
    BY <1>1, <2>3, <2>5 DEF Through
  <2>7. CASE x = t
    <3>1. Sweepers(x) = {} /\ Through(x) = {}
      BY <2>3, <2>6, <2>7 DEF ResetOnceEach, Sweepers, Through
    <3>2. Sweepers(x)' = {r}
      BY <2>4, <2>7, <3>1 DEF Sweepers
    <3>3. QED
      BY <2>5, <2>6, <2>7, <3>1, <3>2 DEF ResetOnceEach, Sweepers, Through
  <2>8. CASE x # t
    <3>1. Sweepers(x)' = Sweepers(x)
      BY <2>2, <2>4, <2>8 DEF Sweepers
    <3>2. QED
      BY <2>5, <2>6, <2>8, <3>1, ResetKept
  <2>9. QED
    BY <2>7, <2>8
<1>4. CASE \E r \in Req : SweepSelect(r) \/ SweepDelete(r)
  <2>1. PICK r \in Req : SweepSelect(r) \/ SweepDelete(r)
    BY <1>4
  <2>2. /\ req[r].pc \in {"sweep", "delete"} /\ UNCHANGED reset
        /\ \/ UNCHANGED swept /\ Goto(r, "delete")
           \/ swept' = swept \cup {Revoked(r)} /\ Finish(r)
    BY <2>1 DEF SweepSelect, SweepDelete
  <2>3. ResetOnceEach(x) /\ x \in DOMAIN reset
    BY <1>1, <2>2
  <2>4. CASE UNCHANGED swept /\ Goto(r, "delete")
    <3>1. /\ req'[r].pc = "delete" /\ req'[r].token = req[r].token
          /\ \A s \in Req \ {r} : req'[s] = req[s]
      BY <2>4, Moved, RequestTypes DEF Typed, PC
    <3>2. Sweepers(x)' = Sweepers(x) /\ Through(x)' = Through(x)
      BY <2>2, <2>4, <3>1 DEF Sweepers, Through
    <3>3. QED
      BY <2>2, <2>3, <3>2, ResetKept
  <2>5. CASE swept' = swept \cup {Revoked(r)} /\ Finish(r)
    <3>1. /\ req'[r].pc = "idle" /\ \A s \in Req \ {r} : req'[s] = req[s]
          /\ Revoked(r).token = req[r].token
      BY <2>5, Ended, RequestTypes DEF Typed, Revoked
    <3>2. CASE req[r].token = x
      <4>1. r \in Sweepers(x)
        BY <2>2, <3>2 DEF Sweepers
      <4>2. Sweepers(x) = {r} /\ Through(x) = {} /\ reset[x] = "used"
        BY <2>3, <4>1 DEF ResetOnceEach, Sweepers, Through
      <4>3. Sweepers(x)' = {} /\ Through(x)' = {Revoked(r)}
        BY <2>5, <3>1, <3>2, <4>2 DEF Sweepers, Through
      <4>4. QED
        BY <2>2, <4>2, <4>3 DEF ResetOnceEach, Sweepers, Through
    <3>3. CASE req[r].token # x
      <4>1. Sweepers(x)' = Sweepers(x) /\ Through(x)' = Through(x)
        BY <2>5, <3>1, <3>3 DEF Sweepers, Through
      <4>2. QED
        BY <2>2, <2>3, <4>1, ResetKept
    <3>4. QED
      BY <3>2, <3>3
  <2>6. QED
    BY <2>2, <2>4, <2>5
<1>5. CASE \A r \in Req : ~(IssueReset(r) \/ ResetCommit(r) \/ SweepSelect(r) \/ SweepDelete(r))
  <2>1. ResetsKept /\ UNCHANGED swept
    BY <1>5, ResetSteps, SessionSteps
  <2>2. /\ x \in DOMAIN reset /\ x \in Reset /\ ResetOnceEach(x)
        /\ reset'[x] = reset[x] \/ reset[x] = "unused"
    BY <1>1, <2>1 DEF ResetsKept
  <2>3. \A s \in Req : req'[s] = req[s] \/ ~(req'[s].pc \in {"sweep", "delete"} /\ req'[s].token = x)
    BY <1>5, <2>2, Stepping, ElsewhereSteps DEF Next, Elsewhere, RequestStep
  <2>4. Sweepers(x)' \subseteq Sweepers(x) /\ Through(x)' = Through(x)
    BY <2>1, <2>3 DEF Sweepers, Through
  <2>5. QED
    BY <2>2, <2>4, ResetKept
<1>6. QED
  BY <1>2, <1>3, <1>4, <1>5

LEMMA ChallengeKept ==
  ASSUME NEW x, ChallengeOnceEach(x), Answering(x)' = Answering(x),
         \A s \in Answering(x) : req'[s].pc = "mark" <=> req[s].pc = "mark",
         SessionsOf(x)' \subseteq SessionsOf(x),
         challenge'[x] = challenge[x] \/ challenge'[x] # "unused"
  PROVE  ChallengeOnceEach(x)'
BY DEF ChallengeOnceEach, Answering, SessionsOf

LEMMA ChallengeOnceStep ==
  ASSUME Typed, OnceEach, [Next]_vars,
         NEW x \in DOMAIN challenge', x \notin overlapped'
  PROVE  ChallengeOnceEach(x)'
<1> USE DEF users, tokens, history
<1>1. \A y \in DOMAIN challenge : y \in Challenge /\ (y \notin overlapped' => ChallengeOnceEach(y))
  BY OverlapSteps, Sorts DEF OnceEach, Typed, TypeOK
<1>2. UNCHANGED session => SessionsOf(x)' = SessionsOf(x)
  BY DEF SessionsOf, Live
<1>3. CASE \E r \in Req : IssueChallenge(r)
  <2>1. PICK r \in Req, t \in Challenge \ DOMAIN challenge :
          /\ Finish(r) /\ UNCHANGED session /\ req[r].pc = "challenge"
          /\ challenge' = Put(challenge, t, "unused")
    BY <1>3 DEF IssueChallenge
  <2>2. /\ DOMAIN challenge' = DOMAIN challenge \cup {t}
        /\ \A y \in DOMAIN challenge : y # t => challenge'[y] = challenge[y]
    BY <2>1, Tables DEF Typed
  <2>3. /\ req'[r].token = None /\ req[r].token \notin Challenge
        /\ \A s \in Req \ {r} : req'[s] = req[s]
    BY <2>1, Ended, RequestTypes, Sorts DEF Typed, Refers
  <2>4. x \in Challenge /\ x # None
    BY <1>1, <2>1, <2>2, Sorts
  <2>5. Answering(x)' = Answering(x) /\ r \notin Answering(x) /\ SessionsOf(x)' = SessionsOf(x)
    BY <1>2, <2>1, <2>3, <2>4 DEF Answering
  <2>6. CASE x = t
    <3>1. Answering(x) = {} /\ SessionsOf(x) = {}
      BY <2>1, <2>4, <2>6, Rows, Sorts DEF Answering, SessionsOf, Refers
    <3>2. QED
      BY <2>5, <3>1 DEF ChallengeOnceEach, Answering, SessionsOf
  <2>7. CASE x # t
    <3>1. \A s \in Answering(x) : req'[s] = req[s]
      BY <2>3, <2>5 DEF Answering
    <3>2. QED
      BY <1>1, <2>2, <2>5, <2>7, <3>1, ChallengeKept
  <2>8. QED
    BY <2>6, <2>7
<1>4. CASE \E r \in Req : AnswerChallenge(r)
  <2>1. PICK r, t, q :
       /\ r \in Req /\ t \in Unused(challenge)
       /\ q = [Idle EXCEPT !.pc = "session", !.via = "mfa", !.token = t]
       /\ Begin(r, q) /\ UNCHANGED <<session, challenge>>
       /\ overlapped' = IF \E s \in Req : req[s].via = "mfa" /\ req[s].token = t
                        THEN overlapped \cup {t} ELSE overlapped
    BY <1>4 DEF AnswerChallenge
  <2>2. t \in DOMAIN challenge /\ t \in Challenge /\ challenge[t] = "unused"
    BY <2>1, <1>1 DEF Unused
  <2>3. q \in Request /\ q.pc = "session" /\ q.token = t
    BY <2>1, <2>2, IdleRequest DEF Request, PC
  <2>4. /\ req'[r] = q /\ \A s \in Req \ {r} : req'[s] = req[s]
        /\ req[r].token \notin Challenge
    BY <2>1, <2>3, RequestTypes, Sorts DEF Begin, Refers, Typed
  <2>5. x \in Challenge /\ ChallengeOnceEach(x) /\ SessionsOf(x)' = SessionsOf(x)
    BY <1>1, <1>2, <2>1
  <2>6. CASE x = t
    <3>1. Answering(x) = {}
      BY <2>1, <2>2, <2>6, Sorts DEF Answering, Refers
    <3>2. SessionsOf(x) = {}
      BY <2>2, <2>5, <2>6, <3>1 DEF ChallengeOnceEach, Answering, SessionsOf
    <3>3. Answering(x)' = {r}
      BY <2>1, <2>3, <2>4, <2>6, <3>1 DEF Answering
    <3>4. QED
      BY <2>3, <2>4, <2>5, <3>2, <3>3 DEF ChallengeOnceEach, Answering, SessionsOf
  <2>7. CASE x # t
    <3>1. Answering(x)' = Answering(x) /\ r \notin Answering(x)
      BY <2>3, <2>4, <2>5, <2>7 DEF Answering
    <3>2. \A s \in Answering(x) : req'[s] = req[s]
      BY <2>4, <3>1 DEF Answering
    <3>3. QED
      BY <2>1, <2>5, <3>1, <3>2, ChallengeKept
  <2>8. QED
    BY <2>6, <2>7
<1>5. CASE \E r \in Req : CreateSession(r)
  <2>1. PICK r \in Req : CreateSession(r)
    BY <1>5
  <2>2. PICK s \in Session \ DOMAIN session :
          /\ Live' \subseteq Live \cup {s} /\ \A u \in Live : session'[u] = session[u]
          /\ session'[s].challenge = req[r].token
    BY <2>1, CreatedSession
  <2>3. /\ UNCHANGED <<challenge, overlapped>> /\ req[r].pc = "session"
        /\ \/ req[r].via = "register" /\ Goto(r, "verifier")
           \/ req[r].via = "mfa" /\ Goto(r, "mark")
           \/ req[r].via # "mfa" /\ Finish(r)
    BY <2>1 DEF CreateSession
  <2>4. x \in Challenge /\ ChallengeOnceEach(x)
    BY <1>1, <2>3
  <2>5. /\ req[r].token \in Challenge => req[r].via = "mfa"
        /\ req[r].via = "mfa" => req[r].token \in Challenge
    BY <2>3, Sorts DEF Refers
  <2>6. /\ \A u \in Req \ {r} : req'[u] = req[u]
        /\ req[r].token \in Challenge => req'[r].pc = "mark" /\ req'[r].token = req[r].token
        /\ req[r].token \notin Challenge => req'[r].token \notin Challenge
    BY <2>3, <2>5, Moved, Ended, RequestTypes, Sorts DEF Typed, PC
  <2>7. CASE req[r].token = x
    <3>1. Answering(x) = {r} /\ SessionsOf(x) = {}
      BY <2>3, <2>4, <2>7 DEF ChallengeOnceEach, Answering, SessionsOf
    <3>2. Answering(x)' = {r}
      BY <2>4, <2>6, <2>7, <3>1 DEF Answering
    <3>3. SessionsOf(x)' \subseteq {s}
      BY <2>2, <3>1 DEF SessionsOf
    <3>4. QED
      BY <2>4, <2>6, <2>7, <3>2, <3>3 DEF ChallengeOnceEach, Answering, SessionsOf
  <2>8. CASE req[r].token # x
    <3>1. Answering(x)' = Answering(x) /\ r \notin Answering(x)
      BY <2>4, <2>6, <2>8 DEF Answering
    <3>2. \A u \in Answering(x) : req'[u] = req[u]
      BY <2>6, <3>1 DEF Answering
    <3>3. SessionsOf(x)' \subseteq SessionsOf(x)
      BY <2>2, <2>8 DEF SessionsOf
    <3>4. QED
      BY <2>3, <2>4, <3>1, <3>2, <3>3, ChallengeKept
  <2>9. QED
    BY <2>7, <2>8
<1>6. CASE \E r \in Req : MarkChallenge(r) \/ Abort(r)
  <2>1. PICK r \in Req : MarkChallenge(r) \/ Abort(r)
    BY <1>6
  <2>2. /\ Finish(r) /\ UNCHANGED session
        /\ \/ challenge' = Put(challenge, req[r].token, "used") /\ req[r].pc = "mark"
           \/ /\ UNCHANGED challenge
              /\ req[r].pc = "mark" => req[r].token \in overlapped'
    BY <2>1 DEF MarkChallenge, Abort
  <2>3. /\ req'[r].token = None /\ \A s \in Req \ {r} : req'[s] = req[s]
        /\ Refers(r)
    BY <2>2, Ended, RequestTypes, Sorts DEF Typed
  <2>4. /\ DOMAIN challenge' = DOMAIN challenge
        /\ \A y \in DOMAIN challenge : y # req[r].token => challenge'[y] = challenge[y]
        /\ req[r].pc = "mark" /\ req[r].token \notin overlapped' => challenge'[req[r].token] = "used"
    <3>1. CASE challenge' = Put(challenge, req[r].token, "used") /\ req[r].pc = "mark"
      <4>1. req[r].token \in Challenge /\ req[r].token \in DOMAIN challenge
        BY <2>3, <3>1 DEF Refers
      <4>2. PICK t \in Challenge : t = req[r].token /\ t \in DOMAIN challenge
        BY <4>1
      <4>3. challenge' = Put(challenge, t, "used")
        BY <3>1, <4>2
      <4>4. /\ DOMAIN challenge' = DOMAIN challenge \cup {t} /\ challenge'[t] = "used"
            /\ \A y \in DOMAIN challenge : y # t => challenge'[y] = challenge[y]
        BY <4>3, Tables DEF Typed
      <4>5. QED
        BY <4>2, <4>4
    <3>2. QED
      BY <2>2, <3>1
  <2>5. /\ x \in Challenge /\ x # None /\ ChallengeOnceEach(x)
        /\ SessionsOf(x)' = SessionsOf(x)
    BY <1>1, <1>2, <2>2, <2>4, Sorts
  <2>6. CASE req[r].token = x
    <3>1. Answering(x) = {r}
      BY <2>5, <2>6 DEF ChallengeOnceEach, Answering
    <3>2. Answering(x)' = {}
      BY <2>3, <2>5, <3>1 DEF Answering
    <3>3. SessionsOf(x)' = {} \/ challenge'[x] = "used"
      BY <2>4, <2>5, <2>6, <3>1 DEF ChallengeOnceEach, Answering, SessionsOf
    <3>4. \A s \in SessionsOf(x)' : SessionsOf(x)' = {s}
      BY <2>5 DEF ChallengeOnceEach, SessionsOf
    <3>5. QED
      BY <3>2, <3>3, <3>4 DEF ChallengeOnceEach, Answering, SessionsOf
  <2>7. CASE req[r].token # x
    <3>1. Answering(x)' = Answering(x) /\ r \notin Answering(x)
      BY <2>3, <2>5, <2>7 DEF Answering
    <3>2. \A s \in Answering(x) : req'[s] = req[s]
      BY <2>3, <3>1 DEF Answering
    <3>3. QED
      BY <2>4, <2>5, <2>7, <3>1, <3>2, ChallengeKept
  <2>8. QED
    BY <2>6, <2>7
<1>7. CASE \A r \in Req : ~(\/ IssueChallenge(r) \/ AnswerChallenge(r) \/ CreateSession(r)
                            \/ MarkChallenge(r) \/ Abort(r))
  <2>1. ChallengesKept /\ SessionsKept
    BY <1>7, ChallengeSteps, SessionSteps
  <2>2. /\ x \in DOMAIN challenge /\ x \in Challenge /\ ChallengeOnceEach(x)
        /\ challenge'[x] = challenge[x] \/ challenge'[x] = "expired"
    BY <1>1, <2>1 DEF ChallengesKept
  <2>3. SessionsOf(x)' \subseteq SessionsOf(x)
    BY <2>1 DEF SessionsOf, SessionsKept
  <2>4. \A s \in Req : req'[s] = req[s] \/ (req'[s].token # x /\ req[s].token # x)
    BY <1>7, <2>2, Stepping, ElsewhereSteps DEF Next, Elsewhere, RequestStep
  <2>5. Answering(x)' = Answering(x) /\ \A s \in Answering(x) : req'[s] = req[s]
    BY <2>4 DEF Answering
  <2>6. QED
    BY <2>2, <2>3, <2>5, ChallengeKept
<1>8. QED
  BY <1>3, <1>4, <1>5, <1>6, <1>7

LEMMA OnceStep == Typed /\ OnceEach /\ [Next]_vars => OnceEach'
<1> SUFFICES ASSUME Typed, OnceEach, [Next]_vars PROVE OnceEach'
  OBVIOUS
<1>1. \A x \in DOMAIN reset' \ overlapped' : ResetOnceEach(x)'
  BY ResetOnceStep
<1>2. \A x \in DOMAIN challenge' \ overlapped' : ChallengeOnceEach(x)'
  BY ChallengeOnceStep
<1>3. QED
  BY <1>1, <1>2 DEF OnceEach

(* Places among the unused reset tokens: only IssueReset takes one, and it *)
(* counted before.                                                         *)
InPlace == Unused(reset) \ overlapped

LEMMA ResetsLimitedStep == Typed /\ ResetsLimited /\ [Next]_vars => ResetsLimited'
<1> SUFFICES ASSUME Typed, ResetsLimited, [Next]_vars PROVE ResetsLimited'
  OBVIOUS
<1>1. IsFiniteSet(Unused(reset)) /\ Unused(reset) \subseteq Reset
  BY FS_Subset, Rows DEF Unused, Typed, TypeOK
<1>2. IsFiniteSet(InPlace) /\ Cardinality(InPlace) <= ResetLimit
  BY <1>1, FS_Subset DEF InPlace, ResetsLimited
<1>3. ASSUME InPlace' \subseteq InPlace PROVE ResetsLimited'
  <2>1. /\ Cardinality(InPlace') <= Cardinality(InPlace)
        /\ Cardinality(InPlace) \in Nat /\ Cardinality(InPlace') \in Nat
    BY <1>2, <1>3, FS_Subset, FS_CardinalityType
  <2>2. Cardinality(InPlace') <= ResetLimit
    BY <1>2, <2>1, BoundAssumption
  <2>3. QED
    BY <2>2 DEF InPlace, ResetsLimited
<1>4. \A x \in overlapped : x \in Reset => x \in overlapped'
  BY OverlapSteps, Sorts
<1>5. CASE ResetsKept
  <2>1. Unused(reset') \subseteq Unused(reset)
    BY <1>5 DEF ResetsKept, Unused
  <2>2. QED
    BY <1>1, <1>3, <1>4, <2>1 DEF InPlace
<1>6. CASE \E r \in Req : IssueReset(r)
  <2>1. PICK r \in Req, x \in Reset \ DOMAIN reset :
          /\ req[r].pc = "issue" /\ reset' = Put(reset, x, "unused")
          /\ overlapped' = IF Cardinality(Unused(reset)) > req[r].noted
                           THEN overlapped \cup {x} ELSE overlapped
    BY <1>6 DEF IssueReset
  <2>2. req[r].noted \in Nat /\ req[r].noted < ResetLimit
    BY <2>1, Sorts DEF Noted, Request
  <2>3. /\ DOMAIN reset' = DOMAIN reset \cup {x}
        /\ \A y \in DOMAIN reset : y # x => reset'[y] = reset[y]
    BY <2>1, Tables DEF Typed
  <2>4. Unused(reset') \subseteq Unused(reset) \cup {x}
    BY <2>3 DEF Unused
  <2>5. CASE Cardinality(Unused(reset)) > req[r].noted
    <3>1. x \in overlapped'
      BY <2>1, <2>5
    <3>2. InPlace' \subseteq InPlace
      BY <1>1, <1>4, <2>4, <3>1 DEF InPlace
    <3>3. QED
      BY <1>3, <3>2
  <2>6. CASE ~(Cardinality(Unused(reset)) > req[r].noted)
    <3>1. /\ IsFiniteSet(Unused(reset) \cup {x})
          /\ Cardinality(Unused(reset)) \in Nat
          /\ Cardinality(Unused(reset) \cup {x}) <= Cardinality(Unused(reset)) + 1
      <4>1. Cardinality(Unused(reset)) \in Nat
        BY <1>1, FS_CardinalityType
      <4>2. /\ IsFiniteSet(Unused(reset) \cup {x})
            /\ \/ Cardinality(Unused(reset) \cup {x}) = Cardinality(Unused(reset))
               \/ Cardinality(Unused(reset) \cup {x}) = Cardinality(Unused(reset)) + 1
        BY <1>1, FS_AddElement, Zenon
      <4>3. QED
        BY <4>1, <4>2
    <3>2. /\ Cardinality(Unused(reset) \cup {x}) \in Nat
          /\ Cardinality(InPlace') \in Nat
          /\ Cardinality(InPlace') <= Cardinality(Unused(reset) \cup {x})
      BY <2>4, <3>1, FS_Subset, FS_CardinalityType DEF InPlace
    <3>3. Cardinality(InPlace') <= ResetLimit
      BY <2>2, <2>6, <3>1, <3>2, BoundAssumption
    <3>4. QED
      BY <3>3 DEF InPlace, ResetsLimited
  <2>7. QED
    BY <2>5, <2>6
<1>7. CASE \E r \in Req : ResetCommit(r)
  <2>1. PICK r \in Req : ResetCommit(r)
    BY <1>7
  <2>2. PICK t \in Reset : t = req[r].token /\ t \in DOMAIN reset
    BY <2>1, Sorts DEF ResetCommit, Refers
  <2>3. reset' = Put(reset, t, "used")
    BY <2>1, <2>2 DEF ResetCommit
  <2>4. /\ DOMAIN reset' = DOMAIN reset \cup {t} /\ reset'[t] = "used"
        /\ \A y \in DOMAIN reset : y # t => reset'[y] = reset[y]
    BY <2>3, Tables DEF Typed
  <2>5. Unused(reset') \subseteq Unused(reset)
    BY <2>2, <2>4 DEF Unused
  <2>6. QED
    BY <1>1, <1>3, <1>4, <2>5 DEF InPlace
<1>8. QED
  BY <1>5, <1>6, <1>7, ResetSteps

-----------------------------------------------------------------------------
(* The invariant. *)

LEMMA AccountInit == Init => AccountInv
<1> SUFFICES ASSUME Init PROVE AccountInv
  OBVIOUS
<1>1. Live = {} /\ Unused(reset) = {} /\ DOMAIN reset = {} /\ DOMAIN challenge = {}
  BY DEF Init, Live, Unused
<1>2. TypeOK
  BY BoundAssumption, IdleRequest DEF Init, TypeOK, Status
<1>3. RowsRefer
  <2>1. \A r \in Req : Refers(r) /\ Noted(r)
    BY NoneAssumption, IdleRequest DEF Init, Refers, Noted
  <2>2. NothingBefore
    BY IdleRequest DEF Init, NothingBefore
  <2>3. IsFiniteSet(DOMAIN reset)
    BY <1>1, FS_EmptySet
  <2>4. QED
    BY <1>1, <2>1, <2>2, <2>3 DEF Init, RowsRefer
<1>4. SweepIsTotal /\ ExpelIsTotal /\ SuspensionHolds
  BY <1>1
  DEF Init, SweepIsTotal, ExpelIsTotal, SuspensionHolds, NoPasswordLoginWhileSuspended,
      DecisionStands
<1>5. LoginsAsked
  BY IdleRequest DEF Init, LoginsAsked
<1>6. OnceEach
  BY <1>1 DEF OnceEach
<1>7. ResetsLimited
  <2>1. Unused(reset) \ overlapped = {}
    BY <1>1
  <2>2. QED
    BY <2>1, FS_EmptySet, BoundAssumption DEF ResetsLimited
<1>8. QED
  BY <1>2, <1>3, <1>4, <1>5, <1>6, <1>7 DEF AccountInv

LEMMA AccountStep == AccountInv /\ [Next]_vars => AccountInv'
<1> SUFFICES ASSUME AccountInv, [Next]_vars PROVE AccountInv'
  OBVIOUS
<1>1. Typed
  BY DEF AccountInv, Typed
<1>2. TypeOK' /\ RowsRefer'
  BY <1>1, TypedStep DEF Typed
<1>3. SweepIsTotal' /\ ExpelIsTotal'
  BY <1>1, SweepStep, ExpelStep DEF AccountInv
<1>4. LoginsAsked' /\ SuspensionHolds'
  BY <1>1, LoginsStep, LoginHoldsStep, DecisionStep DEF AccountInv, SuspensionHolds
<1>5. OnceEach' /\ ResetsLimited'
  BY <1>1, OnceStep, ResetsLimitedStep DEF AccountInv
<1>6. QED
  BY <1>2, <1>3, <1>4, <1>5 DEF AccountInv

\* The invariant that carries the theorems below: rows keep their shape, requests
\* refer to rows and remember what there has been, a login by password read the
\* account before a suspension, and every reset token and challenge that no two
\* requests used side by side is on its way once.
THEOREM AccountCorrect == Spec => []AccountInv
<1>1. Init => AccountInv
  BY AccountInit
<1>2. AccountInv /\ [Next]_vars => AccountInv'
  BY AccountStep
<1>3. QED
  BY <1>1, <1>2, PTL DEF Spec

\* users, sessions and the token tables of auth.service.ts, mfa.service.ts,
\* password-reset.service.ts and email-verification.service.ts keep their shape,
\* and an account has a password from its registration on.
THEOREM AccountTyped == Spec => []TypeOK
<1>1. AccountInv => TypeOK
  BY DEF AccountInv
<1>2. QED
  BY <1>1, AccountCorrect, PTL

\* When the revokeAllUserSessions that follows changePassword or resetPassword is
\* through, no session from before that password is left but the caller's own,
\* however many sessions were created between its SELECT and its DELETE.
THEOREM RevocationsTotal == Spec => []SweepIsTotal
<1>1. AccountInv => SweepIsTotal
  BY DEF AccountInv
<1>2. QED
  BY <1>1, AccountCorrect, PTL

\* When updateUserStatus has deleted the sessions of an account it suspended, none
\* from before that suspension is left.
THEOREM ExpulsionsTotal == Spec => []ExpelIsTotal
<1>1. AccountInv => ExpelIsTotal
  BY DEF AccountInv
<1>2. QED
  BY <1>1, AccountCorrect, PTL

\* A suspended account gets no session by its password (login) and stays suspended
\* (verifyEmail), but for a login or a verification that had read the account
\* before updateUserStatus wrote.
THEOREM SuspensionRules == Spec => []SuspensionHolds
<1>1. AccountInv => SuspensionHolds
  BY DEF AccountInv
<1>2. QED
  BY <1>1, AccountCorrect, PTL

\* resetPassword uses a token for one password, requestPasswordReset keeps to its
\* limit and verifyMfaChallenge gives one session for a challenge, unless two
\* requests had read the same rows before either wrote, or one died half way.
THEOREM OneTime == Spec => []OneTimeOnly
<1>1. ASSUME AccountInv PROVE OneTimeOnly
  <2>1. Typed /\ OnceEach /\ ResetsLimited
    BY <1>1 DEF AccountInv, Typed
  <2>2. ASSUME NEW v \in swept, NEW w \in swept, v.token = w.token, v.token # None,
               v.token \notin overlapped
        PROVE  v = w
    <3>1. ResetOnceEach(v.token)
      BY <2>1, <2>2, Rows DEF OnceEach
    <3>2. v \in Through(v.token) /\ w \in Through(v.token)
      BY <2>2 DEF Through
    <3>3. Through(v.token) = {v}
      BY <3>1, <3>2 DEF ResetOnceEach, Through
    <3>4. QED
      BY <3>2, <3>3
  <2>3. ASSUME NEW s \in Live, NEW u \in Live, session[s].challenge = session[u].challenge,
               session[s].challenge # None, session[s].challenge \notin overlapped
        PROVE  s = u
    <3>1. ChallengeOnceEach(session[s].challenge)
      BY <2>1, <2>3, Rows DEF OnceEach
    <3>2. s \in SessionsOf(session[s].challenge) /\ u \in SessionsOf(session[s].challenge)
      BY <2>3 DEF SessionsOf
    <3>3. SessionsOf(session[s].challenge) = {s}
      BY <3>1, <3>2 DEF ChallengeOnceEach, SessionsOf
    <3>4. QED
      BY <3>2, <3>3
  <2>4. QED
    BY <2>1, <2>2, <2>3 DEF OneTimeOnly, ResetOnce, ChallengeOnce
<1>2. QED
  BY <1>1, AccountCorrect, PTL
=============================================================================
