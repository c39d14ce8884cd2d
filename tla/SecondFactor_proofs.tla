------------------------ MODULE SecondFactor_proofs ------------------------
(***************************************************************************)
(* Proofs about SecondFactor, for any number of secrets, codes and         *)
(* requests: an enrolment becomes effective only for a secret its owner    *)
(* has proven to hold, and only disableTotp takes it away.                 *)
(*                                                                         *)
(* The enrolment row is all the argument needs of the database: who wrote  *)
(* it is settled by the UPDATE of verifyTotpEnrollment naming the row, and *)
(* by the unique user_id, which makes an overtaken INSERT fail.            *)
(***************************************************************************)
EXTENDS SecondFactor, FiniteSetTheorems, TLAPS

\* What a request remembers.
RequestType == [pc : PC, secret : Secret \cup {None}, code : Code \cup {None},
                codes : SUBSET Code]

\* The part of the type that the argument needs.
EnrolmentType ==
  /\ totp \in Totp \cup {None}
  /\ req \in [Req -> RequestType]

\* A confirmation under way is for a proven secret.
ConfirmsProven == \A r \in Req : req[r].pc = "confirm" => req[r].secret \in proven

\* Codes that were drawn are codes: all that drawing fresh ones needs.
CodesDrawn == Drawn \subseteq Code

\* The inductive invariant.
EnrolmentInv == EnrolmentType /\ ConfirmsProven /\ ProvenSecret

\* Nothing is enrolled and nobody confirms at first.
LEMMA InitEnrolment == Init => EnrolmentInv
<1> SUFFICES ASSUME Init PROVE EnrolmentInv
  OBVIOUS
<1>1. EnrolmentType
  BY DEF Init, EnrolmentType, RequestType, Idle, PC
<1>2. ConfirmsProven
  BY DEF Init, ConfirmsProven, Idle
<1>3. ProvenSecret
  BY DEF Init, ProvenSecret, Enrolled
<1> QED
  BY <1>1, <1>2, <1>3 DEF EnrolmentInv

\* A request that becomes q, which confirms nothing unproven, keeps its type, and
\* confirmations stay proven.
LEMMA BecomesKeeps ==
  ASSUME EnrolmentInv, NEW r \in Req, NEW q \in RequestType,
         req' = [req EXCEPT ![r] = q],
         q.pc = "confirm" => q.secret \in proven',
         proven \subseteq proven'
  PROVE  req' \in [Req -> RequestType] /\ ConfirmsProven'
BY DEF EnrolmentInv, EnrolmentType, ConfirmsProven

\* So does a request that goes on to another program counter or ends.
LEMMA GotoKeeps ==
  ASSUME EnrolmentInv, NEW r \in Req, NEW pc \in PC \ {"confirm"},
         Goto(r, pc), proven' = proven
  PROVE  req' \in [Req -> RequestType] /\ ConfirmsProven'
<1>1. [req[r] EXCEPT !.pc = pc] \in RequestType /\ [req[r] EXCEPT !.pc = pc].pc = pc
  BY DEF EnrolmentInv, EnrolmentType, RequestType
<1>2. req' = [req EXCEPT ![r] = [req[r] EXCEPT !.pc = pc]]
  BY DEF Goto, EnrolmentInv, EnrolmentType
<1> QED
  BY <1>1, <1>2, BecomesKeeps

\* And one that is done.
LEMMA FinishKeeps ==
  ASSUME EnrolmentInv, NEW r \in Req, Finish(r), proven' = proven
  PROVE  req' \in [Req -> RequestType] /\ ConfirmsProven'
<1>1. Idle \in RequestType /\ Idle.pc # "confirm"
  BY DEF Idle, RequestType, PC
<1> QED
  BY <1>1, BecomesKeeps DEF Finish

\* A row that is left alone, or deleted, is as proven as before.
LEMMA RowKept ==
  ASSUME EnrolmentInv, totp' \in {totp, None}, proven \subseteq proven',
         req' \in [Req -> RequestType], ConfirmsProven'
  PROVE  EnrolmentInv'
BY DEF EnrolmentInv, EnrolmentType, ProvenSecret, Enrolled

\* Rows of recovery_codes hold codes.
LEMMA StepCodes == CodesDrawn /\ [Next]_vars => CodesDrawn'
<1> SUFFICES ASSUME CodesDrawn, [Next]_vars PROVE CodesDrawn'
  OBVIOUS
<1>1. ASSUME NEW r \in Req, InsertCode(r) PROVE CodesDrawn'
  BY <1>1 DEF InsertCode, CodesDrawn, Drawn
<1>2. ASSUME NEW r \in Req, Wipe(r) \/ DropCodes(r) PROVE CodesDrawn'
  BY <1>2 DEF Wipe, DropCodes, DeleteCodes, CodesDrawn, Drawn
<1>3. ASSUME NEW r \in Req, SpendCode(r) PROVE CodesDrawn'
  BY <1>3 DEF SpendCode, CodesDrawn, Drawn
<1>4. ASSUME NEW r \in Req, Enrol(r) \/ Disable(r) PROVE CodesDrawn'
  BY <1>4 DEF Enrol, EnrolRead, EnrolClear, EnrolInsert, ConfirmRead, Confirm, Disable,
     store, CodesDrawn, Drawn
<1>5. ASSUME NEW r \in Req,
             Regenerate(r) \/ Deliver(r) \/ AnswerWithCode(r) \/ GiveSession(r) \/ Abort(r)
      PROVE  CodesDrawn'
  BY <1>5 DEF Regenerate, Deliver, AnswerWithCode, GiveSession, Abort, store,
     CodesDrawn, Drawn
<1>6. CASE Challenge \/ CloseChallenges \/ UNCHANGED vars
  BY <1>6 DEF Challenge, CloseChallenges, vars, store, CodesDrawn, Drawn
<1> QED
  BY <1>1, <1>2, <1>3, <1>4, <1>5, <1>6 DEF Next, Codes, Answer

\* Every step keeps the invariant: a row becomes verified in Confirm only.
LEMMA StepEnrolment == EnrolmentInv /\ CodesDrawn /\ [Next]_vars => EnrolmentInv'
<1> SUFFICES ASSUME EnrolmentInv, CodesDrawn, [Next]_vars PROVE EnrolmentInv'
  OBVIOUS
<1>1. ASSUME NEW r \in Req, EnrolRead(r) PROVE EnrolmentInv'
  <2>1. [Idle EXCEPT !.pc = "clear"] \in RequestType /\ [Idle EXCEPT !.pc = "clear"].pc # "confirm"
    BY DEF Idle, RequestType, PC
  <2>2. req' = [req EXCEPT ![r] = [Idle EXCEPT !.pc = "clear"]]
        /\ totp' \in {totp, None} /\ proven' = proven
    BY <1>1 DEF EnrolRead, Begin, store, history
  <2> QED
    BY <2>1, <2>2, BecomesKeeps, RowKept
<1>2. ASSUME NEW r \in Req, EnrolClear(r) PROVE EnrolmentInv'
  <2>1. Goto(r, "insert") /\ totp' \in {totp, None} /\ proven' = proven
    BY <1>2 DEF EnrolClear, store, history
  <2>2. "insert" \in PC \ {"confirm"}
    BY DEF PC
  <2> QED
    BY <2>1, <2>2, GotoKeeps, RowKept
<1>3. ASSUME NEW r \in Req, EnrolInsert(r) PROVE EnrolmentInv'
  <2>1. CASE totp # None /\ Finish(r) /\ UNCHANGED <<totp, drawn>>
    <3>1. totp' = totp /\ proven' = proven
      BY <1>3, <2>1 DEF EnrolInsert, history
    <3> QED
      BY <2>1, <3>1, FinishKeeps, RowKept
  <2>2. ASSUME NEW s \in Secret \ drawn,
               totp' = [secret |-> s, verified |-> FALSE],
               req' = [req EXCEPT ![r] = [@ EXCEPT !.pc = "wipe", !.secret = s]]
        PROVE  EnrolmentInv'
    <3> DEFINE q == [req[r] EXCEPT !.pc = "wipe", !.secret = s]
    <3>1. q \in RequestType /\ q.pc # "confirm"
      BY DEF EnrolmentInv, EnrolmentType, RequestType, PC
    <3>2. req' = [req EXCEPT ![r] = q]
      BY <2>2 DEF EnrolmentInv, EnrolmentType
    <3>3. proven' = proven
      BY <1>3 DEF EnrolInsert, history
    <3> HIDE DEF q
    <3>4. req' \in [Req -> RequestType] /\ ConfirmsProven'
      BY <3>1, <3>2, <3>3, BecomesKeeps
    <3>5. totp' \in Totp /\ ~Enrolled'
      BY <2>2 DEF Totp, Enrolled
    <3> QED
      BY <3>4, <3>5 DEF EnrolmentInv, EnrolmentType, ProvenSecret
  <2> QED
    BY <1>3, <2>1, <2>2 DEF EnrolInsert
<1>4. ASSUME NEW r \in Req, ConfirmRead(r) PROVE EnrolmentInv'
  <2> DEFINE q == [Idle EXCEPT !.pc = "confirm", !.secret = totp.secret]
  <2>1. totp \in Totp /\ proven' = proven \cup {totp.secret} /\ totp' = totp
    BY <1>4 DEF ConfirmRead, store, EnrolmentInv, EnrolmentType
  <2>2. q \in RequestType /\ q.secret \in proven'
    BY <2>1 DEF Idle, RequestType, PC, Totp
  <2>3. req' = [req EXCEPT ![r] = q]
    BY <1>4 DEF ConfirmRead, Begin
  <2> HIDE DEF q
  <2> QED
    BY <2>1, <2>2, <2>3, BecomesKeeps, RowKept
<1>5. ASSUME NEW r \in Req, Confirm(r) PROVE EnrolmentInv'
  <2>1. Finish(r) /\ proven' = proven /\ req[r].pc = "confirm"
    BY <1>5 DEF Confirm, history
  <2>2. req[r].secret \in proven
    BY <2>1 DEF EnrolmentInv, ConfirmsProven
  <2>3. CASE totp # None /\ totp.secret = req[r].secret
    <3>1. totp \in Totp /\ totp' = [totp EXCEPT !.verified = TRUE]
      BY <1>5, <2>3 DEF Confirm, EnrolmentInv, EnrolmentType
    <3>2. totp' \in Totp /\ totp'.secret = totp.secret
      BY <3>1 DEF Totp
    <3>3. totp' \in Totp \cup {None} /\ ProvenSecret'
      BY <2>1, <2>2, <2>3, <3>2 DEF ProvenSecret
    <3> QED
      BY <2>1, <3>3, FinishKeeps DEF EnrolmentInv, EnrolmentType
  <2>4. CASE ~(totp # None /\ totp.secret = req[r].secret)
    BY <1>5, <2>1, <2>4, FinishKeeps, RowKept DEF Confirm
  <2> QED
    BY <2>3, <2>4
<1>6. ASSUME NEW r \in Req, Regenerate(r) PROVE EnrolmentInv'
  <2>1. [Idle EXCEPT !.pc = "wipe"] \in RequestType /\ [Idle EXCEPT !.pc = "wipe"].pc # "confirm"
    BY DEF Idle, RequestType, PC
  <2>2. req' = [req EXCEPT ![r] = [Idle EXCEPT !.pc = "wipe"]]
        /\ totp' \in {totp, None} /\ proven' = proven
    BY <1>6 DEF Regenerate, Begin, store, history
  <2> QED
    BY <2>1, <2>2, BecomesKeeps, RowKept
<1>7. ASSUME NEW r \in Req, Wipe(r) PROVE EnrolmentInv'
  <2>1. Goto(r, "codes") /\ totp' \in {totp, None} /\ proven' = proven
    BY <1>7 DEF Wipe, store, history
  <2>2. "codes" \in PC \ {"confirm"}
    BY DEF PC
  <2> QED
    BY <2>1, <2>2, GotoKeeps, RowKept
<1>8. ASSUME NEW r \in Req, InsertCode(r) PROVE EnrolmentInv'
  <2> DEFINE pc == IF Cardinality(req[r].codes) + 1 = BatchSize THEN "deliver" ELSE "codes"
  <2>1. PICK c \in Code :
          req' = [req EXCEPT ![r] = [@ EXCEPT !.codes = req[r].codes \cup {c}, !.pc = pc]]
    BY <1>8 DEF InsertCode
  <2> DEFINE q == [req[r] EXCEPT !.codes = req[r].codes \cup {c}, !.pc = pc]
  <2>2. pc \in {"deliver", "codes"}
    OBVIOUS
  <2> HIDE DEF pc
  <2>3. q \in RequestType /\ q.pc # "confirm"
    BY <2>2 DEF EnrolmentInv, EnrolmentType, RequestType, PC
  <2>4. req' = [req EXCEPT ![r] = q]
    BY <2>1 DEF EnrolmentInv, EnrolmentType
  <2>5. totp' = totp /\ proven' = proven
    BY <1>8 DEF InsertCode, history
  <2> HIDE DEF q
  <2> QED
    BY <2>3, <2>4, <2>5, BecomesKeeps, RowKept
<1>9. ASSUME NEW r \in Req, Deliver(r) PROVE EnrolmentInv'
  <2>1. Finish(r) /\ totp' \in {totp, None} /\ proven' = proven
    BY <1>9 DEF Deliver, store, history
  <2> QED
    BY <2>1, FinishKeeps, RowKept
<1>10. ASSUME NEW r \in Req, AnswerWithCode(r) PROVE EnrolmentInv'
  <2>1. PICK c \in Code : req' = [req EXCEPT ![r] = [Idle EXCEPT !.pc = "spend", !.code = c]]
    BY <1>10 DEF AnswerWithCode, Begin, Unused, CodesDrawn
  <2>2. [Idle EXCEPT !.pc = "spend", !.code = c] \in RequestType
        /\ [Idle EXCEPT !.pc = "spend", !.code = c].pc # "confirm"
    BY DEF Idle, RequestType, PC
  <2>3. totp' = totp /\ proven' = proven
    BY <1>10 DEF AnswerWithCode, store
  <2> QED
    BY <2>1, <2>2, <2>3, BecomesKeeps, RowKept
<1>11. ASSUME NEW r \in Req, SpendCode(r) PROVE EnrolmentInv'
  <2>1. Goto(r, "session") /\ totp' \in {totp, None} /\ proven' = proven
    BY <1>11 DEF SpendCode, store, history
  <2>2. "session" \in PC \ {"confirm"}
    BY DEF PC
  <2> QED
    BY <2>1, <2>2, GotoKeeps, RowKept
<1>12. ASSUME NEW r \in Req, GiveSession(r) PROVE EnrolmentInv'
  <2>1. Finish(r) /\ totp' \in {totp, None} /\ proven' = proven
    BY <1>12 DEF GiveSession, store, history
  <2> QED
    BY <2>1, FinishKeeps, RowKept
<1>13. ASSUME NEW r \in Req, Disable(r) PROVE EnrolmentInv'
  <2>1. [Idle EXCEPT !.pc = "dropcodes"] \in RequestType /\ [Idle EXCEPT !.pc = "dropcodes"].pc # "confirm"
    BY DEF Idle, RequestType, PC
  <2>2. req' = [req EXCEPT ![r] = [Idle EXCEPT !.pc = "dropcodes"]]
        /\ totp' \in {totp, None} /\ proven' = proven
    BY <1>13 DEF Disable, Begin, store, history
  <2> QED
    BY <2>1, <2>2, BecomesKeeps, RowKept
<1>14. ASSUME NEW r \in Req, DropCodes(r) PROVE EnrolmentInv'
  <2>1. Finish(r) /\ totp' \in {totp, None} /\ proven' = proven
    BY <1>14 DEF DropCodes, store, history
  <2> QED
    BY <2>1, FinishKeeps, RowKept
<1>15. ASSUME NEW r \in Req, Abort(r) PROVE EnrolmentInv'
  <2>1. Finish(r) /\ totp' \in {totp, None} /\ proven' = proven
    BY <1>15 DEF Abort, store, history
  <2> QED
    BY <2>1, FinishKeeps, RowKept
<1>16. CASE Challenge \/ CloseChallenges \/ UNCHANGED vars
  <2>1. totp' = totp /\ proven' = proven /\ req' = req
    BY <1>16 DEF Challenge, CloseChallenges, vars, store, history
  <2> QED
    BY <2>1 DEF EnrolmentInv, EnrolmentType, ConfirmsProven, ProvenSecret, Enrolled
<1> QED
  BY <1>1, <1>2, <1>3, <1>4, <1>5, <1>6, <1>7, <1>8, <1>9, <1>10, <1>11, <1>12, <1>13, <1>14, <1>15, <1>16 DEF Next, Enrol, Codes, Answer

\* mfa.service.ts:145: an enrolment that a login asks for was confirmed by a
\* one-time password of that very secret, whatever enrolments ran side by side.
THEOREM OnlyProvenSecrets == Spec => []ProvenSecret
<1>1. Init => EnrolmentInv /\ CodesDrawn
  BY InitEnrolment DEF Init, CodesDrawn, Drawn
<1>2. EnrolmentInv /\ CodesDrawn /\ [Next]_vars => (EnrolmentInv /\ CodesDrawn)'
  BY StepEnrolment, StepCodes
<1>3. EnrolmentInv => ProvenSecret
  BY DEF EnrolmentInv
<1> QED
  BY <1>1, <1>2, <1>3, PTL DEF Spec

\* A step that changes a verified row is a step of disableTotp: the DELETE of an
\* enrolment leaves verified rows alone, its INSERT fails on one, and a second
\* confirmation writes what is there.
LEMMA StepKeepsEnrolled ==
  EnrolmentInv /\ [Next]_vars =>
    [Enrolled /\ totp' # totp => \E r \in Req : Disable(r)]_vars
<1> SUFFICES ASSUME EnrolmentInv, Next, Enrolled, totp' # totp
             PROVE  \E r \in Req : Disable(r)
  OBVIOUS
<1>1. totp \in Totp /\ totp.verified
  BY DEF EnrolmentInv, EnrolmentType, Enrolled
<1>2. ASSUME NEW r \in Req, Enrol(r) PROVE FALSE
  <2>1. ~EnrolRead(r) /\ ~ConfirmRead(r)
    BY DEF EnrolRead, ConfirmRead, store
  <2>2. ~EnrolClear(r)
    BY DEF EnrolClear
  <2>3. ~EnrolInsert(r)
    BY DEF EnrolInsert, Enrolled
  <2>4. [totp EXCEPT !.verified = TRUE] = totp
    BY <1>1 DEF Totp
  <2>5. ~Confirm(r)
    BY <2>4 DEF Confirm
  <2> QED
    BY <1>2, <2>1, <2>2, <2>3, <2>5 DEF Enrol
<1>3. ASSUME NEW r \in Req, Codes(r) \/ Answer(r) \/ DropCodes(r) \/ Abort(r) PROVE FALSE
  BY <1>3 DEF Codes, Regenerate, Wipe, InsertCode, Deliver, Answer, AnswerWithCode,
     SpendCode, GiveSession, DropCodes, Abort, store
<1>4. ~Challenge /\ ~CloseChallenges
  BY DEF Challenge, CloseChallenges, store
<1> QED
  BY <1>2, <1>3, <1>4 DEF Next

\* mfa.service.ts:84-101: no interleaving of enrolments undoes a confirmed one.
THEOREM OnlyDisableEnds == Spec => EnrolmentStays
<1>1. Init => EnrolmentInv /\ CodesDrawn
  BY InitEnrolment DEF Init, CodesDrawn, Drawn
<1>2. EnrolmentInv /\ CodesDrawn /\ [Next]_vars => (EnrolmentInv /\ CodesDrawn)'
  BY StepEnrolment, StepCodes
<1>3. EnrolmentInv /\ [Next]_vars =>
        [Enrolled /\ totp' # totp => \E r \in Req : Disable(r)]_vars
  BY StepKeepsEnrolled
<1> QED
  BY <1>1, <1>2, <1>3, PTL DEF Spec, EnrolmentStays

-----------------------------------------------------------------------------
(* The recovery codes. *)

Held == \A r \in Req : InHand(r)
Typed == TypeOK /\ Held
Loops == {r \in Req : req[r].pc = "codes"}

LEMMA IdleRequest ==
  /\ Idle \in Request /\ Idle.pc = "idle" /\ Idle.secret = None /\ Idle.code = None
  /\ Idle.codes = {}
BY FS_EmptySet, SizeAssumption DEF Idle, Request, PC

\* What is used of a request, and of a step that makes q of it.
LEMMA Requests ==
  ASSUME Typed, NEW r \in Req
  PROVE  /\ req[r] \in Request /\ InHand(r)
         /\ \A q \in Request : req' = [req EXCEPT ![r] = q] =>
              /\ req' \in [Req -> Request] /\ req'[r] = q
              /\ \A s \in Req \ {r} : req'[s] = req[s]
         /\ Finish(r) => /\ req' \in [Req -> Request] /\ req'[r] = Idle
                         /\ \A s \in Req \ {r} : req'[s] = req[s]
         /\ \A pc \in PC : Goto(r, pc) =>
              /\ req' \in [Req -> Request] /\ req'[r].pc = pc
              /\ req'[r].secret = req[r].secret /\ req'[r].code = req[r].code
              /\ req'[r].codes = req[r].codes
              /\ \A s \in Req \ {r} : req'[s] = req[s]
<1>1. req[r] \in Request /\ InHand(r)
  BY DEF Typed, TypeOK, Held
<1>2. ASSUME NEW q \in Request, req' = [req EXCEPT ![r] = q]
      PROVE  /\ req' \in [Req -> Request] /\ req'[r] = q
             /\ \A s \in Req \ {r} : req'[s] = req[s]
  BY <1>2 DEF Typed, TypeOK
<1>3. ASSUME NEW pc \in PC, Goto(r, pc)
      PROVE  /\ req' \in [Req -> Request] /\ req'[r].pc = pc
             /\ req'[r].secret = req[r].secret /\ req'[r].code = req[r].code
             /\ req'[r].codes = req[r].codes
             /\ \A s \in Req \ {r} : req'[s] = req[s]
  <2>1. PICK q : q = [req[r] EXCEPT !.pc = pc]
    OBVIOUS
  <2>2. /\ q \in Request /\ q.pc = pc /\ q.secret = req[r].secret
        /\ q.code = req[r].code /\ q.codes = req[r].codes
    BY <1>1, <2>1 DEF Request
  <2>3. req' = [req EXCEPT ![r] = q]
    BY <1>3, <2>1 DEF Goto, Typed, TypeOK
  <2>4. QED
    BY <1>2, <2>2, <2>3
<1>4. QED
  BY <1>1, <1>2, <1>3, IdleRequest DEF Finish

\* The table of codes: rows are added, spent or deleted, and none is forgotten.
LEMMA Rows ==
  ASSUME Typed
  PROVE  /\ DeleteCodes => /\ Drawn' = Drawn /\ code' \in [Drawn' -> {"unused", "used", "deleted"}]
                           /\ Kept' = {} /\ Unused' = {}
         /\ UNCHANGED code => Drawn' = Drawn /\ Kept' = Kept /\ Unused' = Unused
BY DEF Typed, TypeOK, DeleteCodes, Drawn, Kept, Unused

\* The other requests keep what they have in hand, for nothing drawn is forgotten.
LEMMA OthersHold ==
  ASSUME Typed, NEW r \in Req, \A s \in Req \ {r} : req'[s] = req[s],
         drawn \subseteq drawn', Drawn \subseteq Drawn', InHand(r)'
  PROVE  Held'
BY DEF Typed, Held, InHand

\* The steps of one request that write nothing but it, a row of totp_secrets, what
\* is shown or a note of history.
LEMMA InHandIdle == ASSUME NEW r \in Req, req'[r] = Idle PROVE InHand(r)'
BY IdleRequest, FS_EmptySet DEF InHand

LEMMA EnrolTyped == ASSUME Typed, NEW r \in Req, Enrol(r) \/ Disable(r) PROVE Typed'
<1> USE DEF store, history
<1>1. CASE EnrolRead(r) \/ Disable(r)
  <2>1. PICK pc, q :
       /\ pc \in {"clear", "dropcodes"}
       /\ q = [Idle EXCEPT !.pc = pc] /\ Begin(r, q)
    BY <1>1 DEF EnrolRead, Disable
  <2>2. q \in Request /\ q.pc = pc /\ q.secret = None /\ q.codes = {}
    BY <2>1, IdleRequest DEF Request, PC
  <2>3. /\ req' \in [Req -> Request] /\ req'[r] = q /\ \A s \in Req \ {r} : req'[s] = req[s]
    BY <2>1, <2>2, Requests DEF Begin
  <2>4. InHand(r)'
    BY <2>1, <2>2, <2>3, FS_EmptySet DEF InHand
  <2>5. /\ totp' \in {totp, None}
        /\ UNCHANGED <<drawn, code, open, shown, proven, logins, overlapped, mixed>>
    BY <1>1 DEF EnrolRead, Disable
  <2>6. Drawn' = Drawn
    BY <2>5 DEF Drawn
  <2>7. TypeOK'
    BY <2>3, <2>5, <2>6 DEF Typed, TypeOK
  <2>8. QED
    BY <2>3, <2>4, <2>5, <2>6, <2>7, OthersHold DEF Typed
<1>2. CASE EnrolClear(r)
  <2>1. /\ Goto(r, "insert") /\ totp' \in {totp, None} /\ req[r].pc = "clear"
        /\ UNCHANGED <<drawn, code, open, shown, proven, logins, overlapped, mixed>>
    BY <1>2 DEF EnrolClear
  <2>2. /\ req' \in [Req -> Request] /\ req'[r].pc = "insert"
        /\ req'[r].secret = req[r].secret /\ req'[r].codes = req[r].codes
        /\ \A s \in Req \ {r} : req'[s] = req[s]
    BY <2>1, Requests DEF PC
  <2>3. Drawn' = Drawn
    BY <2>1 DEF Drawn
  <2>4. InHand(r)'
    BY <2>1, <2>2, <2>3, Requests DEF InHand
  <2>5. TypeOK'
    BY <2>1, <2>2, <2>3 DEF Typed, TypeOK
  <2>6. QED
    BY <2>1, <2>2, <2>3, <2>4, <2>5, OthersHold DEF Typed
<1>3. CASE EnrolInsert(r)
  <2>1. UNCHANGED <<code, open, shown, proven, logins, overlapped, mixed>> /\ Drawn' = Drawn
    BY <1>3 DEF EnrolInsert, Drawn
  <2>2. CASE Finish(r) /\ UNCHANGED <<totp, drawn>>
    <3>1. /\ req' \in [Req -> Request] /\ req'[r] = Idle
          /\ \A s \in Req \ {r} : req'[s] = req[s]
      BY <2>2, Requests
    <3>2. InHand(r)'
      BY <3>1, InHandIdle
    <3>3. TypeOK'
      BY <2>1, <2>2, <3>1 DEF Typed, TypeOK
    <3>4. QED
      BY <2>1, <2>2, <3>1, <3>2, <3>3, OthersHold DEF Typed
  <2>3. CASE \E s \in Secret \ drawn :
               /\ totp' = [secret |-> s, verified |-> FALSE]
               /\ drawn' = drawn \cup {s}
               /\ req' = [req EXCEPT ![r] = [@ EXCEPT !.pc = "wipe", !.secret = s]]
    <3>1. PICK s, q :
         /\ s \in Secret \ drawn
         /\ totp' = [secret |-> s, verified |-> FALSE]
         /\ drawn' = drawn \cup {s}
         /\ q = [req[r] EXCEPT !.pc = "wipe", !.secret = s]
         /\ req' = [req EXCEPT ![r] = [@ EXCEPT !.pc = "wipe", !.secret = s]]
      BY <2>3
    <3>2. req' = [req EXCEPT ![r] = q]
      BY <3>1 DEF Typed, TypeOK
    <3>3. /\ q \in Request /\ q.pc = "wipe" /\ q.secret = s /\ q.codes = req[r].codes
      BY <3>1, Requests DEF Request, PC
    <3>4. /\ req' \in [Req -> Request] /\ req'[r] = q
          /\ \A u \in Req \ {r} : req'[u] = req[u]
      BY <3>2, <3>3, Requests
    <3>5. totp' \in Totp /\ totp'.secret = s
      BY <3>1 DEF Totp
    <3>6. TypeOK'
      BY <2>1, <3>1, <3>4, <3>5 DEF Typed, TypeOK
    <3>7. req[r].codes = {}
      BY <1>3, Requests DEF EnrolInsert, InHand
    <3>8. InHand(r)'
      BY <2>1, <3>1, <3>3, <3>4, <3>7, FS_EmptySet DEF InHand
    <3>9. QED
      BY <2>1, <3>1, <3>4, <3>6, <3>8, OthersHold DEF Typed
  <2>4. QED
    BY <1>3, <2>2, <2>3 DEF EnrolInsert
<1>4. CASE ConfirmRead(r)
  <2>1. totp \in Totp /\ totp.secret \in Secret /\ totp.secret \in drawn
    BY <1>4 DEF ConfirmRead, Typed, TypeOK, Totp
  <2>2. PICK q : /\ q = [Idle EXCEPT !.pc = "confirm", !.secret = totp.secret]
                 /\ Begin(r, q)
    BY <1>4 DEF ConfirmRead
  <2>3. q \in Request /\ q.pc = "confirm" /\ q.secret = totp.secret /\ q.codes = {}
    BY <2>1, <2>2, IdleRequest DEF Request, PC
  <2>4. /\ req' \in [Req -> Request] /\ req'[r] = q /\ \A s \in Req \ {r} : req'[s] = req[s]
    BY <2>2, <2>3, Requests DEF Begin
  <2>5. /\ UNCHANGED <<totp, drawn, code, open, shown, logins, overlapped, mixed>>
        /\ proven' = proven \cup {totp.secret} /\ totp.secret \in shown /\ Drawn' = Drawn
    BY <1>4 DEF ConfirmRead, Drawn
  <2>6. InHand(r)'
    BY <2>1, <2>3, <2>4, <2>5, FS_EmptySet DEF InHand
  <2>7. TypeOK'
    BY <2>4, <2>5 DEF Typed, TypeOK
  <2>8. QED
    BY <2>4, <2>5, <2>6, <2>7, OthersHold DEF Typed
<1>5. CASE Confirm(r)
  <2>1. /\ Finish(r) /\ Drawn' = Drawn
        /\ UNCHANGED <<drawn, code, open, shown, proven, logins, overlapped, mixed>>
    BY <1>5 DEF Confirm, Drawn
  <2>2. /\ req' \in [Req -> Request] /\ req'[r] = Idle
        /\ \A s \in Req \ {r} : req'[s] = req[s]
    BY <2>1, Requests
  <2>3. InHand(r)'
    BY <2>2, InHandIdle
  <2>4. /\ totp' \in Totp \cup {None}
        /\ totp' # None => totp'.secret \in drawn
    <3>1. CASE totp \in Totp /\ totp # None /\ totp' = [totp EXCEPT !.verified = TRUE]
      BY <3>1 DEF Totp, Typed, TypeOK
    <3>2. CASE totp' = totp
      BY <3>2 DEF Typed, TypeOK
    <3>3. QED
      BY <1>5, <3>1, <3>2 DEF Confirm, Typed, TypeOK
  <2>5. TypeOK'
    BY <2>1, <2>2, <2>4 DEF Typed, TypeOK
  <2>6. QED
    BY <2>1, <2>2, <2>3, <2>5, OthersHold DEF Typed
<1>6. QED
  BY <1>1, <1>2, <1>3, <1>4, <1>5 DEF Enrol

LEMMA CodesTyped == ASSUME Typed, NEW r \in Req, Codes(r) \/ DropCodes(r) PROVE Typed'
<1> USE DEF store, history
<1>1. CASE Regenerate(r)
  <2>1. PICK q : q = [Idle EXCEPT !.pc = "wipe"] /\ Begin(r, q)
    BY <1>1 DEF Regenerate
  <2>2. q \in Request /\ q.pc = "wipe" /\ q.secret = None /\ q.codes = {}
    BY <2>1, IdleRequest DEF Request, PC
  <2>3. /\ req' \in [Req -> Request] /\ req'[r] = q /\ \A s \in Req \ {r} : req'[s] = req[s]
    BY <2>1, <2>2, Requests DEF Begin
  <2>4. UNCHANGED <<totp, drawn, code, open, shown, proven, logins, overlapped, mixed>>
        /\ Drawn' = Drawn
    BY <1>1 DEF Regenerate, Drawn
  <2>5. InHand(r)'
    BY <2>2, <2>3, FS_EmptySet DEF InHand
  <2>6. TypeOK'
    BY <2>3, <2>4 DEF Typed, TypeOK
  <2>7. QED
    BY <2>3, <2>4, <2>5, <2>6, OthersHold DEF Typed
<1>2. CASE Wipe(r)
  <2>1. /\ Goto(r, "codes") /\ DeleteCodes /\ mixed' \in BOOLEAN /\ req[r].pc = "wipe"
        /\ UNCHANGED <<totp, drawn, open, shown, proven, logins, overlapped>>
    BY <1>2 DEF Wipe
  <2>2. Drawn' = Drawn /\ code' \in [Drawn' -> {"unused", "used", "deleted"}]
    BY <2>1, Rows
  <2>3. /\ req' \in [Req -> Request] /\ req'[r].pc = "codes"
        /\ req'[r].secret = req[r].secret /\ req'[r].codes = {}
        /\ \A s \in Req \ {r} : req'[s] = req[s]
    BY <2>1, Requests DEF PC, InHand
  <2>4. InHand(r)'
    BY <2>1, <2>2, <2>3, Requests, FS_EmptySet, SizeAssumption DEF InHand
  <2>5. TypeOK'
    BY <2>1, <2>2, <2>3 DEF Typed, TypeOK
  <2>6. QED
    BY <2>1, <2>2, <2>3, <2>4, <2>5, OthersHold DEF Typed
<1>3. CASE InsertCode(r)
  <2>1. PICK c, q :
       /\ c \in Code \ Drawn
       /\ code' = [d \in Drawn \cup {c} |-> IF d = c THEN "unused" ELSE code[d]]
       /\ q = [req[r] EXCEPT !.codes = req[r].codes \cup {c},
                 !.pc = IF Cardinality(req[r].codes) + 1 = BatchSize
                        THEN "deliver" ELSE "codes"]
       /\ req' = [req EXCEPT ![r] = [@ EXCEPT !.codes = req[r].codes \cup {c},
                    !.pc = IF Cardinality(req[r].codes) + 1 = BatchSize
                           THEN "deliver" ELSE "codes"]]
    BY <1>3 DEF InsertCode
  <2>2. /\ req[r].pc = "codes"
        /\ UNCHANGED <<totp, drawn, open, shown, proven, logins, overlapped, mixed>>
    BY <1>3 DEF InsertCode
  <2>3. /\ IsFiniteSet(req[r].codes) /\ Cardinality(req[r].codes) \in Nat
        /\ Cardinality(req[r].codes) < BatchSize /\ c \notin req[r].codes
        /\ req[r] \in Request
    BY <2>1, <2>2, Requests, FS_CardinalityType DEF InHand
  <2>4. /\ IsFiniteSet(req[r].codes \cup {c})
        /\ Cardinality(req[r].codes \cup {c}) = Cardinality(req[r].codes) + 1
    BY <2>3, FS_AddElement, Zenon
  <2>5. Cardinality(req[r].codes \cup {c}) <= BatchSize
    BY <2>3, <2>4, SizeAssumption
  <2>6. /\ q \in Request /\ q.codes = req[r].codes \cup {c} /\ q.secret = req[r].secret
        /\ q.pc \in {"codes", "deliver"}
        /\ q.pc = "codes" => Cardinality(req[r].codes \cup {c}) # BatchSize
    BY <2>1, <2>3, <2>4, <2>5 DEF Request, PC
  <2>7. req' = [req EXCEPT ![r] = q]
    BY <2>1 DEF Typed, TypeOK
  <2>8. /\ req' \in [Req -> Request] /\ req'[r] = q /\ \A s \in Req \ {r} : req'[s] = req[s]
    BY <2>6, <2>7, Requests
  <2>9. Drawn' = Drawn \cup {c} /\ code' \in [Drawn' -> {"unused", "used", "deleted"}]
    BY <2>1 DEF Drawn, Typed, TypeOK
  <2>10. InHand(r)'
    <3>1. q.pc = "codes" => Cardinality(q.codes) < BatchSize
      BY <2>3, <2>4, <2>5, <2>6, SizeAssumption
    <3>2. q.secret \in drawn' \cup {None} /\ q.codes \subseteq Drawn' /\ IsFiniteSet(q.codes)
      BY <2>2, <2>4, <2>6, <2>9, Requests DEF InHand
    <3>3. QED
      BY <2>6, <2>8, <3>1, <3>2 DEF InHand
  <2>11. TypeOK'
    BY <2>1, <2>2, <2>8, <2>9 DEF Typed, TypeOK
  <2>12. QED
    BY <2>2, <2>8, <2>9, <2>10, <2>11, OthersHold DEF Typed
<1>4. CASE Deliver(r)
  <2>1. /\ Finish(r) /\ shown' = shown \cup req[r].codes \cup ({req[r].secret} \ {None})
        /\ UNCHANGED <<totp, drawn, code, open, proven, logins, overlapped, mixed>>
        /\ Drawn' = Drawn
    BY <1>4 DEF Deliver, Drawn
  <2>2. /\ req' \in [Req -> Request] /\ req'[r] = Idle
        /\ \A s \in Req \ {r} : req'[s] = req[s]
    BY <2>1, Requests
  <2>3. InHand(r)'
    BY <2>2, InHandIdle
  <2>4. shown' \subseteq drawn \cup Drawn /\ shown \subseteq shown'
    BY <2>1, Requests DEF InHand, Typed, TypeOK
  <2>5. TypeOK'
    BY <2>1, <2>2, <2>4 DEF Typed, TypeOK
  <2>6. QED
    BY <2>1, <2>2, <2>3, <2>5, OthersHold DEF Typed
<1>5. CASE DropCodes(r)
  <2>1. /\ Finish(r) /\ DeleteCodes
        /\ UNCHANGED <<totp, drawn, open, shown, proven, logins, overlapped, mixed>>
    BY <1>5 DEF DropCodes
  <2>2. Drawn' = Drawn /\ code' \in [Drawn' -> {"unused", "used", "deleted"}]
    BY <2>1, Rows
  <2>3. /\ req' \in [Req -> Request] /\ req'[r] = Idle
        /\ \A s \in Req \ {r} : req'[s] = req[s]
    BY <2>1, Requests
  <2>4. InHand(r)'
    BY <2>3, InHandIdle
  <2>5. TypeOK'
    BY <2>1, <2>2, <2>3 DEF Typed, TypeOK
  <2>6. QED
    BY <2>1, <2>2, <2>3, <2>4, <2>5, OthersHold DEF Typed
<1>6. QED
  BY <1>1, <1>2, <1>3, <1>4, <1>5 DEF Codes

OnceEach == \A c \in Code : CodeOnceEach(c)

LEMMA AnswerTyped ==
  ASSUME Typed, OnceEach, NEW r \in Req, Answer(r) \/ Abort(r)
  PROVE  Typed'
<1> USE DEF store, history
<1>1. CASE AnswerWithCode(r)
  <2>1. PICK c, q :
       /\ c \in Unused
       /\ q = [Idle EXCEPT !.pc = "spend", !.code = c] /\ Begin(r, q)
       /\ overlapped' \in {overlapped, overlapped \cup {c}}
    BY <1>1 DEF AnswerWithCode
  <2>2. c \in Drawn /\ c \in Code
    BY <2>1 DEF Unused, Typed, TypeOK
  <2>3. q \in Request /\ q.pc = "spend" /\ q.secret = None /\ q.codes = {} /\ q.code = c
    BY <2>1, <2>2, IdleRequest DEF Request, PC
  <2>4. /\ req' \in [Req -> Request] /\ req'[r] = q /\ \A s \in Req \ {r} : req'[s] = req[s]
    BY <2>1, <2>3, Requests DEF Begin
  <2>5. UNCHANGED <<totp, drawn, code, open, shown, proven, logins, mixed>> /\ Drawn' = Drawn
    BY <1>1 DEF AnswerWithCode, Drawn
  <2>6. InHand(r)'
    BY <2>2, <2>3, <2>4, <2>5, FS_EmptySet DEF InHand
  <2>7. TypeOK'
    BY <2>1, <2>2, <2>4, <2>5 DEF Typed, TypeOK
  <2>8. QED
    BY <2>4, <2>5, <2>6, <2>7, OthersHold DEF Typed
<1>2. CASE SpendCode(r)
  <2>1. PICK c : c = req[r].code
    OBVIOUS
  <2>2. /\ Goto(r, "session") /\ req[r].pc = "spend"
        /\ code' = [code EXCEPT ![c] = IF @ = "deleted" THEN @ ELSE "used"]
        /\ UNCHANGED <<totp, drawn, open, shown, proven, logins, overlapped, mixed>>
    BY <1>2, <2>1 DEF SpendCode
  <2>3. Drawn' = Drawn /\ code' \in [Drawn' -> {"unused", "used", "deleted"}]
    BY <2>2 DEF Drawn, Typed, TypeOK
  <2>4. /\ req' \in [Req -> Request] /\ req'[r].pc = "session" /\ req'[r].code = req[r].code
        /\ req'[r].secret = req[r].secret /\ req'[r].codes = req[r].codes
        /\ \A s \in Req \ {r} : req'[s] = req[s]
    BY <2>2, Requests DEF PC
  <2>5. InHand(r)'
    BY <2>2, <2>3, <2>4, Requests DEF InHand
  <2>6. TypeOK'
    BY <2>2, <2>3, <2>4 DEF Typed, TypeOK
  <2>7. QED
    BY <2>2, <2>3, <2>4, <2>5, <2>6, OthersHold DEF Typed
<1>3. CASE GiveSession(r) \/ Abort(r)
  <2>1. /\ Finish(r) /\ mixed' \in BOOLEAN
        /\ UNCHANGED <<totp, drawn, code, open, shown, proven, overlapped>> /\ Drawn' = Drawn
    BY <1>3 DEF GiveSession, Abort, Drawn, Typed, TypeOK
  <2>2. /\ req' \in [Req -> Request] /\ req'[r] = Idle
        /\ \A s \in Req \ {r} : req'[s] = req[s]
    BY <2>1, Requests
  <2>3. InHand(r)'
    BY <2>2, InHandIdle
  <2>4. logins' \in [Code -> 0..Cardinality(Req)]
    <3>1. CASE Abort(r)
      BY <3>1 DEF Abort, Typed, TypeOK
    <3>2. CASE GiveSession(r)
      <4>1. PICK c \in Code : /\ c = req[r].code /\ req[r].pc = "session"
                              /\ logins' = [logins EXCEPT ![c] = @ + 1]
        BY <3>2, Requests DEF GiveSession, InHand, Typed, TypeOK
      <4>2. /\ logins[c] + Cardinality(HoldersOf(c)) <= Cardinality(Req)
            /\ logins[c] \in Nat /\ Cardinality(Req) \in Nat
        BY FS_CardinalityType, ReqAssumption DEF OnceEach, CodeOnceEach, Typed, TypeOK
      <4>3. /\ Cardinality(HoldersOf(c)) \in Nat
            /\ Cardinality(HoldersOf(c)) # 0
        <5>1. IsFiniteSet(HoldersOf(c)) /\ HoldersOf(c) # {}
          BY <4>1, FS_Subset, ReqAssumption DEF HoldersOf
        <5>2. QED
          BY <5>1, FS_EmptySet, FS_CardinalityType
      <4>4. logins[c] + 1 \in 0..Cardinality(Req)
        BY <4>2, <4>3
      <4>5. QED
        BY <4>1, <4>4 DEF Typed, TypeOK
    <3>3. QED
      BY <1>3, <3>1, <3>2
  <2>5. TypeOK'
    BY <2>1, <2>2, <2>4 DEF Typed, TypeOK
  <2>6. QED
    BY <2>1, <2>2, <2>3, <2>5, OthersHold DEF Typed
<1>4. QED
  BY <1>1, <1>2, <1>3 DEF Answer

LEMMA TypedStep == Typed /\ OnceEach /\ [Next]_vars => Typed'
<1> SUFFICES ASSUME Typed, OnceEach, [Next]_vars PROVE Typed'
  OBVIOUS
<1>1. CASE Challenge \/ CloseChallenges \/ UNCHANGED vars
  <2>1. /\ UNCHANGED <<totp, drawn, code, shown, req, proven, logins, overlapped, mixed>>
        /\ open' \in BOOLEAN
    BY <1>1 DEF Challenge, CloseChallenges, vars, store, history, Typed, TypeOK
  <2>2. QED
    BY <2>1 DEF Typed, TypeOK, Held, InHand, Drawn
<1>2. QED
  BY <1>1, EnrolTyped, CodesTyped, AnswerTyped DEF Next

\* Whatever a step does to other codes and requests, one that adds no answer with
\* this code leaves it as spent as it was.
LEMMA OnceKept ==
  ASSUME Typed, NEW c \in Code, CodeOnceEach(c),
         HoldersOf(c)' \subseteq HoldersOf(c), \A s \in HoldersOf(c)' : req'[s] = req[s],
         logins'[c] = logins[c], c \in Drawn => c \in Drawn', c \in Unused' => c \in Unused,
         overlapped \subseteq overlapped'
  PROVE  CodeOnceEach(c)'
<1>1. /\ IsFiniteSet(HoldersOf(c)) /\ Cardinality(HoldersOf(c)') <= Cardinality(HoldersOf(c))
      /\ Cardinality(HoldersOf(c)) \in Nat /\ Cardinality(HoldersOf(c)') \in Nat
  BY FS_Subset, FS_CardinalityType, ReqAssumption DEF HoldersOf
<1>2. logins[c] \in Nat /\ Cardinality(Req) \in Nat
  BY FS_CardinalityType, ReqAssumption DEF Typed, TypeOK
<1>3. logins'[c] + Cardinality(HoldersOf(c)') <= Cardinality(Req)
  BY <1>1, <1>2 DEF CodeOnceEach
<1>4. c \notin Drawn' => HoldersOf(c)' = {} /\ logins'[c] = 0
  BY DEF CodeOnceEach
<1>5. c \in Unused' => logins'[c] = 0 /\ \A r \in HoldersOf(c)' : req'[r].pc = "spend"
  BY DEF CodeOnceEach
<1>6. c \notin overlapped' =>
        logins'[c] <= 1 /\ \A r \in HoldersOf(c)' : HoldersOf(c)' = {r} /\ logins'[c] = 0
  BY DEF CodeOnceEach
<1>7. QED
  BY <1>3, <1>4, <1>5, <1>6 DEF CodeOnceEach, HoldersOf

\* Which steps touch the codes, the answers and what is noted of them.
LEMMA AnswerSteps ==
  ASSUME Typed, [Next]_vars
  PROVE  /\ \/ \E r \in Req : AnswerWithCode(r) \/ SpendCode(r) \/ GiveSession(r) \/ InsertCode(r)
            \/ /\ UNCHANGED logins /\ overlapped \subseteq overlapped'
               /\ Drawn' = Drawn /\ Unused' \subseteq Unused
               /\ \A c \in Code : /\ HoldersOf(c)' \subseteq HoldersOf(c)
                                  /\ \A s \in HoldersOf(c)' : req'[s] = req[s]
<1> USE DEF store, history
<1> DEFINE Held0 == \A c \in Code : /\ HoldersOf(c)' \subseteq HoldersOf(c)
                                    /\ \A s \in HoldersOf(c)' : req'[s] = req[s]
           Goal == /\ UNCHANGED logins /\ overlapped \subseteq overlapped'
                   /\ Drawn' = Drawn /\ Unused' \subseteq Unused
                   /\ Held0
<1>1. ASSUME NEW r \in Req, \A s \in Req \ {r} : req'[s] = req[s],
             req'[r].pc \notin {"spend", "session"}
      PROVE  Held0
  BY <1>1 DEF HoldersOf
<1>2. UNCHANGED code => Drawn' = Drawn /\ Unused' \subseteq Unused
  BY Rows
<1>3. DeleteCodes => Drawn' = Drawn /\ Unused' \subseteq Unused
  BY Rows
<1>4. ASSUME NEW r \in Req, Finish(r) PROVE Held0
  BY <1>1, <1>4, Requests, IdleRequest
<1>5. ASSUME NEW r \in Req, NEW pc \in PC \ {"spend", "session"}, Goto(r, pc) PROVE Held0
  BY <1>1, <1>5, Requests
<1>6. ASSUME NEW r \in Req, NEW q, q.pc \notin {"spend", "session"}, Begin(r, q) PROVE Held0
  <2>1. req'[r] = q /\ \A s \in Req \ {r} : req'[s] = req[s]
    BY <1>6 DEF Begin, Typed, TypeOK
  <2>2. QED
    BY <1>1, <1>6, <2>1
<1>7. ASSUME NEW r \in Req, EnrolRead(r) \/ ConfirmRead(r) \/ Regenerate(r) \/ Disable(r)
      PROVE  Goal
  <2>1. PICK q : q.pc \notin {"spend", "session"} /\ Begin(r, q)
    BY <1>7 DEF EnrolRead, ConfirmRead, Regenerate, Disable, Idle
  <2>2. UNCHANGED <<code, logins, overlapped>>
    BY <1>7 DEF EnrolRead, ConfirmRead, Regenerate, Disable
  <2>3. QED
    BY <1>2, <1>6, <2>1, <2>2
<1>8. ASSUME NEW r \in Req, EnrolClear(r) \/ EnrolInsert(r) PROVE Goal
  <2>1. UNCHANGED <<code, logins, overlapped>>
    BY <1>8 DEF EnrolClear, EnrolInsert
  <2>2. CASE Goto(r, "insert") \/ Finish(r)
    BY <1>2, <1>4, <1>5, <2>1, <2>2 DEF PC
  <2>3. CASE \E s \in Secret : req' = [req EXCEPT ![r] = [@ EXCEPT !.pc = "wipe", !.secret = s]]
    <3>1. PICK s, q :
         /\ s \in Secret
         /\ q = [req[r] EXCEPT !.pc = "wipe", !.secret = s]
         /\ req' = [req EXCEPT ![r] = q]
      BY <2>3 DEF Typed, TypeOK
    <3>2. q.pc = "wipe"
      BY <3>1, Requests DEF Request
    <3>3. req'[r] = q /\ \A u \in Req \ {r} : req'[u] = req[u]
      BY <3>1 DEF Typed, TypeOK
    <3>4. QED
      BY <1>1, <1>2, <2>1, <3>2, <3>3
  <2>4. QED
    BY <1>8, <2>2, <2>3 DEF EnrolClear, EnrolInsert
<1>9. ASSUME NEW r \in Req, Wipe(r) \/ DropCodes(r) PROVE Goal
  BY <1>3, <1>4, <1>5, <1>9 DEF Wipe, DropCodes, PC
<1>10. ASSUME NEW r \in Req, Confirm(r) \/ Deliver(r) \/ Abort(r) PROVE Goal
  BY <1>2, <1>4, <1>10 DEF Confirm, Deliver, Abort
<1>11. CASE Challenge \/ CloseChallenges \/ UNCHANGED vars
  BY <1>2, <1>11 DEF Challenge, CloseChallenges, vars, HoldersOf
<1>12. QED
  BY <1>7, <1>8, <1>9, <1>10, <1>11 DEF Next, Enrol, Codes, Answer

LEMMA OnceStep == Typed /\ OnceEach /\ [Next]_vars => OnceEach'
<1> SUFFICES ASSUME Typed, OnceEach, [Next]_vars, NEW c \in Code PROVE CodeOnceEach(c)'
  BY DEF OnceEach
<1> USE DEF store, history
<1>1. /\ CodeOnceEach(c) /\ logins[c] \in Nat /\ Cardinality(Req) \in Nat
      /\ IsFiniteSet(HoldersOf(c)) /\ Cardinality(HoldersOf(c)) \in Nat
      /\ IsFiniteSet(HoldersOf(c)') /\ Cardinality(HoldersOf(c)') \in Nat
      /\ Cardinality(HoldersOf(c)') <= Cardinality(Req)
  BY FS_Subset, FS_CardinalityType, ReqAssumption DEF OnceEach, Typed, TypeOK, HoldersOf
<1>2. CASE \E r \in Req : AnswerWithCode(r)
  <2>1. PICK r, d, q :
       /\ r \in Req /\ d \in Unused
       /\ q = [Idle EXCEPT !.pc = "spend", !.code = d] /\ Begin(r, q)
       /\ overlapped' = IF \E s \in Req : req[s].pc = "spend" /\ req[s].code = d
                        THEN overlapped \cup {d} ELSE overlapped
       /\ UNCHANGED <<code, logins>>
    BY <1>2 DEF AnswerWithCode
  <2>2. q \in Request /\ q.pc = "spend" /\ q.code = d /\ d \in Drawn
    BY <2>1, IdleRequest DEF Request, PC, Unused, Typed, TypeOK
  <2>3. req'[r] = q /\ \A s \in Req \ {r} : req'[s] = req[s]
    BY <2>1, <2>2, Requests DEF Begin
  <2>4. Drawn' = Drawn /\ Unused' = Unused
    BY <2>1, Rows
  <2>5. CASE c # d
    <3>1. HoldersOf(c)' \subseteq HoldersOf(c) /\ \A s \in HoldersOf(c)' : req'[s] = req[s]
      BY <2>2, <2>3, <2>5 DEF HoldersOf
    <3>2. QED
      BY <1>1, <2>1, <2>4, <3>1, OnceKept
  <2>6. CASE c = d
    <3>1. logins'[c] = 0 /\ \A s \in HoldersOf(c) : req[s].pc = "spend"
      BY <1>1, <2>1, <2>6 DEF CodeOnceEach
    <3>2. \A s \in HoldersOf(c)' : req'[s].pc = "spend"
      BY <2>2, <2>3, <3>1 DEF HoldersOf
    <3>3. c \notin overlapped' => HoldersOf(c)' = {r}
      BY <2>1, <2>2, <2>3, <2>6, <3>1 DEF HoldersOf
    <3>4. logins'[c] + Cardinality(HoldersOf(c)') <= Cardinality(Req)
      BY <1>1, <3>1
    <3>5. QED
      BY <2>2, <2>4, <2>6, <3>1, <3>2, <3>3, <3>4 DEF CodeOnceEach, HoldersOf
  <2>7. QED
    BY <2>5, <2>6
<1>3. CASE \E r \in Req : SpendCode(r)
  <2>1. PICK r, d :
       /\ r \in Req
       /\ d = req[r].code /\ SpendCode(r)
    BY <1>3
  <2>2. /\ req[r].pc = "spend" /\ Goto(r, "session") /\ d \in Drawn
        /\ code' = [code EXCEPT ![d] = IF @ = "deleted" THEN @ ELSE "used"]
        /\ UNCHANGED <<logins, overlapped>>
    BY <2>1, Requests DEF SpendCode, InHand
  <2>3. Drawn' = Drawn /\ Unused' = Unused \ {d}
    BY <2>2 DEF Drawn, Unused, Typed, TypeOK
  <2>4. /\ req'[r].pc = "session" /\ req'[r].code = d /\ \A s \in Req \ {r} : req'[s] = req[s]
    BY <2>1, <2>2, Requests DEF PC
  <2>5. HoldersOf(c)' = HoldersOf(c)
    BY <2>1, <2>2, <2>4 DEF HoldersOf
  <2>6. CASE c # d
    BY <1>1, <2>1, <2>2, <2>3, <2>4, <2>5, <2>6, OnceKept DEF HoldersOf
  <2>7. CASE c = d
    BY <1>1, <2>2, <2>3, <2>5, <2>7 DEF CodeOnceEach, HoldersOf
  <2>8. QED
    BY <2>6, <2>7
<1>4. CASE \E r \in Req : GiveSession(r)
  <2>1. PICK r, d :
       /\ r \in Req
       /\ d = req[r].code /\ GiveSession(r)
    BY <1>4
  <2>2. /\ req[r].pc = "session" /\ Finish(r) /\ d \in Drawn /\ d \in Code
        /\ logins' = [logins EXCEPT ![d] = @ + 1] /\ UNCHANGED <<code, overlapped>>
    BY <2>1, Requests DEF GiveSession, InHand, Typed, TypeOK
  <2>3. Drawn' = Drawn /\ Unused' = Unused
    BY <2>2, Rows
  <2>4. req'[r].pc = "idle" /\ \A s \in Req \ {r} : req'[s] = req[s]
    BY <2>1, <2>2, Requests, IdleRequest
  <2>5. CASE c # d
    <3>1. HoldersOf(c)' \subseteq HoldersOf(c) /\ \A s \in HoldersOf(c)' : req'[s] = req[s]
      BY <2>4 DEF HoldersOf
    <3>2. logins'[c] = logins[c]
      BY <2>2, <2>5 DEF Typed, TypeOK
    <3>3. QED
      BY <1>1, <2>2, <2>3, <3>1, <3>2, OnceKept
  <2>6. CASE c = d
    <3>1. r \in HoldersOf(c) /\ HoldersOf(c)' = HoldersOf(c) \ {r}
      BY <2>1, <2>2, <2>4, <2>6 DEF HoldersOf
    <3>2. Cardinality(HoldersOf(c)') = Cardinality(HoldersOf(c)) - 1
      BY <1>1, <3>1, FS_RemoveElement
    <3>3. logins'[c] = logins[c] + 1
      BY <2>2, <2>6 DEF Typed, TypeOK
    <3>4. logins'[c] + Cardinality(HoldersOf(c)') <= Cardinality(Req)
      BY <1>1, <3>2, <3>3 DEF CodeOnceEach
    <3>5. c \notin Unused
      BY <1>1, <2>2, <3>1 DEF CodeOnceEach
    <3>6. c \notin overlapped => logins'[c] = 1 /\ HoldersOf(c)' = {}
      BY <1>1, <3>1, <3>3 DEF CodeOnceEach
    <3>7. QED
      BY <2>2, <2>3, <2>6, <3>4, <3>5, <3>6 DEF CodeOnceEach, HoldersOf
  <2>7. QED
    BY <2>5, <2>6
<1>5. CASE \E r \in Req : InsertCode(r)
  <2>1. PICK r, d, q :
       /\ r \in Req /\ d \in Code \ Drawn
       /\ code' = [e \in Drawn \cup {d} |-> IF e = d THEN "unused" ELSE code[e]]
       /\ q = [req[r] EXCEPT !.codes = req[r].codes \cup {d},
                 !.pc = IF Cardinality(req[r].codes) + 1 = BatchSize
                        THEN "deliver" ELSE "codes"]
       /\ req' = [req EXCEPT ![r] = [@ EXCEPT !.codes = req[r].codes \cup {d},
                    !.pc = IF Cardinality(req[r].codes) + 1 = BatchSize
                           THEN "deliver" ELSE "codes"]]
       /\ UNCHANGED <<logins, overlapped>>
    BY <1>5 DEF InsertCode
  <2>2. q.pc \notin {"spend", "session"}
    BY <2>1, Requests DEF Request
  <2>3. req'[r] = q /\ \A s \in Req \ {r} : req'[s] = req[s]
    <3>1. req' = [req EXCEPT ![r] = q]
      BY <2>1 DEF Typed, TypeOK
    <3>2. QED
      BY <2>1, <3>1 DEF Typed, TypeOK
  <2>4. HoldersOf(c)' \subseteq HoldersOf(c) /\ \A s \in HoldersOf(c)' : req'[s] = req[s]
    BY <2>2, <2>3 DEF HoldersOf
  <2>5. Drawn' = Drawn \cup {d} /\ Unused' = Unused \cup {d}
    BY <2>1 DEF Drawn, Unused
  <2>6. CASE c # d
    BY <1>1, <2>1, <2>4, <2>5, <2>6, OnceKept
  <2>7. CASE c = d
    <3>1. HoldersOf(c)' = {} /\ logins'[c] = 0
      BY <1>1, <2>1, <2>4, <2>7 DEF CodeOnceEach
    <3>2. QED
      BY <1>1, <2>5, <2>7, <3>1 DEF CodeOnceEach, HoldersOf
  <2>8. QED
    BY <2>6, <2>7
<1>6. CASE /\ UNCHANGED logins /\ overlapped \subseteq overlapped'
           /\ Drawn' = Drawn /\ Unused' \subseteq Unused
           /\ HoldersOf(c)' \subseteq HoldersOf(c)
           /\ \A s \in HoldersOf(c)' : req'[s] = req[s]
  BY <1>1, <1>6, OnceKept
<1>7. QED
  BY <1>2, <1>3, <1>4, <1>5, <1>6, AnswerSteps

\* The set stays whole while neither codes, loops nor the enrolment change.
LEMMA WholeKept ==
  ASSUME CodesWhole, Begun' => Begun, mixed => mixed', Kept' = Kept,
         \A s \in Req : /\ req'[s].pc = "dropcodes" => req[s].pc = "dropcodes"
                        /\ req'[s].pc = "codes" <=> req[s].pc = "codes"
                        /\ req'[s].pc = "codes" => req'[s].codes = req[s].codes
  PROVE  CodesWhole'
BY DEF CodesWhole

\* An enrolment that goes on began before, if no request enters the loop.
LEMMA BegunBefore ==
  ASSUME totp' # None => totp # None /\ totp'.secret = totp.secret,
         UNCHANGED shown,
         \A s \in Req : req'[s].pc \in {"codes", "deliver"} =>
           req[s].pc \in {"codes", "deliver"} /\ req'[s].secret = req[s].secret
  PROVE  Begun' => Begun
BY DEF Begun

LEMMA WholeStep == Typed /\ CodesWhole /\ [Next]_vars => CodesWhole'
<1> SUFFICES ASSUME Typed, CodesWhole, [Next]_vars PROVE CodesWhole'
  OBVIOUS
<1> USE DEF store, history
<1>1. ASSUME NEW r \in Req, EnrolRead(r) \/ ConfirmRead(r) \/ Regenerate(r) \/ AnswerWithCode(r)
      PROVE  CodesWhole'
  <2>1. PICK q : q.pc \notin {"codes", "deliver", "dropcodes"} /\ Begin(r, q)
    <3>1. CASE AnswerWithCode(r)
      <4>1. PICK c : Begin(r, [Idle EXCEPT !.pc = "spend", !.code = c])
        BY <3>1 DEF AnswerWithCode
      <4>2. QED
        BY <4>1 DEF Idle
    <3>2. QED
      BY <1>1, <3>1 DEF EnrolRead, ConfirmRead, Regenerate, Idle
  <2>2. req'[r] = q /\ \A s \in Req \ {r} : req'[s] = req[s]
    BY <2>1 DEF Begin, Typed, TypeOK
  <2>3. UNCHANGED <<totp, code, shown, mixed>> /\ req[r].pc = "idle"
    BY <1>1, <2>1 DEF EnrolRead, ConfirmRead, Regenerate, AnswerWithCode, Begin
  <2>4. Begun' => Begun
    BY <2>1, <2>2, <2>3, BegunBefore
  <2>5. QED
    BY <2>1, <2>2, <2>3, <2>4, WholeKept, Rows
<1>2. ASSUME NEW r \in Req, EnrolClear(r) \/ SpendCode(r) PROVE CodesWhole'
  <2>1. /\ Goto(r, "insert") \/ Goto(r, "session")
        /\ req[r].pc \in {"clear", "spend"} /\ UNCHANGED <<shown, mixed>>
        /\ totp' \in {totp, None}
    BY <1>2 DEF EnrolClear, SpendCode
  <2>2. /\ req'[r].pc \in {"insert", "session"} /\ \A s \in Req \ {r} : req'[s] = req[s]
    BY <2>1, Requests DEF PC
  <2>3. Kept' = Kept
    <3>1. CASE EnrolClear(r)
      BY <3>1, Rows DEF EnrolClear
    <3>2. CASE SpendCode(r)
      <4>1. PICK c : c = req[r].code
        OBVIOUS
      <4>2. /\ code' = [code EXCEPT ![c] = IF @ = "deleted" THEN @ ELSE "used"]
            /\ c \in Drawn
        BY <3>2, <4>1, Requests DEF SpendCode, InHand
      <4>3. QED
        BY <4>2 DEF Kept, Drawn, Typed, TypeOK
    <3>3. QED
      BY <1>2, <3>1, <3>2
  <2>4. Begun' => Begun
    BY <2>1, <2>2, BegunBefore
  <2>5. QED
    BY <2>1, <2>2, <2>3, <2>4, WholeKept
<1>3. ASSUME NEW r \in Req, EnrolInsert(r) PROVE CodesWhole'
  <2>1. UNCHANGED <<code, shown, mixed>> /\ req[r].pc = "insert"
    BY <1>3 DEF EnrolInsert
  <2>2. CASE Finish(r) /\ UNCHANGED totp
    <3>1. req'[r].pc = "idle" /\ \A s \in Req \ {r} : req'[s] = req[s]
      BY <2>2, Requests, IdleRequest
    <3>2. Begun' => Begun
      BY <2>1, <2>2, <3>1, BegunBefore
    <3>3. QED
      BY <2>1, <3>1, <3>2, WholeKept, Rows
  <2>3. CASE \E s \in Secret \ drawn :
               /\ totp' = [secret |-> s, verified |-> FALSE]
               /\ req' = [req EXCEPT ![r] = [@ EXCEPT !.pc = "wipe", !.secret = s]]
    <3>1. PICK s, q :
         /\ s \in Secret \ drawn
         /\ totp' = [secret |-> s, verified |-> FALSE]
         /\ q = [req[r] EXCEPT !.pc = "wipe", !.secret = s]
         /\ req' = [req EXCEPT ![r] = [@ EXCEPT !.pc = "wipe", !.secret = s]]
      BY <2>3
    <3>2. q.pc = "wipe" /\ req' = [req EXCEPT ![r] = q]
      BY <3>1, Requests DEF Request, Typed, TypeOK
    <3>3. req'[r].pc = "wipe" /\ \A u \in Req \ {r} : req'[u] = req[u]
      BY <3>2 DEF Typed, TypeOK
    <3>4. s \notin shown' /\ totp'.secret = s
      BY <2>1, <3>1, SortsAssumption DEF Typed, TypeOK
    <3>5. \A u \in Req \ {r} : req'[u].secret # s
      BY <3>1, <3>3, Requests, NoneAssumption DEF InHand
    <3>6. ~Begun'
      BY <3>3, <3>4, <3>5 DEF Begun
    <3>7. QED
      BY <3>6 DEF CodesWhole
  <2>4. QED
    BY <1>3, <2>2, <2>3 DEF EnrolInsert
<1>4. ASSUME NEW r \in Req, Confirm(r) PROVE CodesWhole'
  <2>1. /\ Finish(r) /\ UNCHANGED <<code, shown, mixed>> /\ req[r].pc = "confirm"
    BY <1>4 DEF Confirm
  <2>2. req'[r].pc = "idle" /\ \A s \in Req \ {r} : req'[s] = req[s]
    BY <2>1, Requests, IdleRequest
  <2>3. totp' # None => totp # None /\ totp'.secret = totp.secret
    <3>1. CASE totp \in Totp /\ totp # None /\ totp' = [totp EXCEPT !.verified = TRUE]
      BY <3>1 DEF Totp
    <3>2. QED
      BY <1>4, <3>1 DEF Confirm, Typed, TypeOK
  <2>4. Begun' => Begun
    BY <2>1, <2>2, <2>3, BegunBefore
  <2>5. QED
    BY <2>1, <2>2, <2>4, WholeKept, Rows
<1>5. ASSUME NEW r \in Req, Disable(r) PROVE CodesWhole'
  BY <1>5 DEF Disable, CodesWhole, Begun
<1>6. ASSUME NEW r \in Req, Wipe(r) PROVE CodesWhole'
  <2>1. /\ Goto(r, "codes") /\ DeleteCodes /\ req[r].pc = "wipe"
        /\ mixed' = \E s \in Req \ {r} : req[s].pc \in {"codes", "dropcodes"}
    BY <1>6 DEF Wipe
  <2>2. /\ req'[r].pc = "codes" /\ req'[r].codes = {} /\ \A s \in Req \ {r} : req'[s] = req[s]
    BY <2>1, Requests DEF PC, InHand
  <2>3. Kept' = {}
    BY <2>1, Rows
  <2>4. ~mixed' => \A s \in Req \ {r} : req'[s].pc \notin {"codes", "dropcodes"}
    BY <2>1, <2>2
  <2>5. QED
    BY <2>2, <2>3, <2>4 DEF CodesWhole
<1>7. ASSUME NEW r \in Req, InsertCode(r) PROVE CodesWhole'
  <2>1. PICK c, q :
       /\ c \in Code \ Drawn
       /\ code' = [e \in Drawn \cup {c} |-> IF e = c THEN "unused" ELSE code[e]]
       /\ q = [req[r] EXCEPT !.codes = req[r].codes \cup {c},
                 !.pc = IF Cardinality(req[r].codes) + 1 = BatchSize
                        THEN "deliver" ELSE "codes"]
       /\ req' = [req EXCEPT ![r] = [@ EXCEPT !.codes = req[r].codes \cup {c},
                    !.pc = IF Cardinality(req[r].codes) + 1 = BatchSize
                           THEN "deliver" ELSE "codes"]]
    BY <1>7 DEF InsertCode
  <2>2. /\ q.codes = req[r].codes \cup {c} /\ q.secret = req[r].secret
        /\ q.pc = IF Cardinality(req[r].codes) + 1 = BatchSize THEN "deliver" ELSE "codes"
    BY <2>1, Requests DEF Request
  <2>3. req'[r] = q /\ \A s \in Req \ {r} : req'[s] = req[s]
    <3>1. req' = [req EXCEPT ![r] = q]
      BY <2>1 DEF Typed, TypeOK
    <3>2. QED
      BY <3>1 DEF Typed, TypeOK
  <2>4. UNCHANGED <<totp, shown, mixed>> /\ req[r].pc = "codes"
    BY <1>7 DEF InsertCode
  <2>5. Begun' => Begun
    BY <2>2, <2>3, <2>4, BegunBefore
  <2>6. Kept' = Kept \cup {c}
    BY <2>1 DEF Kept, Drawn
  <2>7. c \notin req[r].codes /\ IsFiniteSet(req[r].codes)
    BY <2>1, Requests DEF InHand
  <2>8. Cardinality(q.codes) = Cardinality(req[r].codes) + 1
    <3>1. Cardinality(req[r].codes \cup {c}) = Cardinality(req[r].codes) + 1
      BY <2>7, FS_AddElement, Zenon
    <3>2. QED
      BY <2>2, <3>1
  <2>9. ASSUME Begun, ~mixed
        PROVE  /\ Kept' = q.codes
               /\ \A s \in Req \ {r} : req'[s].pc \notin {"codes", "dropcodes"}
    BY <2>2, <2>3, <2>4, <2>6, <2>9 DEF CodesWhole
  <2>10. QED
    BY <2>2, <2>3, <2>4, <2>5, <2>8, <2>9 DEF CodesWhole
<1>8. ASSUME NEW r \in Req, Deliver(r) PROVE CodesWhole'
  <2>1. /\ req[r].pc = "deliver" /\ Finish(r) /\ UNCHANGED <<totp, code, mixed>>
        /\ shown' = shown \cup req[r].codes \cup ({req[r].secret} \ {None})
    BY <1>8 DEF Deliver
  <2>2. req'[r].pc = "idle" /\ \A s \in Req \ {r} : req'[s] = req[s]
    BY <2>1, Requests, IdleRequest
  <2>3. totp # None => totp.secret \notin req[r].codes
    BY Requests, SortsAssumption DEF InHand, Typed, TypeOK, Totp
  <2>4. Begun' => Begun
    BY <2>1, <2>2, <2>3 DEF Begun
  <2>5. QED
    BY <2>1, <2>2, <2>4, WholeKept, Rows
<1>9. ASSUME NEW r \in Req, DropCodes(r) PROVE CodesWhole'
  <2>1. req[r].pc = "dropcodes" /\ Finish(r) /\ UNCHANGED <<totp, shown, mixed>>
    BY <1>9 DEF DropCodes
  <2>2. req'[r].pc = "idle" /\ \A s \in Req \ {r} : req'[s] = req[s]
    BY <2>1, Requests, IdleRequest
  <2>3. Begun' => Begun
    BY <2>1, <2>2, BegunBefore
  <2>4. QED
    BY <2>1, <2>3 DEF CodesWhole
<1>10. ASSUME NEW r \in Req, GiveSession(r) \/ Abort(r) PROVE CodesWhole'
  <2>1. /\ Finish(r) /\ UNCHANGED <<totp, code, shown>>
        /\ mixed => mixed'
        /\ req[r].pc = "codes" => mixed'
    <3>1. CASE GiveSession(r)
      BY <3>1 DEF GiveSession
    <3>2. CASE Abort(r)
      BY <3>2 DEF Abort
    <3>3. QED
      BY <1>10, <3>1, <3>2
  <2>2. req'[r].pc = "idle" /\ \A s \in Req \ {r} : req'[s] = req[s]
    BY <2>1, Requests, IdleRequest
  <2>3. Begun' => Begun
    BY <2>1, <2>2, BegunBefore
  <2>4. CASE req[r].pc = "codes"
    BY <2>1, <2>4 DEF CodesWhole
  <2>5. CASE req[r].pc # "codes"
    BY <2>1, <2>2, <2>3, <2>5, WholeKept, Rows
  <2>6. QED
    BY <2>4, <2>5
<1>11. CASE Challenge \/ CloseChallenges \/ UNCHANGED vars
  <2>1. UNCHANGED <<totp, code, shown, mixed, req>>
    BY <1>11 DEF Challenge, CloseChallenges, vars
  <2>2. QED
    BY <2>1 DEF CodesWhole, Begun, Kept, Drawn
<1>12. QED
  BY <1>1, <1>2, <1>3, <1>4, <1>5, <1>6, <1>7, <1>8, <1>9, <1>10, <1>11
  DEF Next, Enrol, Codes, Answer

LEMMA FactorInit == Init => FactorInv
<1> SUFFICES ASSUME Init PROVE FactorInv
  OBVIOUS
<1>1. Drawn = {} /\ \A c \in Code : HoldersOf(c) = {}
  BY IdleRequest DEF Init, Drawn, HoldersOf
<1>2. Cardinality({}) = 0 /\ Cardinality(Req) \in Nat
  BY FS_EmptySet, FS_CardinalityType, ReqAssumption
<1>3. TypeOK
  <2>1. code \in [Drawn -> {"unused", "used", "deleted"}]
    BY <1>1 DEF Init, Drawn
  <2>2. logins \in [Code -> 0..Cardinality(Req)]
    BY <1>2 DEF Init
  <2>3. req \in [Req -> Request]
    BY IdleRequest DEF Init
  <2>4. QED
    BY <1>1, <2>1, <2>2, <2>3 DEF Init, TypeOK
<1>4. \A r \in Req : InHand(r)
  BY IdleRequest, FS_EmptySet DEF Init, InHand
<1>5. CodesWhole
  BY DEF Init, CodesWhole, Begun
<1>6. ASSUME NEW c \in Code PROVE CodeOnceEach(c)
  <2>1. HoldersOf(c) = {} /\ logins[c] = 0 /\ Unused = {}
    BY <1>1 DEF Init, Unused
  <2>2. logins[c] + Cardinality(HoldersOf(c)) <= Cardinality(Req)
    BY <1>2, <2>1
  <2>3. QED
    BY <2>1, <2>2 DEF CodeOnceEach
<1>7. QED
  BY <1>3, <1>4, <1>5, <1>6 DEF FactorInv

LEMMA FactorStep == FactorInv /\ [Next]_vars => FactorInv'
<1> SUFFICES ASSUME FactorInv, [Next]_vars PROVE FactorInv'
  OBVIOUS
<1>1. Typed /\ OnceEach /\ CodesWhole
  BY DEF FactorInv, Typed, Held, OnceEach
<1>2. TypeOK' /\ Held'
  BY <1>1, TypedStep DEF Typed
<1>3. CodesWhole' /\ OnceEach'
  BY <1>1, WholeStep, OnceStep
<1>4. QED
  BY <1>2, <1>3 DEF FactorInv, Held, OnceEach

\* The invariant that carries the theorems below: requests have in hand what was
\* drawn, the codes are whole from the Wipe of their enrolment on, and a code has
\* no more answers under way and sessions given than requests that read it unused.
THEOREM FactorCorrect == Spec => []FactorInv
<1>1. Init => FactorInv
  BY FactorInit
<1>2. FactorInv /\ [Next]_vars => FactorInv'
  BY FactorStep
<1>3. QED
  BY <1>1, <1>2, PTL DEF Spec

\* The rows of mfa.service.ts keep their shape, only what was drawn is shown, and
\* a recovery code gives no more sessions than there are requests at a time.
THEOREM FactorTyped == Spec => []TypeOK
<1>1. FactorInv => TypeOK
  BY DEF FactorInv
<1>2. QED
  BY <1>1, FactorCorrect, PTL

\* An enrolled user has his whole set of recovery codes (enrollTotp,
\* regenerateRecoveryCodes) and each of them gives one session
\* (verifyMfaChallenge), but for loops that met or died and answers side by side.
THEOREM CodesAreWorthIt == Spec => []CodesHold
<1>1. ASSUME FactorInv, ProvenSecret PROVE CodesHold
  <2>1. Enrolled => Begun
    BY <1>1 DEF ProvenSecret, FactorInv, TypeOK, Enrolled, Begun
  <2>2. EnrolledHasCodes
    BY <1>1, <2>1 DEF EnrolledHasCodes, FactorInv, CodesWhole
  <2>3. \A c \in Code : CodeOnceEach(c) /\ logins[c] \in Nat
    BY <1>1 DEF FactorInv, TypeOK
  <2>4. CodeOnceUnlessOverlapped
    BY <2>3 DEF CodeOnceUnlessOverlapped, CodeOnceEach
  <2>5. QED
    BY <2>2, <2>4 DEF CodesHold
<1>2. QED
  BY <1>1, FactorCorrect, OnlyProvenSecrets, PTL
=============================================================================
