------------------------- MODULE OAuthGrants_proofs -------------------------
(***************************************************************************)
(* Theorems about OAuthGrants, for any users, clients, scopes, requests    *)
(* and any number of PARs, codes and families.                             *)
(***************************************************************************)
EXTENDS OAuthGrants, TLAPS

Typed == TypeOK /\ RowsRefer

-----------------------------------------------------------------------------
(* What the requests' own steps do, once for all the actions that do them. *)

LEMMA RequestTypes ==
  ASSUME TypeOK, NEW r \in Req
  PROVE  /\ req[r] \in Request
         /\ Finish(r) => req' \in [Req -> Request] /\ req'[r] = Idle
         /\ \A q \in Request : Begin(r, q) => req' \in [Req -> Request] /\ req'[r] = q
         /\ \A pc \in PC : Goto(r, pc) => /\ req' \in [Req -> Request]
                                          /\ req'[r] = [req[r] EXCEPT !.pc = pc]
         /\ \A q : Begin(r, q) \/ Finish(r) => \A s \in Req \ {r} : req'[s] = req[s]
         /\ \A pc : Goto(r, pc) => \A s \in Req \ {r} : req'[s] = req[s]
<1>1. Idle \in Request
  BY DEF Idle, Request, PC
<1>2. req[r] \in Request
  BY DEF TypeOK
<1>3. Finish(r) => req' \in [Req -> Request] /\ req'[r] = Idle
  BY <1>1 DEF TypeOK, Finish
<1>4. \A q \in Request : Begin(r, q) => req' \in [Req -> Request] /\ req'[r] = q
  BY DEF TypeOK, Begin
<1>5. ASSUME NEW pc \in PC, Goto(r, pc)
      PROVE  req' \in [Req -> Request] /\ req'[r] = [req[r] EXCEPT !.pc = pc]
  BY <1>5 DEF TypeOK, Goto, Request
<1>6. QED
  BY <1>2, <1>3, <1>4, <1>5 DEF TypeOK, Finish, Begin, Goto

LEMMA Moved ==
  ASSUME TypeOK, NEW r \in Req, NEW pc \in PC, Goto(r, pc)
  PROVE  /\ req'[r].pc = pc /\ req'[r].grant = req[r].grant /\ req'[r].scope = req[r].scope
         /\ req'[r].par = req[r].par /\ req'[r].code = req[r].code
         /\ req'[r].family = req[r].family /\ req'[r].free = req[r].free
<1>1. req'[r] = [req[r] EXCEPT !.pc = pc] /\ req[r] \in Request
  BY RequestTypes
<1>2. QED
  BY <1>1 DEF Request

LEMMA Ended ==
  ASSUME TypeOK, NEW r \in Req, Finish(r)
  PROVE  req'[r].pc = "idle" /\ req'[r].par = None /\ req'[r].family = None
<1>1. req'[r] = Idle
  BY RequestTypes
<1>2. QED
  BY <1>1 DEF Idle

(* Ending a request never makes what refers to rows untrue.                *)
LEMMA Referring ==
  ASSUME RowsRefer, NEW r \in Req,
         \A s \in Req \ {r} : req'[s] = req[s], Refers(r)',
         Drawn \subseteq Drawn', \A x \in Drawn : code'[x].grant = code[x].grant,
         \A x \in Drawn : code'[x].par = code[x].par,
         \A x \in Drawn' \ Drawn : code'[x].par # None => code'[x].par \in DOMAIN par,
         DOMAIN par \subseteq DOMAIN par',
         Issued \subseteq Issued', \A f \in Issued : origin'[f] = origin[f] /\ origin[f] \in Drawn
  PROVE  RowsRefer'
<1>1. ASSUME NEW s \in Req \ {r} PROVE Refers(s)'
  BY <1>1 DEF RowsRefer, Refers, GrantOf
<1>2. \A x \in Drawn' : code'[x].par # None => code'[x].par \in DOMAIN par'
  BY DEF RowsRefer
<1>3. QED
  BY <1>1, <1>2 DEF RowsRefer

-----------------------------------------------------------------------------
(* The tables keep their shape, and requests refer to rows. *)

LEMMA AuthorizingTypes ==
  ASSUME Typed, NEW r \in Req,
         \/ ReadPar(r) \/ CheckClient(r) \/ MergeConsents(r) \/ IssueCode(r) \/ MarkUsed(r)
         \/ StartConsent(r) \/ GrantConsent(r)
  PROVE  Typed'
<1> USE DEF Typed, Drawn, Issued, rows, history
<1>1. CASE ReadPar(r)
  <2>1. PICK p \in DOMAIN par, u \in User :
          Begin(r, [Idle EXCEPT !.pc = "client", !.grant = <<u, par[p].client>>,
                                !.scope = par[p].scope, !.par = p])
    BY <1>1 DEF ReadPar
  <2>2. PICK q : q = [Idle EXCEPT !.pc = "client", !.grant = <<u, par[p].client>>,
                                  !.scope = par[p].scope, !.par = p]
    OBVIOUS
  <2>3. q \in Request /\ q.pc = "client" /\ q.par = p /\ q.grant \in GrantId
    BY <2>2 DEF TypeOK, Idle, Request, PC, GrantId, ParRow
  <2>4. Begin(r, q)
    BY <2>1, <2>2
  <2>5. TypeOK'
    BY <1>1, <2>3, <2>4, RequestTypes DEF ReadPar, TypeOK
  <2>6. Refers(r)'
    BY <1>1, <2>3, <2>4, RequestTypes DEF ReadPar, Refers
  <2>7. QED
    BY <1>1, <2>4, <2>5, <2>6, RequestTypes, Referring DEF ReadPar, TypeOK
<1>2. CASE CheckClient(r)
  <2>1. \/ req' = [req EXCEPT ![r].pc = "insert", ![r].free = TRUE] \/ Goto(r, "merge")
    BY <1>2 DEF CheckClient, TypeOK
  <2>2. req'[r] \in Request /\ req' \in [Req -> Request] /\ \A s \in Req \ {r} : req'[s] = req[s]
    BY <2>1 DEF TypeOK, Request, PC, Goto
  <2>3. /\ req'[r].pc \in {"merge", "insert"} /\ req'[r].grant = req[r].grant
        /\ req'[r].par = req[r].par
    BY <2>1 DEF TypeOK, Request, Goto
  <2>4. TypeOK'
    BY <1>2, <2>2 DEF CheckClient, TypeOK
  <2>5. Refers(r)'
    BY <1>2, <2>3 DEF CheckClient, RowsRefer, Refers
  <2>6. QED
    BY <1>2, <2>2, <2>4, <2>5, Referring DEF CheckClient, TypeOK
<1>3. CASE MergeConsents(r)
  <2>1. Goto(r, "insert") \/ Finish(r)
    BY <1>3 DEF MergeConsents
  <2>2. TypeOK'
    BY <1>3, <2>1, RequestTypes DEF MergeConsents, TypeOK, PC
  <2>3. Refers(r)'
    BY <1>3, <2>1, Moved, Ended DEF MergeConsents, RowsRefer, Refers, PC
  <2>4. QED
    BY <1>3, <2>1, <2>2, <2>3, RequestTypes, Referring DEF MergeConsents, TypeOK
<1>4. CASE IssueCode(r)
  <2>1. PICK x \in Code \ Drawn :
          code' = [y \in Drawn \cup {x} |->
            IF y = x THEN [grant |-> req[r].grant, scope |-> req[r].scope, status |-> "open",
                           par |-> req[r].par, free |-> req[r].free]
            ELSE code[y]]
          /\ outdated' = (IF r \in outdated THEN outdated \cup {x} ELSE outdated) \ {r}
    BY <1>4 DEF IssueCode
  <2>2. req[r] \in Request /\ req[r].grant \in GrantId
    BY <1>4, RequestTypes DEF IssueCode, RowsRefer, Refers
  <2>3. /\ Drawn' = Drawn \cup {x} /\ code'[x] \in CodeRow /\ code'[x].par = req[r].par
        /\ \A y \in Drawn : code'[y] = code[y]
    BY <2>1, <2>2 DEF CodeRow, Request, Status
  <2>4. code' \in [Drawn' -> CodeRow]
    BY <2>1, <2>3 DEF TypeOK
  <2>5. (Goto(r, "mark") /\ req[r].par # None) \/ Finish(r)
    BY <1>4 DEF IssueCode
  <2>6. TypeOK'
    BY <1>4, <2>1, <2>3, <2>4, <2>5, RequestTypes DEF IssueCode, TypeOK, PC, GrantId
  <2>7. Refers(r)'
    BY <1>4, <2>2, <2>5, Moved, Ended DEF IssueCode, RowsRefer, Refers, PC
  <2>8. req[r].par # None => req[r].par \in DOMAIN par
    BY DEF RowsRefer, Refers
  <2>9. QED
    BY <1>4, <2>3, <2>5, <2>6, <2>7, <2>8, RequestTypes, Referring DEF IssueCode, TypeOK
<1>5. CASE MarkUsed(r)
  <2>1. Finish(r) /\ req[r].par \in DOMAIN par
    BY <1>5 DEF MarkUsed, RowsRefer, Refers
  <2>2. DOMAIN par' = DOMAIN par /\ par' \in [DOMAIN par' -> ParRow]
    BY <1>5, <2>1 DEF MarkUsed, TypeOK, ParRow, Status
  <2>3. TypeOK'
    BY <1>5, <2>1, <2>2, RequestTypes DEF MarkUsed, TypeOK
  <2>4. Refers(r)'
    BY <2>1, RequestTypes DEF TypeOK, Refers, Idle
  <2>5. QED
    BY <1>5, <2>1, <2>2, <2>3, <2>4, RequestTypes, Referring DEF MarkUsed, TypeOK
<1>6. CASE StartConsent(r)
  <2>1. PICK u, c, s, q :
       /\ u \in User /\ c \in Client /\ s \in Asked
       /\ q = [Idle EXCEPT !.pc = "approve", !.grant = <<u, c>>, !.scope = s]
       /\ Begin(r, q)
    BY <1>6 DEF StartConsent
  <2>2. q \in Request /\ q.pc = "approve" /\ q.par = None /\ q.grant \in GrantId
    BY <2>1, AskedAssumption DEF Idle, Request, PC, GrantId
  <2>3. TypeOK'
    BY <1>6, <2>1, <2>2, RequestTypes DEF StartConsent, TypeOK
  <2>4. Refers(r)'
    BY <2>1, <2>2, RequestTypes DEF TypeOK, Refers
  <2>5. QED
    BY <1>6, <2>1, <2>3, <2>4, RequestTypes, Referring DEF StartConsent, TypeOK
<1>7. CASE GrantConsent(r)
  <2>1. Goto(r, "insert") /\ req[r] \in Request /\ req[r].grant \in GrantId
    BY <1>7, RequestTypes DEF GrantConsent, RowsRefer, Refers
  <2>2. consent' \in [GrantId -> SUBSET SUBSET Scope]
    BY <1>7, <2>1 DEF GrantConsent, TypeOK, Request
  <2>3. TypeOK'
    BY <1>7, <2>1, <2>2, RequestTypes DEF GrantConsent, TypeOK, PC
  <2>4. Refers(r)'
    BY <1>7, <2>1, Moved DEF GrantConsent, RowsRefer, Refers, PC
  <2>5. QED
    BY <1>7, <2>1, <2>3, <2>4, RequestTypes, Referring DEF GrantConsent, TypeOK
<1>8. QED
  BY <1>1, <1>2, <1>3, <1>4, <1>5, <1>6, <1>7

LEMMA ExchangingTypes ==
  ASSUME Typed, NEW r \in Req,
         \/ ReadCode(r) \/ RedeemCode(r) \/ IssueTokens(r)
         \/ StartRotation(r) \/ CommitRotation(r)
  PROVE  Typed'
<1> USE DEF Typed, Drawn, Issued, rows, history
<1>1. CASE ReadCode(r)
  <2>1. PICK x, q :
       /\ x \in Drawn
       /\ q = [Idle EXCEPT !.pc = "redeem", !.grant = code[x].grant, !.code = x]
       /\ Begin(r, q)
       /\ outdated' = IF x \in outdated THEN outdated \cup {r} ELSE outdated
    BY <1>1 DEF ReadCode
  <2>2. code[x] \in CodeRow /\ x \in Code
    BY <2>1 DEF TypeOK
  <2>3. /\ q \in Request /\ q.pc = "redeem" /\ q.par = None /\ q.grant \in GrantId
        /\ q.code = x /\ q.grant = code[x].grant
    BY <2>1, <2>2 DEF Idle, Request, PC, CodeRow
  <2>4. TypeOK'
    BY <1>1, <2>1, <2>3, RequestTypes DEF ReadCode, TypeOK
  <2>5. Refers(r)'
    BY <1>1, <2>1, <2>3, RequestTypes DEF ReadCode, TypeOK, Refers
  <2>6. QED
    BY <1>1, <2>1, <2>4, <2>5, RequestTypes, Referring DEF ReadCode, TypeOK
<1>2. CASE RedeemCode(r)
  <2>1. /\ Goto(r, "issue") /\ req[r] \in Request /\ req[r].grant \in GrantId
        /\ req[r].code \in Drawn /\ code[req[r].code].grant = req[r].grant /\ req[r].par = None
    BY <1>2, RequestTypes DEF RedeemCode, RowsRefer, Refers
  <2>2. /\ Drawn' = Drawn /\ code' \in [Drawn -> CodeRow]
        /\ \A x \in Drawn : code'[x].grant = code[x].grant /\ code'[x].par = code[x].par
    <3>1. PICK row : row = [code[req[r].code] EXCEPT !.status = "used"]
      OBVIOUS
    <3>2. code' = [code EXCEPT ![req[r].code] = row]
      BY <1>2, <3>1 DEF RedeemCode
    <3>3. /\ row \in CodeRow
          /\ row.grant = code[req[r].code].grant /\ row.par = code[req[r].code].par
      BY <2>1, <3>1 DEF TypeOK, CodeRow, Status
    <3>4. code' \in [Drawn -> CodeRow]
      BY <2>1, <3>2, <3>3 DEF TypeOK
    <3>5. \A x \in Drawn : code'[x].grant = code[x].grant /\ code'[x].par = code[x].par
      BY <2>1, <3>2, <3>3 DEF TypeOK
    <3>6. Drawn' = Drawn
      BY <3>4
    <3>7. QED
      BY <3>4, <3>5, <3>6, Zenon
  <2>3. code' \in [DOMAIN code' -> CodeRow] /\ DOMAIN code' \subseteq Code
    BY <2>2 DEF TypeOK
  <2>4. overlapped' \subseteq Par \cup Code
    BY <1>2, <2>1 DEF RedeemCode, TypeOK
  <2>5. req' \in [Req -> Request]
    BY <2>1, RequestTypes DEF PC
  <2>6. TypeOK'
    BY <1>2, <2>2, <2>3, <2>4, <2>5 DEF RedeemCode, TypeOK
  <2>7. Refers(r)'
    BY <1>2, <2>1, <2>2, Moved DEF Refers, PC
  <2>8. QED
    BY <1>2, <2>1, <2>2, <2>6, <2>7, RequestTypes, Referring DEF RedeemCode, TypeOK
<1>3. CASE IssueTokens(r)
  <2>1. Finish(r) /\ req[r].code \in Drawn
    BY <1>3 DEF IssueTokens, RowsRefer, Refers
  <2>2. PICK f \in Family :
          /\ family[f] = "unused" /\ family' = [family EXCEPT ![f] = "live"]
          /\ origin' = [e \in Issued \cup {f} |-> IF e = f THEN req[r].code ELSE origin[e]]
          /\ outdated' = (IF r \in outdated THEN outdated \cup {f} ELSE outdated) \ {r}
    BY <1>3 DEF IssueTokens, Families!Issue
  <2>3. /\ Issued' = Issued \cup {f} /\ f \notin Issued
        /\ Issued' = {e \in Family : family'[e] # "unused"}
        /\ family' \in [Family -> Families!States]
        /\ origin' \in [Issued' -> Drawn]
        /\ \A e \in Issued : origin'[e] = origin[e] /\ origin[e] \in Drawn
    BY <2>1, <2>2 DEF TypeOK, Families!States
  <2>4. TypeOK'
    BY <1>3, <2>1, <2>2, <2>3, RequestTypes DEF IssueTokens, TypeOK
  <2>5. Refers(r)'
    BY <2>1, RequestTypes DEF TypeOK, Refers, Idle
  <2>6. QED
    BY <1>3, <2>1, <2>3, <2>4, <2>5, RequestTypes, Referring DEF IssueTokens, TypeOK
<1>4. CASE StartRotation(r)
  <2>1. PICK f, q :
       /\ f \in Issued
       /\ q = [Idle EXCEPT !.pc = "rotate", !.grant = GrantOf(f), !.family = f]
       /\ Begin(r, q)
    BY <1>4 DEF StartRotation
  <2>2. f \in Family /\ GrantOf(f) \in GrantId
    BY <2>1 DEF TypeOK, GrantOf, CodeRow
  <2>3. /\ q \in Request /\ q.pc = "rotate" /\ q.par = None /\ q.grant \in GrantId
        /\ q.family = f /\ q.grant = GrantOf(f)
    BY <2>1, <2>2 DEF Idle, Request, PC
  <2>4. UNCHANGED <<family, code, origin>>
    BY <1>4 DEF StartRotation, Families!Admit
  <2>5. TypeOK'
    BY <1>4, <2>1, <2>3, <2>4, RequestTypes DEF StartRotation, TypeOK
  <2>6. Refers(r)'
    BY <2>1, <2>3, <2>4, RequestTypes DEF TypeOK, Refers, GrantOf
  <2>7. QED
    BY <1>4, <2>1, <2>5, <2>6, RequestTypes, Referring DEF StartRotation, TypeOK
<1>5. CASE CommitRotation(r)
  <2>1. /\ Finish(r) /\ req[r].family \in Issued
        /\ family' = [family EXCEPT ![req[r].family] = "live"]
    BY <1>5 DEF CommitRotation, RowsRefer, Refers, Families!Rotate
  <2>2. /\ family' \in [Family -> Families!States]
        /\ Issued = {e \in Family : family'[e] # "unused"}
    BY <2>1 DEF TypeOK, Families!States
  <2>3. outdated' \subseteq Req \cup Drawn \cup Issued
    BY <1>5, <2>1 DEF CommitRotation, TypeOK
  <2>4. TypeOK'
    BY <1>5, <2>1, <2>2, <2>3, RequestTypes DEF CommitRotation, TypeOK
  <2>5. Refers(r)'
    BY <2>1, RequestTypes DEF TypeOK, Refers, Idle
  <2>6. QED
    BY <1>5, <2>1, <2>4, <2>5, RequestTypes, Referring DEF CommitRotation, TypeOK
<1>6. QED
  BY <1>1, <1>2, <1>3, <1>4, <1>5

LEMMA WithdrawingTypes ==
  ASSUME Typed, NEW r \in Req, FindGrant(r) \/ Withdraw(r) \/ RevokeTokens(r) \/ Abort(r)
  PROVE  Typed'
<1> USE DEF Typed, Drawn, Issued, rows, history
<1>1. CASE FindGrant(r)
  <2>1. PICK g, q :
       /\ g \in GrantId
       /\ q = [Idle EXCEPT !.pc = "withdraw", !.grant = g] /\ Begin(r, q)
    BY <1>1 DEF FindGrant
  <2>2. q \in Request /\ q.pc = "withdraw" /\ q.par = None /\ q.grant \in GrantId
    BY <2>1 DEF Idle, Request, PC
  <2>3. TypeOK'
    BY <1>1, <2>1, <2>2, RequestTypes DEF FindGrant, TypeOK
  <2>4. Refers(r)'
    BY <2>1, <2>2, RequestTypes DEF TypeOK, Refers
  <2>5. QED
    BY <1>1, <2>1, <2>3, <2>4, RequestTypes, Referring DEF FindGrant, TypeOK
<1>2. CASE Withdraw(r)
  <2>1. Goto(r, "revoke") /\ req[r].grant \in GrantId
    BY <1>2 DEF Withdraw, RowsRefer, Refers
  <2>2. outdated' \subseteq Req \cup Drawn \cup Issued
    BY <1>2 DEF Withdraw, ReliesOn, TypeOK
  <2>3. consent' \in [GrantId -> SUBSET SUBSET Scope]
    BY <1>2, <2>1 DEF Withdraw, TypeOK
  <2>4. TypeOK'
    BY <1>2, <2>1, <2>2, <2>3, RequestTypes DEF Withdraw, TypeOK, PC
  <2>5. Refers(r)'
    BY <1>2, <2>1, Moved DEF Withdraw, RowsRefer, Refers, PC
  <2>6. QED
    BY <1>2, <2>1, <2>4, <2>5, RequestTypes, Referring DEF Withdraw, TypeOK
<1>3. CASE RevokeTokens(r)
  <2>1. Finish(r) /\ outdated' \subseteq Req \cup Drawn \cup Issued
    BY <1>3 DEF RevokeTokens, RotatingOf, TypeOK
  <2>2. \A F \in SUBSET Family :
          Families!End(F) => /\ family' \in [Family -> Families!States]
                             /\ Issued = {f \in Family : family'[f] # "unused"}
    BY DEF Families!End, Families!States, TypeOK
  <2>3. /\ family' \in [Family -> Families!States]
        /\ Issued = {f \in Family : family'[f] # "unused"}
    BY <1>3, <2>2 DEF RevokeTokens, LiveFamilies, TypeOK
  <2>4. TypeOK'
    BY <1>3, <2>1, <2>3, RequestTypes DEF RevokeTokens, TypeOK
  <2>5. Refers(r)'
    BY <2>1, Ended DEF Refers
  <2>6. QED
    BY <1>3, <2>1, <2>4, <2>5, RequestTypes, Referring DEF RevokeTokens, TypeOK
<1>4. CASE Abort(r)
  <2>1. Finish(r) /\ outdated' \subseteq outdated
    BY <1>4 DEF Abort, Forget
  <2>2. req[r] \in Request /\ Refers(r)
    BY RequestTypes DEF RowsRefer
  <2>3. stranded' \subseteq GrantId /\ overlapped' \subseteq Par \cup Code
    BY <1>4, <2>2 DEF Abort, TypeOK, Refers, Request
  <2>4. TypeOK'
    BY <1>4, <2>1, <2>3, RequestTypes DEF Abort, TypeOK
  <2>5. Refers(r)'
    BY <2>1, Ended DEF Refers
  <2>6. QED
    BY <1>4, <2>1, <2>4, <2>5, RequestTypes, Referring DEF Abort, TypeOK
<1>5. QED
  BY <1>1, <1>2, <1>3, <1>4

LEMMA OtherTypes ==
  ASSUME Typed,
         \/ \E p \in Par : PushPar(p)
         \/ \E f \in Family : RevokeFamily(f)
         \/ \E c \in Client : DeleteClient(c) \/ UpdateClient(c)
         \/ UNCHANGED vars
  PROVE  Typed'
<1> USE DEF Typed, Drawn, Issued, rows, history
<1>1. ASSUME NEW p \in Par, PushPar(p) PROVE Typed'
  <2>1. PICK c \in Client, s \in Asked :
          par' = [q \in DOMAIN par \cup {p} |->
                    IF q = p THEN [client |-> c, scope |-> s, status |-> "open"] ELSE par[q]]
    BY <1>1 DEF PushPar
  <2>2. [client |-> c, scope |-> s, status |-> "open"] \in ParRow
    BY AskedAssumption DEF ParRow, Status
  <2>3. DOMAIN par' = DOMAIN par \cup {p} /\ par' \in [DOMAIN par' -> ParRow]
    BY <2>1, <2>2 DEF TypeOK
  <2>4. TypeOK'
    BY <1>1, <2>3 DEF PushPar, TypeOK
  <2>5. RowsRefer'
    BY <1>1, <2>3 DEF PushPar, RowsRefer, Refers, GrantOf
  <2>6. QED
    BY <2>4, <2>5
<1>2. \A F \in SUBSET Family :
        Families!End(F) => /\ family' \in [Family -> Families!States]
                           /\ Issued = {f \in Family : family'[f] # "unused"}
  BY DEF Families!End, Families!States, TypeOK
<1>3. ASSUME NEW f \in Family, RevokeFamily(f) PROVE Typed'
  <2>1. TypeOK'
    BY <1>2, <1>3 DEF RevokeFamily, TypeOK
  <2>2. RowsRefer'
    BY <1>3 DEF RevokeFamily, RowsRefer, Refers, GrantOf
  <2>3. QED
    BY <2>1, <2>2
<1>4. ASSUME NEW c \in Client, DeleteClient(c) PROVE Typed'
  <2>1. /\ family' \in [Family -> Families!States]
        /\ Issued = {f \in Family : family'[f] # "unused"}
    BY <1>2, <1>4 DEF DeleteClient, LiveFamilies, TypeOK
  <2>2. gone' \subseteq Client /\ consent' \in [GrantId -> SUBSET SUBSET Scope]
    BY <1>4 DEF DeleteClient, TypeOK
  <2>3. TypeOK'
    BY <1>4, <2>1, <2>2 DEF DeleteClient, TypeOK
  <2>4. RowsRefer'
    BY <1>4 DEF DeleteClient, RowsRefer, Refers, GrantOf
  <2>5. QED
    BY <2>3, <2>4
<1>5. ASSUME NEW c \in Client, UpdateClient(c) PROVE Typed'
  <2>1. TypeOK'
    BY <1>5 DEF UpdateClient, TypeOK
  <2>2. RowsRefer'
    BY <1>5 DEF UpdateClient, RowsRefer, Refers, GrantOf
  <2>3. QED
    BY <2>1, <2>2
<1>6. CASE UNCHANGED vars
  BY <1>6 DEF vars, TypeOK, RowsRefer, Refers, GrantOf
<1>7. QED
  BY <1>1, <1>3, <1>4, <1>5, <1>6

LEMMA TypedStep == Typed /\ [Next]_vars => Typed'
BY AuthorizingTypes, ExchangingTypes, WithdrawingTypes, OtherTypes DEF Next, Step

-----------------------------------------------------------------------------
(* Codes, families and requests stay within the consents. *)

ConsentInv == RequestsConsented /\ Consented

(* A step of one request that ends no consent and inserts nothing.         *)
LEMMA RequestMoves ==
  ASSUME Typed, ConsentInv, NEW r \in Req,
         UNCHANGED <<gone, origin, family>>,
         Drawn' = Drawn,
         \A x \in Drawn : /\ code'[x].grant = code[x].grant /\ code'[x].scope = code[x].scope
                          /\ code'[x].free = code[x].free,
         \A g \in GrantId : Merged(g) \subseteq Merged(g)',
         \A y : y # r => (y \in outdated' <=> y \in outdated),
         stranded \subseteq stranded',
         req[r].pc = "revoke" => req[r].grant \in stranded',
         \A s \in Req \ {r} : req'[s] = req[s],
         Consenting(r)'
  PROVE  ConsentInv'
<1> USE DEF Typed, ConsentInv, Issued
<1>1. \A x \in Drawn : x # r /\ x \in Code /\ code[x].grant \in GrantId
  BY SortsAssumption DEF TypeOK, CodeRow
<1>2. \A f \in Issued : /\ f # r /\ origin[f] \in Drawn
                        /\ GrantOf(f) \in GrantId /\ GrantOf(f)' = GrantOf(f)
  BY <1>1, SortsAssumption DEF TypeOK, GrantOf
<1>3. CodesConsented'
  BY <1>1 DEF Consented, CodesConsented, Registered
<1>4. ASSUME NEW f \in Issued, Covered(f) PROVE Covered(f)'
  <2>1. (\E s \in Req : req[s].pc = "revoke" /\ req[s].grant = GrantOf(f)) =>
          \/ GrantOf(f) \in stranded'
          \/ \E s \in Req : req'[s].pc = "revoke" /\ req'[s].grant = GrantOf(f)
    OBVIOUS
  <2>2. QED
    BY <1>2, <1>4, <2>1 DEF Covered
<1>5. LiveConsented'
  BY <1>4 DEF Consented, LiveConsented
<1>6. ASSUME NEW s \in Req \ {r} PROVE Consenting(s)'
  <2>1. Consenting(s) /\ Refers(s) /\ s # r /\ req'[s] = req[s]
    BY DEF RequestsConsented, RowsRefer
  <2>2. QED
    BY <1>1, <1>4, <2>1 DEF Consenting, Refers, Registered
<1>7. QED
  BY <1>3, <1>5, <1>6 DEF Consented, RequestsConsented

LEMMA MovingConsents ==
  ASSUME Typed, ConsentInv, NEW r \in Req,
         \/ ReadPar(r) \/ CheckClient(r) \/ MergeConsents(r) \/ MarkUsed(r)
         \/ StartConsent(r) \/ GrantConsent(r) \/ ReadCode(r) \/ RedeemCode(r)
         \/ FindGrant(r) \/ StartRotation(r) \/ Abort(r)
  PROVE  ConsentInv'
<1> USE DEF Typed, ConsentInv, rows, history
<1>1. CASE ReadPar(r)
  <2>1. PICK p, u, q :
       /\ p \in DOMAIN par /\ u \in User
       /\ q = [Idle EXCEPT !.pc = "client", !.grant = <<u, par[p].client>>,
                           !.scope = par[p].scope, !.par = p]
       /\ Begin(r, q)
    BY <1>1 DEF ReadPar
  <2>2. q.pc = "client"
    BY <2>1 DEF Idle
  <2>3. Consenting(r)' /\ req[r].pc # "revoke" /\ \A s \in Req \ {r} : req'[s] = req[s]
    BY <2>1, <2>2, RequestTypes DEF Consenting, Begin, TypeOK
  <2>4. QED
    BY <1>1, <2>3, RequestMoves DEF ReadPar, Drawn, Merged
<1>2. CASE CheckClient(r)
  <2>1. PICK q : q = [req[r] EXCEPT !.pc = "insert", !.free = TRUE]
    OBVIOUS
  <2>2. req' = [req EXCEPT ![r] = q] \/ Goto(r, "merge")
    BY <1>2, <2>1 DEF CheckClient, TypeOK
  <2>3. q.pc = "insert" /\ q.free = TRUE
    BY <2>1, RequestTypes DEF Request
  <2>4. Consenting(r)'
    BY <2>2, <2>3, Moved DEF Consenting, TypeOK, PC
  <2>5. \A s \in Req \ {r} : req'[s] = req[s]
    BY <2>2, RequestTypes DEF TypeOK, PC
  <2>6. QED
    BY <1>2, <2>4, <2>5, RequestMoves DEF CheckClient, Drawn, Merged
<1>3. CASE MergeConsents(r)
  <2>1. Consenting(r)'
    BY <1>3, Moved, Ended DEF MergeConsents, Consenting, Merged, PC
  <2>2. \A s \in Req \ {r} : req'[s] = req[s]
    BY <1>3, RequestTypes DEF MergeConsents, PC
  <2>3. QED
    BY <1>3, <2>1, <2>2, RequestMoves DEF MergeConsents, Drawn, Merged
<1>4. CASE MarkUsed(r)
  <2>1. Consenting(r)' /\ \A s \in Req \ {r} : req'[s] = req[s]
    BY <1>4, Ended, RequestTypes DEF MarkUsed, Consenting
  <2>2. QED
    BY <1>4, <2>1, RequestMoves DEF MarkUsed, Drawn, Merged
<1>5. CASE StartConsent(r)
  <2>1. PICK u, c, s, q :
       /\ u \in User /\ c \in Client /\ s \in Asked
       /\ q = [Idle EXCEPT !.pc = "approve", !.grant = <<u, c>>, !.scope = s]
       /\ Begin(r, q)
    BY <1>5 DEF StartConsent
  <2>2. q.pc = "approve"
    BY <2>1 DEF Idle
  <2>3. Consenting(r)' /\ req[r].pc # "revoke" /\ \A t \in Req \ {r} : req'[t] = req[t]
    BY <2>1, <2>2, RequestTypes DEF Consenting, Begin, TypeOK
  <2>4. QED
    BY <1>5, <2>3, RequestMoves DEF StartConsent, Drawn, Merged
<1>6. CASE GrantConsent(r)
  <2>1. req[r].grant \in GrantId
    BY <1>6 DEF GrantConsent, RowsRefer, Refers
  <2>2. \A g \in GrantId : Merged(g) \subseteq Merged(g)'
    BY <1>6 DEF GrantConsent, Merged, TypeOK
  <2>3. req[r].scope \in consent'[req[r].grant]
    BY <1>6, <2>1 DEF GrantConsent, TypeOK
  <2>4. Consenting(r)'
    BY <1>6, <2>3, Moved DEF GrantConsent, Consenting, Merged, PC
  <2>5. \A s \in Req \ {r} : req'[s] = req[s]
    BY <1>6, RequestTypes DEF GrantConsent, PC
  <2>6. QED
    BY <1>6, <2>2, <2>4, <2>5, RequestMoves DEF GrantConsent, Drawn
<1>7. CASE ReadCode(r)
  <2>1. PICK x, q :
       /\ x \in Drawn
       /\ q = [Idle EXCEPT !.pc = "redeem", !.grant = code[x].grant, !.code = x]
       /\ Begin(r, q)
       /\ outdated' = IF x \in outdated THEN outdated \cup {r} ELSE outdated
    BY <1>7 DEF ReadCode
  <2>2. q.pc = "redeem" /\ q.code = x /\ x # r
    BY <2>1, SortsAssumption DEF Idle, TypeOK
  <2>3. Consenting(r)' /\ req[r].pc # "revoke" /\ \A s \in Req \ {r} : req'[s] = req[s]
    BY <2>1, <2>2, RequestTypes DEF Consenting, Begin, TypeOK
  <2>4. QED
    BY <1>7, <2>1, <2>3, RequestMoves DEF ReadCode, Drawn, Merged
<1>8. CASE RedeemCode(r)
  <2>1. req[r].code \in Drawn
    BY <1>8 DEF RedeemCode, RowsRefer, Refers
  <2>2. PICK row : row = [code[req[r].code] EXCEPT !.status = "used"]
    OBVIOUS
  <2>3. code' = [code EXCEPT ![req[r].code] = row]
    BY <1>8, <2>2 DEF RedeemCode
  <2>4. /\ row.grant = code[req[r].code].grant /\ row.scope = code[req[r].code].scope
        /\ row.free = code[req[r].code].free
    BY <2>1, <2>2 DEF TypeOK, CodeRow
  <2>5. \A x \in Drawn : /\ code'[x].grant = code[x].grant /\ code'[x].scope = code[x].scope
                         /\ code'[x].free = code[x].free
    BY <2>3, <2>4 DEF TypeOK
  <2>6. Drawn' = Drawn
    BY <2>3 DEF TypeOK, Drawn
  <2>7. Consenting(r)' /\ \A s \in Req \ {r} : req'[s] = req[s]
    BY <1>8, Moved, RequestTypes DEF RedeemCode, RequestsConsented, Consenting, PC
  <2>8. QED
    BY <1>8, <2>5, <2>6, <2>7, RequestMoves DEF RedeemCode, Merged
<1>9. CASE FindGrant(r)
  <2>1. PICK g, q :
       /\ g \in GrantId
       /\ q = [Idle EXCEPT !.pc = "withdraw", !.grant = g] /\ Begin(r, q)
    BY <1>9 DEF FindGrant
  <2>2. q.pc = "withdraw"
    BY <2>1 DEF Idle
  <2>3. Consenting(r)' /\ req[r].pc # "revoke" /\ \A s \in Req \ {r} : req'[s] = req[s]
    BY <2>1, <2>2, RequestTypes DEF Consenting, Begin, TypeOK
  <2>4. QED
    BY <1>9, <2>3, RequestMoves DEF FindGrant, Drawn, Merged
<1>10. CASE StartRotation(r)
  <2>1. PICK f, q :
       /\ f \in Issued
       /\ q = [Idle EXCEPT !.pc = "rotate", !.grant = GrantOf(f), !.family = f]
       /\ Begin(r, q) /\ family[f] = "live"
    BY <1>10 DEF StartRotation, Families!Admit
  <2>2. q.pc = "rotate" /\ q.family = f
    BY <2>1 DEF Idle
  <2>3. /\ req[r].pc = "idle" /\ req'[r] = q
        /\ \A s \in Req \ {r} : req'[s] = req[s]
    BY <2>1, RequestTypes DEF Begin, TypeOK
  <2>4. UNCHANGED <<gone, consent, code, family, origin, outdated, stranded>>
    BY <1>10 DEF StartRotation, Families!Admit
  <2>5. Covered(f)
    BY <2>1 DEF Consented, LiveConsented
  <2>6. Covered(f)'
    BY <2>3, <2>4, <2>5 DEF Covered, GrantOf, Merged
  <2>7. Consenting(r)'
    BY <2>2, <2>3, <2>6 DEF Consenting
  <2>8. QED
    BY <2>3, <2>4, <2>7, RequestMoves DEF Drawn, Merged
<1>11. CASE Abort(r)
  <2>1. Consenting(r)' /\ \A s \in Req \ {r} : req'[s] = req[s]
    BY <1>11, Ended, RequestTypes DEF Abort, Consenting
  <2>2. QED
    BY <1>11, <2>1, RequestMoves DEF Abort, Forget, Drawn, Merged
<1>12. QED
  BY <1>1, <1>2, <1>3, <1>4, <1>5, <1>6, <1>7, <1>8, <1>9, <1>10, <1>11

(* What these proofs use of a row, of a family and of a request.           *)
LEMMA Sorts ==
  ASSUME Typed
  PROVE  /\ \A x \in Drawn : x \in Code /\ x \notin Req /\ x \notin Family /\ code[x].grant \in GrantId
         /\ \A f \in Issued : /\ f \in Family /\ f \notin Req /\ f \notin Code
                              /\ origin[f] \in Drawn /\ GrantOf(f) \in GrantId
         /\ \A r \in Req : r \notin Code /\ r \notin Family /\ Refers(r) /\ req[r] \in Request
         /\ \A p \in DOMAIN par : p # None
         /\ \A r \in Req : req[r].pc \notin {"client", "merge", "insert", "mark"} => req[r].par = None
<1>1. \A p \in DOMAIN par : p # None
  BY NoneAssumption DEF Typed, TypeOK
<1>2. \A r \in Req : Refers(r) /\ req[r] \in Request
  BY DEF Typed, TypeOK, RowsRefer
<1>3. \A r \in Req : req[r].pc \notin {"client", "merge", "insert", "mark"} => req[r].par = None
  BY <1>2 DEF Refers
<1>4. QED
  BY <1>1, <1>2, <1>3, SortsAssumption DEF Typed, TypeOK, RowsRefer, CodeRow, GrantOf, Issued

LEMMA IssuingConsents ==
  ASSUME Typed, ConsentInv, NEW r \in Req, IssueCode(r) \/ IssueTokens(r) \/ CommitRotation(r)
  PROVE  ConsentInv'
<1> USE DEF Typed, ConsentInv
<1>1. CASE IssueCode(r)
  <2>1. PICK x \in Code \ Drawn :
          /\ code' = [y \in Drawn \cup {x} |->
               IF y = x THEN [grant |-> req[r].grant, scope |-> req[r].scope, status |-> "open",
                              par |-> req[r].par, free |-> req[r].free]
               ELSE code[y]]
          /\ outdated' = (IF r \in outdated THEN outdated \cup {x} ELSE outdated) \ {r}
    BY <1>1 DEF IssueCode
  <2>2. UNCHANGED <<gone, consent, family, origin, stranded>> /\ Registered(req[r].grant)
    BY <1>1 DEF IssueCode
  <2>3. req'[r].pc \in {"mark", "idle"} /\ \A s \in Req \ {r} : req'[s] = req[s]
    BY <1>1, Moved, Ended, RequestTypes DEF IssueCode, PC
  <2>4. /\ Drawn' = Drawn \cup {x} /\ x \notin Drawn /\ \A y \in Drawn : code'[y] = code[y]
        /\ code'[x].grant = req[r].grant /\ code'[x].scope = req[r].scope
        /\ code'[x].free = req[r].free
    BY <2>1 DEF Drawn
  <2>5. \A y : y # r /\ y # x => (y \in outdated' <=> y \in outdated)
    BY <2>1
  <2>6. r \in outdated => x \in outdated'
    BY <2>1, SortsAssumption
  <2>7. x \notin Family /\ x \notin Req
    BY SortsAssumption
  <2>8. req[r].free \/ r \in outdated \/ req[r].scope \subseteq Merged(req[r].grant)
    BY <1>1, <2>2 DEF IssueCode, RequestsConsented, Consenting
  <2>9. CodesConsented'
    <3>1. ASSUME NEW y \in Drawn PROVE
            Registered(code[y].grant) => \/ code'[y].free \/ y \in outdated'
                                         \/ code'[y].scope \subseteq UNION consent'[code'[y].grant]
      BY <2>2, <2>4, <2>5, Sorts DEF Consented, CodesConsented, Merged
    <3>2. \/ code'[x].free \/ x \in outdated'
          \/ code'[x].scope \subseteq UNION consent'[code'[x].grant]
      BY <2>2, <2>4, <2>6, <2>8 DEF Merged
    <3>3. QED
      BY <2>2, <2>4, <3>1, <3>2 DEF CodesConsented, Merged, Registered
  <2>10. ASSUME NEW f \in Issued, Covered(f) PROVE Covered(f)'
    <3>1. /\ f # r /\ f # x /\ GrantOf(f)' = GrantOf(f) /\ origin[f] \in Drawn
          /\ code'[origin[f]] = code[origin[f]]
      BY <2>2, <2>4, <2>7, Sorts DEF GrantOf
    <3>2. req[r].pc # "revoke"
      BY <1>1 DEF IssueCode
    <3>3. QED
      BY <2>2, <2>3, <2>5, <2>10, <3>1, <3>2 DEF Covered, Merged
  <2>11. LiveConsented'
    BY <2>2, <2>10 DEF Consented, LiveConsented, Issued
  <2>12. ASSUME NEW s \in Req \ {r} PROVE Consenting(s)'
    <3>1. Consenting(s) /\ Refers(s) /\ req'[s] = req[s] /\ s # x
      BY <2>3, <2>7, Sorts DEF RequestsConsented
    <3>2. QED
      BY <2>2, <2>4, <2>5, <2>10, <3>1, Sorts DEF Consenting, Refers, Registered, Merged
  <2>13. Consenting(r)'
    BY <2>3 DEF Consenting
  <2>14. QED
    BY <2>9, <2>11, <2>12, <2>13 DEF Consented, RequestsConsented
<1>2. CASE IssueTokens(r)
  <2>1. /\ Finish(r) /\ req[r].code \in Drawn /\ code[req[r].code].grant = req[r].grant
        /\ Registered(req[r].grant) /\ req[r].pc = "issue"
        /\ UNCHANGED <<gone, consent, code, stranded>>
    BY <1>2 DEF IssueTokens, RowsRefer, Refers
  <2>2. PICK f \in Family :
          /\ family[f] = "unused" /\ family' = [family EXCEPT ![f] = "live"]
          /\ origin' = [e \in Issued \cup {f} |-> IF e = f THEN req[r].code ELSE origin[e]]
          /\ outdated' = (IF r \in outdated THEN outdated \cup {f} ELSE outdated) \ {r}
    BY <1>2 DEF IssueTokens, Families!Issue
  <2>3. /\ Issued' = Issued \cup {f} /\ f \notin Issued /\ origin'[f] = req[r].code
        /\ \A e \in Issued : origin'[e] = origin[e] /\ family'[e] = family[e]
    BY <2>2 DEF TypeOK, Issued
  <2>4. req'[r].pc = "idle" /\ \A s \in Req \ {r} : req'[s] = req[s]
    BY <2>1, Ended, RequestTypes
  <2>5. \A y : y # r /\ y # f => (y \in outdated' <=> y \in outdated)
    BY <2>2
  <2>6. (r \in outdated => f \in outdated') /\ f \notin Code /\ f \notin Req
    BY <2>2, SortsAssumption
  <2>7. CodesConsented'
    BY <2>1, <2>5, <2>6, Sorts DEF Consented, CodesConsented, Registered, Merged, Drawn
  <2>8. Covered(f)'
    <3>1. \/ code[req[r].code].free \/ req[r].code \in outdated
          \/ code[req[r].code].scope \subseteq Merged(req[r].grant)
      BY <2>1 DEF Consented, CodesConsented
    <3>2. req[r].code \in outdated => f \in outdated'
      BY <2>1, <2>6 DEF RequestsConsented, Consenting
    <3>3. QED
      BY <2>1, <2>3, <3>1, <3>2 DEF Covered, GrantOf, Merged
  <2>9. ASSUME NEW e \in Issued, Covered(e) PROVE Covered(e)'
    <3>1. e # r /\ e # f /\ GrantOf(e)' = GrantOf(e) /\ origin'[e] = origin[e]
      BY <2>1, <2>3, Sorts DEF GrantOf
    <3>2. QED
      BY <2>1, <2>4, <2>5, <2>9, <3>1 DEF Covered, Merged
  <2>10. LiveConsented'
    BY <2>3, <2>8, <2>9 DEF Consented, LiveConsented
  <2>11. ASSUME NEW s \in Req \ {r} PROVE Consenting(s)'
    <3>1. Consenting(s) /\ Refers(s) /\ req'[s] = req[s] /\ s # f
      BY <2>4, <2>6, Sorts DEF RequestsConsented
    <3>2. QED
      BY <2>1, <2>5, <2>6, <2>9, <3>1, Sorts DEF Consenting, Refers, Registered, Merged
  <2>12. Consenting(r)'
    BY <2>4 DEF Consenting
  <2>13. QED
    BY <2>7, <2>10, <2>11, <2>12 DEF Consented, RequestsConsented
<1>3. CASE CommitRotation(r)
  <2>1. PICK f : f = req[r].family
    OBVIOUS
  <2>2. /\ Finish(r) /\ f \in Issued /\ GrantOf(f) = req[r].grant /\ req[r].pc = "rotate"
        /\ Registered(req[r].grant)
        /\ family' = [family EXCEPT ![f] = "live"]
        /\ outdated' = (IF r \in outdated THEN outdated \cup {f} ELSE outdated) \ {r}
        /\ UNCHANGED <<gone, consent, code, origin, stranded>>
    BY <1>3, <2>1 DEF CommitRotation, RowsRefer, Refers, Families!Rotate
  <2>3. req'[r].pc = "idle" /\ \A s \in Req \ {r} : req'[s] = req[s]
    BY <2>2, Ended, RequestTypes
  <2>4. f \notin Code /\ f \notin Req /\ f \in Family
    BY <2>2, Sorts
  <2>5. \A y : y # r /\ y # f => (y \in outdated' <=> y \in outdated)
    BY <2>2
  <2>6. (r \in outdated => f \in outdated') /\ (f \in outdated => f \in outdated')
    BY <2>2, <2>4
  <2>7. CodesConsented'
    BY <2>2, <2>4, <2>5, Sorts DEF Consented, CodesConsented, Registered, Merged, Drawn
  <2>8. ASSUME NEW e \in Issued, Covered(e) PROVE Covered(e)'
    BY <2>2, <2>3, <2>5, <2>6, <2>8, Sorts DEF Covered, Merged, GrantOf
  <2>9. Covered(f)'
    <3>1. r \in outdated \/ Covered(f)
      BY <2>1, <2>2 DEF RequestsConsented, Consenting
    <3>2. QED
      BY <2>2, <2>6, <2>8, <3>1 DEF Covered
  <2>10. LiveConsented'
    BY <2>2, <2>8, <2>9 DEF Consented, LiveConsented, Issued, TypeOK
  <2>11. ASSUME NEW s \in Req \ {r} PROVE Consenting(s)'
    <3>1. Consenting(s) /\ Refers(s) /\ req'[s] = req[s] /\ s # f
      BY <2>3, <2>4, Sorts DEF RequestsConsented
    <3>2. QED
      BY <2>2, <2>4, <2>5, <2>8, <3>1, Sorts DEF Consenting, Refers, Registered, Merged
  <2>12. Consenting(r)'
    BY <2>3 DEF Consenting
  <2>13. QED
    BY <2>7, <2>10, <2>11, <2>12 DEF Consented, RequestsConsented
<1>4. QED
  BY <1>1, <1>2, <1>3

LEMMA WithdrawingConsents ==
  ASSUME Typed, ConsentInv, NEW r \in Req, Withdraw(r) \/ RevokeTokens(r)
  PROVE  ConsentInv'
<1> USE DEF Typed, ConsentInv
<1>1. CASE Withdraw(r)
  <2>1. PICK g \in GrantId : g = req[r].grant
    BY <1>1 DEF Withdraw, RowsRefer, Refers
  <2>2. /\ consent' = [consent EXCEPT ![g] = {}] /\ outdated' = outdated \cup ReliesOn(g)
        /\ Goto(r, "revoke") /\ req[r].pc = "withdraw"
        /\ UNCHANGED <<gone, code, family, origin, stranded>>
    BY <1>1, <2>1 DEF Withdraw
  <2>3. /\ req'[r].pc = "revoke" /\ req'[r].grant = g
        /\ \A s \in Req \ {r} : req'[s] = req[s]
    BY <2>1, <2>2, Moved, RequestTypes DEF PC
  <2>4. \A h \in GrantId : h # g => consent'[h] = consent[h]
    BY <2>2 DEF TypeOK
  <2>5. \A x \in Drawn : code[x].grant = g => x \in outdated'
    BY <2>2 DEF ReliesOn
  <2>6. CodesConsented'
    BY <2>2, <2>4, <2>5, Sorts DEF Consented, CodesConsented, Registered, Merged, Drawn
  <2>7. ASSUME NEW f \in Issued, Covered(f) PROVE Covered(f)'
    <3>1. GrantOf(f) # g => consent'[GrantOf(f)] = consent[GrantOf(f)]
      BY <2>4, Sorts
    <3>2. \A s \in Req : req[s].pc = "revoke" => req'[s] = req[s]
      BY <2>2, <2>3
    <3>3. QED
      BY <2>2, <2>3, <2>7, <3>1, <3>2 DEF Covered, Merged, GrantOf
  <2>8. LiveConsented'
    BY <2>2, <2>7 DEF Consented, LiveConsented, Issued
  <2>9. ASSUME NEW s \in Req \ {r} PROVE Consenting(s)'
    <3>1. Consenting(s) /\ Refers(s) /\ req'[s] = req[s]
      BY <2>3, Sorts DEF RequestsConsented
    <3>2. req[s].pc \in {"insert", "redeem", "issue", "rotate"} /\ req[s].grant = g =>
            s \in outdated'
      BY <2>2 DEF ReliesOn
    <3>3. req[s].pc # "idle" /\ req[s].grant # g => consent'[req[s].grant] = consent[req[s].grant]
      BY <2>4, <3>1 DEF Refers
    <3>4. ASSUME req[s].pc \in {"redeem", "issue"}, req[s].code \in outdated'
          PROVE  s \in outdated'
      <4>1. req[s].code \in Drawn /\ code[req[s].code].grant = req[s].grant
        BY <3>1, <3>4 DEF Refers
      <4>2. req[s].code \in outdated \/ req[s].grant = g
        BY <2>2, <3>4, <4>1, Sorts DEF ReliesOn
      <4>3. QED
        BY <2>2, <3>1, <3>2, <3>4, <4>2 DEF Consenting
    <3>5. QED
      BY <2>2, <2>7, <3>1, <3>2, <3>3, <3>4, Sorts DEF Consenting, Refers, Registered, Merged
  <2>10. Consenting(r)'
    BY <2>3 DEF Consenting
  <2>11. QED
    BY <2>6, <2>8, <2>9, <2>10 DEF Consented, RequestsConsented
<1>2. CASE RevokeTokens(r)
  <2>1. PICK g \in GrantId : g = req[r].grant
    BY <1>2 DEF RevokeTokens, RowsRefer, Refers
  <2>2. /\ Finish(r) /\ req[r].pc = "revoke"
        /\ outdated' = outdated \cup RotatingOf(g) /\ stranded' = stranded \ {g}
        /\ UNCHANGED <<gone, consent, code, origin>>
    BY <1>2, <2>1 DEF RevokeTokens
  <2>3. req'[r].pc = "idle" /\ \A s \in Req \ {r} : req'[s] = req[s]
    BY <2>2, Ended, RequestTypes
  <2>4. \A f \in Issued : family'[f] = "live" => family[f] = "live" /\ GrantOf(f) # g
    <3>1. CASE LiveFamilies({g}) = {}
      BY <1>2, <2>1, <3>1 DEF RevokeTokens, LiveFamilies
    <3>2. CASE LiveFamilies({g}) # {}
      BY <1>2, <2>1, <3>2, Sorts DEF RevokeTokens, Families!End, LiveFamilies
    <3>3. QED
      BY <3>1, <3>2
  <2>5. CodesConsented'
    BY <2>2, Sorts DEF Consented, CodesConsented, Registered, Merged, Drawn, RotatingOf
  <2>6. ASSUME NEW f \in Issued, Covered(f), GrantOf(f) # g PROVE Covered(f)'
    BY <2>1, <2>2, <2>3, <2>6 DEF Covered, Merged, GrantOf
  <2>7. LiveConsented'
    BY <2>2, <2>4, <2>6 DEF Consented, LiveConsented, Issued
  <2>8. ASSUME NEW s \in Req \ {r} PROVE Consenting(s)'
    <3>1. Consenting(s) /\ Refers(s) /\ req'[s] = req[s]
      BY <2>3, Sorts DEF RequestsConsented
    <3>2. req[s].pc = "rotate" /\ req[s].grant = g => s \in outdated'
      BY <2>2 DEF RotatingOf
    <3>3. \A x \in Drawn : x \in outdated' <=> x \in outdated
      BY <2>2, Sorts DEF RotatingOf
    <3>4. QED
      BY <2>2, <2>6, <3>1, <3>2, <3>3 DEF Consenting, Refers, Registered, Merged
  <2>9. Consenting(r)'
    BY <2>3 DEF Consenting
  <2>10. QED
    BY <2>5, <2>7, <2>8, <2>9 DEF Consented, RequestsConsented
<1>3. QED
  BY <1>1, <1>2

LEMMA OtherConsents ==
  ASSUME Typed, ConsentInv,
         \/ \E p \in Par : PushPar(p)
         \/ \E f \in Family : RevokeFamily(f)
         \/ \E c \in Client : DeleteClient(c) \/ UpdateClient(c)
         \/ UNCHANGED vars
  PROVE  ConsentInv'
<1> USE DEF Typed, ConsentInv, Registered, Merged, Drawn, Issued, GrantOf
<1> DEFINE Same == UNCHANGED <<code, origin, req, outdated, stranded>>
<1>1. \A f \in Issued : Same /\ UNCHANGED <<gone, consent>> /\ Covered(f) => Covered(f)'
  BY DEF Covered
<1>2. ASSUME Same, UNCHANGED <<gone, consent>>,
             \A f \in Issued : family'[f] = "live" => family[f] = "live"
      PROVE  ConsentInv'
  <2>1. CodesConsented'
    BY <1>2 DEF Consented, CodesConsented
  <2>2. LiveConsented'
    BY <1>1, <1>2 DEF Consented, LiveConsented
  <2>3. RequestsConsented'
    BY <1>1, <1>2 DEF RequestsConsented, Consenting, RowsRefer, Refers
  <2>4. QED
    BY <2>1, <2>2, <2>3 DEF Consented
<1>3. ASSUME NEW p \in Par, PushPar(p) PROVE ConsentInv'
  BY <1>2, <1>3 DEF PushPar, history
<1>4. ASSUME NEW e \in Family, RevokeFamily(e) PROVE ConsentInv'
  <2>1. \A f \in Issued : family'[f] = "live" => family[f] = "live"
    BY <1>4, Sorts DEF RevokeFamily, Families!End
  <2>2. QED
    BY <1>2, <1>4, <2>1 DEF RevokeFamily, history
<1>5. ASSUME NEW c \in Client, UpdateClient(c) PROVE ConsentInv'
  BY <1>2, <1>5 DEF UpdateClient, history
<1>6. CASE UNCHANGED vars
  BY <1>2, <1>6 DEF vars
<1>7. ASSUME NEW c \in Client, DeleteClient(c) PROVE ConsentInv'
  <2>1. Same /\ gone' = gone \cup {c}
    BY <1>7 DEF DeleteClient, history
  <2>2. \A g \in GrantId : g[2] # c => consent'[g] = consent[g]
    BY <1>7 DEF DeleteClient, TypeOK
  <2>3. \A f \in Issued : family'[f] = "live" => family[f] = "live" /\ GrantOf(f)[2] # c
    <3>1. \A f \in Issued : family[f] = "live" /\ GrantOf(f)[2] = c =>
            f \in LiveFamilies(User \X {c})
      BY Sorts DEF LiveFamilies, GrantId
    <3>2. CASE LiveFamilies(User \X {c}) = {}
      BY <1>7, <3>1, <3>2 DEF DeleteClient
    <3>3. CASE LiveFamilies(User \X {c}) # {}
      BY <1>7, <3>1, <3>3, Sorts DEF DeleteClient, Families!End
    <3>4. QED
      BY <3>2, <3>3
  <2>4. CodesConsented'
    BY <2>1, <2>2, Sorts DEF Consented, CodesConsented
  <2>5. \A f \in Issued : GrantOf(f)[2] # c /\ Covered(f) => Covered(f)'
    BY <2>1, <2>2, Sorts DEF Covered
  <2>6. LiveConsented'
    BY <2>1, <2>3, <2>5 DEF Consented, LiveConsented
  <2>7. ASSUME NEW s \in Req PROVE Consenting(s)'
    <3>1. Consenting(s) /\ Refers(s)
      BY Sorts DEF RequestsConsented
    <3>2. QED
      BY <2>1, <2>2, <2>5, <3>1 DEF Consenting, Refers
  <2>8. QED
    BY <2>4, <2>6, <2>7 DEF Consented, RequestsConsented
<1>8. QED
  BY <1>3, <1>4, <1>5, <1>6, <1>7

LEMMA ConsentStep == Typed /\ ConsentInv /\ [Next]_vars => ConsentInv'
BY MovingConsents, IssuingConsents, WithdrawingConsents, OtherConsents DEF Next, Step

-----------------------------------------------------------------------------
(* A code goes to its family once, a PAR to its code once. *)

Issuing(x) == {r \in Req : req[r].pc = "issue" /\ req[r].code = x}
FamiliesOf(x) == {f \in Issued : origin[f] = x}
Holding(p) == {r \in Req : req[r].par = p}
CodesOf(p) == {x \in Drawn : code[x].par = p}

(* No request comes to "issue" and nothing is issued.                      *)
LEMMA CodesKept ==
  ASSUME Typed, OnceEach, overlapped \subseteq overlapped', UNCHANGED <<code, origin>>,
         \A s \in Req : req'[s] = req[s] \/ req'[s].pc # "issue"
  PROVE  \A x \in Drawn' \ overlapped' : CodeOnce(x)'
<1>1. SUFFICES ASSUME NEW x \in Drawn \ overlapped PROVE CodeOnce(x)'
  BY DEF Drawn
<1>2. CodeOnce(x)
  BY DEF OnceEach
<1>3. Issuing(x)' \subseteq Issuing(x) /\ FamiliesOf(x)' = FamiliesOf(x)
  BY DEF Issuing, FamiliesOf, Issued
<1>4. QED
  BY <1>2, <1>3 DEF CodeOnce, Issuing, FamiliesOf

(* No request takes up a PAR, and who lets go of one had no code for it.   *)
LEMMA ParsKept ==
  ASSUME Typed, OnceEach, overlapped \subseteq overlapped', par' = par, Drawn' = Drawn,
         \A x \in Drawn : code'[x].par = code[x].par,
         \A s \in Req : req'[s].par # None =>
           req'[s].par = req[s].par /\ (req'[s].pc = "mark" <=> req[s].pc = "mark"),
         \A s \in Req : req[s].pc = "mark" =>
           req'[s].par = req[s].par \/ req[s].par \in overlapped'
  PROVE  \A p \in DOMAIN par' \ overlapped' : ParOnce(p)'
<1>1. SUFFICES ASSUME NEW p \in DOMAIN par, p \notin overlapped, p \notin overlapped'
               PROVE  ParOnce(p)'
  OBVIOUS
<1>2. ParOnce(p) /\ p # None
  BY <1>1, Sorts DEF OnceEach
<1>3. Holding(p)' \subseteq Holding(p) /\ CodesOf(p)' = CodesOf(p)
  BY <1>2 DEF Holding, CodesOf
<1>4. \A s \in Holding(p) \ Holding(p)' : req[s].pc # "mark" /\ CodesOf(p) = {}
  BY <1>1, <1>2 DEF Holding, CodesOf, ParOnce
<1>5. \A s \in Holding(p)' : Holding(p)' = {s} /\ (req'[s].pc # "mark" => CodesOf(p)' = {})
  BY <1>2, <1>3 DEF Holding, CodesOf, ParOnce
<1>6. \A x \in CodesOf(p)' : CodesOf(p)' = {x} /\ (par'[p].status = "used" \/ Holding(p)' # {})
  BY <1>2, <1>3, <1>4 DEF Holding, CodesOf, ParOnce
<1>7. QED
  BY <1>5, <1>6 DEF Holding, CodesOf, ParOnce

(* A request without a PAR neither before nor after it.                    *)
LEMMA WithoutPar ==
  ASSUME Typed, OnceEach, overlapped \subseteq overlapped', par' = par, Drawn' = Drawn,
         \A x \in Drawn : code'[x].par = code[x].par, NEW r \in Req,
         req[r].par = None, req'[r].par = None, \A s \in Req \ {r} : req'[s] = req[s]
  PROVE  \A p \in DOMAIN par' \ overlapped' : ParOnce(p)'
<1>1. req[r].pc # "mark"
  BY Sorts DEF Refers
<1>2. \A s \in Req : req'[s].par # None =>
        req'[s].par = req[s].par /\ (req'[s].pc = "mark" <=> req[s].pc = "mark")
  OBVIOUS
<1>3. \A s \in Req : req[s].pc = "mark" => req'[s].par = req[s].par
  BY <1>1
<1>4. QED
  BY <1>2, <1>3, ParsKept

LEMMA AuthorizingOnce ==
  ASSUME Typed, OnceEach, NEW r \in Req,
         \/ ReadPar(r) \/ CheckClient(r) \/ MergeConsents(r) \/ IssueCode(r) \/ MarkUsed(r)
         \/ StartConsent(r) \/ GrantConsent(r)
  PROVE  OnceEach'
<1> USE DEF Typed, rows, history
<1>1. CASE ReadPar(r)
  <2>1. PICK p, u, q :
       /\ p \in DOMAIN par /\ u \in User
       /\ q = [Idle EXCEPT !.pc = "client", !.grant = <<u, par[p].client>>,
                           !.scope = par[p].scope, !.par = p]
       /\ Begin(r, q) /\ par[p].status = "open"
       /\ overlapped' = IF \E s \in Req : req[s].par = p
                        THEN overlapped \cup {p} ELSE overlapped
    BY <1>1 DEF ReadPar
  <2>2. q.pc = "client" /\ q.par = p
    BY <2>1 DEF Idle
  <2>3. /\ req'[r] = q /\ req[r].pc = "idle" /\ req[r].par = None
        /\ \A s \in Req \ {r} : req'[s] = req[s]
    BY <2>1, Sorts DEF Begin, TypeOK, Refers
  <2>4. \A x \in Drawn' \ overlapped' : CodeOnce(x)'
    BY <1>1, <2>1, <2>2, <2>3, CodesKept DEF ReadPar
  <2>5. ASSUME NEW o \in DOMAIN par, o \notin overlapped' PROVE ParOnce(o)'
    <3>1. ParOnce(o) /\ o # None /\ CodesOf(o)' = CodesOf(o) /\ UNCHANGED par
      BY <1>1, <2>1, <2>5, NoneAssumption DEF OnceEach, TypeOK, ReadPar, CodesOf, Drawn
    <3>2. CASE o = p
      <4>1. Holding(o) = {}
        BY <2>1, <2>5, <3>2 DEF Holding
      <4>2. CodesOf(o) = {}
        BY <2>1, <3>1, <3>2, <4>1 DEF Holding, CodesOf, ParOnce
      <4>3. Holding(o)' = {r}
        BY <2>2, <2>3, <3>2, <4>1 DEF Holding
      <4>4. req'[r].pc = "client"
        BY <2>2, <2>3
      <4>5. QED
        BY <3>1, <4>2, <4>3, <4>4 DEF Holding, CodesOf, ParOnce
    <3>3. CASE o # p
      <4>1. Holding(o)' = Holding(o) /\ r \notin Holding(o)
        BY <2>2, <2>3, <3>1, <3>3 DEF Holding
      <4>2. \A s \in Holding(o) : req'[s] = req[s]
        BY <2>3, <4>1 DEF Holding
      <4>3. QED
        BY <3>1, <4>1, <4>2 DEF Holding, CodesOf, ParOnce
    <3>4. QED
      BY <3>2, <3>3
  <2>6. QED
    BY <1>1, <2>4, <2>5 DEF ReadPar, OnceEach
<1>2. CASE CheckClient(r)
  <2>1. PICK q : q = [req[r] EXCEPT !.pc = "insert", !.free = TRUE]
    OBVIOUS
  <2>2. q.pc = "insert" /\ q.par = req[r].par
    BY <2>1, Sorts DEF Request
  <2>3. req' = [req EXCEPT ![r] = q] \/ Goto(r, "merge")
    BY <1>2, <2>1 DEF CheckClient, TypeOK
  <2>4. /\ req'[r].pc \in {"merge", "insert"} /\ req'[r].par = req[r].par
        /\ req[r].pc = "client" /\ \A s \in Req \ {r} : req'[s] = req[s]
        /\ UNCHANGED <<par, code, origin, overlapped>>
    BY <1>2, <2>2, <2>3, Moved DEF CheckClient, Goto, TypeOK, PC
  <2>5. \A s \in Req : req'[s].par = req[s].par /\ (req'[s].pc = "mark" <=> req[s].pc = "mark")
    BY <2>4
  <2>6. QED
    BY <2>4, <2>5, CodesKept, ParsKept DEF OnceEach, Drawn
<1>3. CASE MergeConsents(r)
  <2>1. /\ req'[r].pc \in {"idle", "insert"} /\ req[r].pc = "merge"
        /\ req'[r].par = None \/ req'[r].par = req[r].par
        /\ \A s \in Req \ {r} : req'[s] = req[s]
        /\ UNCHANGED <<par, code, origin, overlapped>>
    BY <1>3, Moved, Ended, RequestTypes DEF MergeConsents, PC
  <2>2. \A s \in Req : req'[s].par # None =>
          req'[s].par = req[s].par /\ (req'[s].pc = "mark" <=> req[s].pc = "mark")
    BY <2>1
  <2>3. \A s \in Req : req[s].pc = "mark" => req'[s].par = req[s].par
    BY <2>1
  <2>4. QED
    BY <2>1, <2>2, <2>3, CodesKept, ParsKept DEF OnceEach, Drawn
<1>4. CASE IssueCode(r)
  <2>1. PICK x \in Code \ Drawn :
          code' = [y \in Drawn \cup {x} |->
            IF y = x THEN [grant |-> req[r].grant, scope |-> req[r].scope, status |-> "open",
                           par |-> req[r].par, free |-> req[r].free]
            ELSE code[y]]
    BY <1>4 DEF IssueCode
  <2>2. /\ Drawn' = Drawn \cup {x} /\ x \notin Drawn /\ \A y \in Drawn : code'[y] = code[y]
        /\ code'[x].par = req[r].par /\ code'[x].status = "open"
    BY <2>1 DEF Drawn
  <2>3. /\ req[r].pc = "insert" /\ \A s \in Req \ {r} : req'[s] = req[s]
        /\ UNCHANGED <<par, origin, overlapped>>
        /\ \/ req[r].par # None /\ req'[r].pc = "mark" /\ req'[r].par = req[r].par
           \/ req[r].par = None /\ req'[r].pc = "idle" /\ req'[r].par = None
    BY <1>4, Moved, Ended, RequestTypes DEF IssueCode, PC
  <2>4. ASSUME NEW y \in Drawn \ overlapped PROVE CodeOnce(y)'
    <3>1. CodeOnce(y) /\ Issuing(y)' = Issuing(y) /\ FamiliesOf(y)' = FamiliesOf(y)
      BY <2>3 DEF OnceEach, Issuing, FamiliesOf, Issued
    <3>2. QED
      BY <2>2, <3>1 DEF CodeOnce, Issuing, FamiliesOf
  <2>5. CodeOnce(x)'
    <3>1. Issuing(x)' = {}
      BY <2>2, <2>3, Sorts DEF Issuing, Refers
    <3>2. FamiliesOf(x)' = {}
      BY <2>2, <2>3, Sorts DEF FamiliesOf, Issued
    <3>3. QED
      BY <3>1, <3>2 DEF CodeOnce, Issuing, FamiliesOf
  <2>6. ASSUME NEW p \in DOMAIN par \ overlapped PROVE ParOnce(p)'
    <3>1. ParOnce(p) /\ p # None /\ Holding(p)' = Holding(p)
      BY <2>3, NoneAssumption DEF OnceEach, TypeOK, Holding
    <3>2. CASE p = req[r].par
      <4>1. Holding(p) = {r} /\ CodesOf(p) = {}
        BY <2>3, <3>1, <3>2 DEF Holding, CodesOf, ParOnce
      <4>2. CodesOf(p)' = {x}
        BY <2>2, <3>2, <4>1 DEF CodesOf
      <4>3. req'[r].pc = "mark"
        BY <2>3, <3>1, <3>2
      <4>4. QED
        BY <3>1, <4>1, <4>2, <4>3 DEF Holding, CodesOf, ParOnce
    <3>3. CASE p # req[r].par
      <4>1. CodesOf(p)' = CodesOf(p) /\ r \notin Holding(p)
        BY <2>2, <3>3 DEF CodesOf, Holding
      <4>2. \A s \in Holding(p) : req'[s] = req[s]
        BY <2>3, <4>1 DEF Holding
      <4>3. QED
        BY <2>3, <3>1, <4>1, <4>2 DEF Holding, CodesOf, ParOnce
    <3>4. QED
      BY <3>2, <3>3
  <2>7. QED
    BY <2>2, <2>3, <2>4, <2>5, <2>6 DEF OnceEach
<1>5. CASE MarkUsed(r)
  <2>1. PICK p \in DOMAIN par : p = req[r].par
    BY <1>5 DEF MarkUsed, RowsRefer, Refers
  <2>2. /\ par' = [par EXCEPT ![p].status = "used"] /\ req[r].pc = "mark"
        /\ req'[r].pc = "idle" /\ req'[r].par = None /\ \A s \in Req \ {r} : req'[s] = req[s]
        /\ UNCHANGED <<code, origin, overlapped>>
    BY <1>5, <2>1, Ended, RequestTypes DEF MarkUsed
  <2>3. PICK row : row = [par[p] EXCEPT !.status = "used"]
    OBVIOUS
  <2>4. row.status = "used"
    BY <2>3 DEF TypeOK, ParRow
  <2>5. par' = [par EXCEPT ![p] = row]
    BY <2>2, <2>3
  <2>6. /\ DOMAIN par' = DOMAIN par /\ par'[p].status = "used"
        /\ \A o \in DOMAIN par : o # p => par'[o] = par[o]
    BY <2>4, <2>5 DEF TypeOK
  <2>7. \A x \in Drawn' \ overlapped' : CodeOnce(x)'
    BY <2>2, CodesKept
  <2>8. ASSUME NEW o \in DOMAIN par \ overlapped PROVE ParOnce(o)'
    <3>1. ParOnce(o) /\ o # None /\ CodesOf(o)' = CodesOf(o)
      BY <2>2, NoneAssumption DEF OnceEach, TypeOK, CodesOf, Drawn
    <3>2. CASE o = p
      <4>1. Holding(o)' = {}
        BY <2>1, <2>2, <3>1, <3>2 DEF Holding, ParOnce
      <4>2. QED
        BY <2>6, <3>1, <3>2, <4>1 DEF Holding, CodesOf, ParOnce
    <3>3. CASE o # p
      <4>1. Holding(o)' = Holding(o) /\ r \notin Holding(o)
        BY <2>1, <2>2, <3>1, <3>3 DEF Holding
      <4>2. \A s \in Holding(o) : req'[s] = req[s]
        BY <2>2, <4>1 DEF Holding
      <4>3. QED
        BY <2>6, <3>1, <3>3, <4>1, <4>2 DEF Holding, CodesOf, ParOnce
    <3>4. QED
      BY <3>2, <3>3
  <2>9. QED
    BY <2>2, <2>6, <2>7, <2>8 DEF OnceEach
<1>6. CASE StartConsent(r)
  <2>1. PICK u, c, s, q :
       /\ u \in User /\ c \in Client /\ s \in Asked
       /\ q = [Idle EXCEPT !.pc = "approve", !.grant = <<u, c>>, !.scope = s]
       /\ Begin(r, q)
    BY <1>6 DEF StartConsent
  <2>2. q.pc = "approve" /\ q.par = None
    BY <2>1 DEF Idle
  <2>3. req[r].par = None
    BY <2>1, Sorts DEF Begin
  <2>4. req'[r] = q /\ \A t \in Req \ {r} : req'[t] = req[t]
    BY <2>1 DEF Begin, TypeOK
  <2>5. UNCHANGED <<par, code, origin, overlapped>>
    BY <1>6 DEF StartConsent
  <2>6. QED
    BY <2>2, <2>3, <2>4, <2>5, CodesKept, WithoutPar DEF OnceEach, Drawn
<1>7. CASE GrantConsent(r)
  <2>1. /\ req'[r].pc = "insert" /\ req'[r].par = None /\ req[r].par = None
        /\ \A s \in Req \ {r} : req'[s] = req[s]
        /\ UNCHANGED <<par, code, origin, overlapped>>
    BY <1>7, Sorts, Moved, RequestTypes DEF GrantConsent, PC
  <2>2. QED
    BY <2>1, CodesKept, WithoutPar DEF OnceEach, Drawn
<1>8. QED
  BY <1>1, <1>2, <1>3, <1>4, <1>5, <1>6, <1>7

LEMMA ExchangingOnce ==
  ASSUME Typed, OnceEach, NEW r \in Req,
         \/ ReadCode(r) \/ RedeemCode(r) \/ IssueTokens(r)
         \/ StartRotation(r) \/ CommitRotation(r)
  PROVE  OnceEach'
<1> USE DEF Typed, rows, history
<1>1. CASE ReadCode(r)
  <2>1. PICK x, q :
       /\ x \in Drawn
       /\ q = [Idle EXCEPT !.pc = "redeem", !.grant = code[x].grant, !.code = x]
       /\ Begin(r, q)
    BY <1>1 DEF ReadCode
  <2>2. q.pc = "redeem" /\ q.par = None
    BY <2>1 DEF Idle
  <2>3. req[r].par = None
    BY <2>1, Sorts DEF Begin
  <2>4. req'[r] = q /\ \A t \in Req \ {r} : req'[t] = req[t]
    BY <2>1 DEF Begin, TypeOK
  <2>5. UNCHANGED <<par, code, origin, overlapped>>
    BY <1>1 DEF ReadCode
  <2>6. QED
    BY <2>2, <2>3, <2>4, <2>5, CodesKept, WithoutPar DEF OnceEach, Drawn
<1>2. CASE RedeemCode(r)
  <2>1. PICK x \in Drawn : x = req[r].code
    BY <1>2 DEF RedeemCode, RowsRefer, Refers
  <2>2. PICK row : row = [code[x] EXCEPT !.status = "used"]
    OBVIOUS
  <2>3. /\ code' = [code EXCEPT ![x] = row] /\ Goto(r, "issue") /\ req[r].pc = "redeem"
        /\ overlapped' = IF code[x].status = "used" THEN overlapped \cup {x} ELSE overlapped
        /\ UNCHANGED <<par, origin>>
    BY <1>2, <2>1, <2>2 DEF RedeemCode
  <2>4. row.status = "used" /\ row.par = code[x].par /\ code[x].status \in Status
    BY <2>2 DEF TypeOK, CodeRow
  <2>5. /\ Drawn' = Drawn /\ code'[x].status = "used"
        /\ \A y \in Drawn : y # x => code'[y] = code[y]
    BY <2>3, <2>4 DEF TypeOK, Drawn
  <2>6. \A y \in Drawn : code'[y].par = code[y].par
    BY <2>3, <2>4 DEF TypeOK
  <2>7. /\ req'[r].pc = "issue" /\ req'[r].code = x /\ req[r].par = None /\ req'[r].par = None
        /\ \A s \in Req \ {r} : req'[s] = req[s]
    BY <2>1, <2>3, Moved, RequestTypes, Sorts DEF PC
  <2>8. \A p \in DOMAIN par' \ overlapped' : ParOnce(p)'
    BY <2>3, <2>5, <2>6, <2>7, WithoutPar
  <2>9. ASSUME NEW y \in Drawn, y \notin overlapped' PROVE CodeOnce(y)'
    <3>1. CodeOnce(y) /\ FamiliesOf(y)' = FamiliesOf(y)
      BY <2>3, <2>9 DEF OnceEach, FamiliesOf, Issued
    <3>2. CASE y = x
      <4>1. code[x].status = "open"
        BY <2>3, <2>4, <2>9, <3>2 DEF Status
      <4>2. Issuing(x) = {} /\ FamiliesOf(x) = {}
        BY <3>1, <3>2, <4>1 DEF CodeOnce, Issuing, FamiliesOf
      <4>3. Issuing(x)' = {r}
        BY <2>7, <4>2 DEF Issuing
      <4>4. QED
        BY <2>5, <3>1, <3>2, <4>2, <4>3 DEF CodeOnce, Issuing, FamiliesOf
    <3>3. CASE y # x
      <4>1. Issuing(y)' = Issuing(y)
        BY <2>3, <2>7, <3>3 DEF Issuing
      <4>2. QED
        BY <2>5, <3>1, <3>3, <4>1 DEF CodeOnce, Issuing, FamiliesOf
    <3>4. QED
      BY <3>2, <3>3
  <2>10. QED
    BY <2>5, <2>8, <2>9 DEF OnceEach
<1>3. CASE IssueTokens(r)
  <2>1. PICK x \in Drawn : x = req[r].code
    BY <1>3 DEF IssueTokens, RowsRefer, Refers
  <2>2. PICK f \in Family :
          /\ family[f] = "unused"
          /\ origin' = [e \in Issued \cup {f} |-> IF e = f THEN x ELSE origin[e]]
    BY <1>3, <2>1 DEF IssueTokens, Families!Issue
  <2>3. /\ Issued' = Issued \cup {f} /\ f \notin Issued /\ origin'[f] = x
        /\ \A e \in Issued : origin'[e] = origin[e]
    BY <2>2 DEF TypeOK, Issued
  <2>4. /\ Finish(r) /\ req[r].pc = "issue"
        /\ UNCHANGED <<par, code, overlapped>>
    BY <1>3 DEF IssueTokens
  <2>5. /\ req'[r].pc = "idle" /\ req[r].par = None /\ req'[r].par = None
        /\ \A s \in Req \ {r} : req'[s] = req[s]
    BY <2>4, Ended, RequestTypes, Sorts
  <2>6. \A p \in DOMAIN par' \ overlapped' : ParOnce(p)'
    BY <2>4, <2>5, WithoutPar DEF Drawn
  <2>7. ASSUME NEW y \in Drawn \ overlapped PROVE CodeOnce(y)'
    <3>1. CodeOnce(y)
      BY DEF OnceEach
    <3>2. CASE y = x
      <4>1. Issuing(x) = {r} /\ FamiliesOf(x) = {} /\ code[x].status # "open"
        BY <2>1, <2>4, <3>1, <3>2 DEF CodeOnce, Issuing, FamiliesOf
      <4>2. Issuing(x)' = {}
        BY <2>5, <4>1 DEF Issuing
      <4>3. FamiliesOf(x)' = {f}
        BY <2>3, <4>1 DEF FamiliesOf
      <4>4. QED
        BY <2>4, <3>2, <4>1, <4>2, <4>3 DEF CodeOnce, Issuing, FamiliesOf
    <3>3. CASE y # x
      <4>1. Issuing(y)' = Issuing(y)
        BY <2>1, <2>5, <3>3 DEF Issuing
      <4>2. FamiliesOf(y)' = FamiliesOf(y)
        BY <2>3, <3>3 DEF FamiliesOf
      <4>3. QED
        BY <2>4, <3>1, <4>1, <4>2 DEF CodeOnce, Issuing, FamiliesOf
    <3>4. QED
      BY <3>2, <3>3
  <2>8. QED
    BY <2>4, <2>6, <2>7 DEF OnceEach, Drawn
<1>4. CASE StartRotation(r)
  <2>1. PICK f, q :
       /\ f \in Issued
       /\ q = [Idle EXCEPT !.pc = "rotate", !.grant = GrantOf(f), !.family = f]
       /\ Begin(r, q)
    BY <1>4 DEF StartRotation
  <2>2. q.pc = "rotate" /\ q.par = None
    BY <2>1 DEF Idle
  <2>3. req[r].par = None
    BY <2>1, Sorts DEF Begin
  <2>4. req'[r] = q /\ \A t \in Req \ {r} : req'[t] = req[t]
    BY <2>1 DEF Begin, TypeOK
  <2>5. UNCHANGED <<par, code, origin, overlapped>>
    BY <1>4 DEF StartRotation
  <2>6. QED
    BY <2>2, <2>3, <2>4, <2>5, CodesKept, WithoutPar DEF OnceEach, Drawn
<1>5. CASE CommitRotation(r)
  <2>1. Finish(r) /\ req[r].pc = "rotate" /\ UNCHANGED <<par, code, origin, overlapped>>
    BY <1>5 DEF CommitRotation
  <2>2. /\ req'[r].pc = "idle" /\ req[r].par = None /\ req'[r].par = None
        /\ \A s \in Req \ {r} : req'[s] = req[s]
    BY <2>1, Ended, RequestTypes, Sorts
  <2>3. QED
    BY <2>1, <2>2, CodesKept, WithoutPar DEF OnceEach, Drawn
<1>6. QED
  BY <1>1, <1>2, <1>3, <1>4, <1>5

LEMMA WithdrawingOnce ==
  ASSUME Typed, OnceEach, NEW r \in Req,
         FindGrant(r) \/ Withdraw(r) \/ RevokeTokens(r) \/ Abort(r)
  PROVE  OnceEach'
<1> USE DEF Typed, rows, history
<1>1. CASE FindGrant(r)
  <2>1. PICK g, q :
       /\ g \in GrantId
       /\ q = [Idle EXCEPT !.pc = "withdraw", !.grant = g] /\ Begin(r, q)
    BY <1>1 DEF FindGrant
  <2>2. q.pc = "withdraw" /\ q.par = None
    BY <2>1 DEF Idle
  <2>3. req[r].par = None
    BY <2>1, Sorts DEF Begin
  <2>4. req'[r] = q /\ \A t \in Req \ {r} : req'[t] = req[t]
    BY <2>1 DEF Begin, TypeOK
  <2>5. UNCHANGED <<par, code, origin, overlapped>>
    BY <1>1 DEF FindGrant
  <2>6. QED
    BY <2>2, <2>3, <2>4, <2>5, CodesKept, WithoutPar DEF OnceEach, Drawn
<1>2. CASE Withdraw(r)
  <2>1. /\ req'[r].pc = "revoke" /\ req[r].par = None /\ req'[r].par = None
        /\ \A s \in Req \ {r} : req'[s] = req[s]
    BY <1>2, Moved, RequestTypes, Sorts DEF Withdraw, PC
  <2>2. UNCHANGED <<par, code, origin, overlapped>>
    BY <1>2 DEF Withdraw
  <2>3. QED
    BY <2>1, <2>2, CodesKept, WithoutPar DEF OnceEach, Drawn
<1>3. CASE RevokeTokens(r)
  <2>1. Finish(r) /\ req[r].pc = "revoke" /\ UNCHANGED <<par, code, origin, overlapped>>
    BY <1>3 DEF RevokeTokens
  <2>2. /\ req'[r].pc = "idle" /\ req[r].par = None /\ req'[r].par = None
        /\ \A s \in Req \ {r} : req'[s] = req[s]
    BY <2>1, Ended, RequestTypes, Sorts
  <2>3. QED
    BY <2>1, <2>2, CodesKept, WithoutPar DEF OnceEach, Drawn
<1>4. CASE Abort(r)
  <2>1. /\ Finish(r) /\ UNCHANGED <<par, code, origin>>
        /\ overlapped' = IF req[r].pc = "mark" THEN overlapped \cup {req[r].par} ELSE overlapped
    BY <1>4 DEF Abort
  <2>2. /\ req'[r].pc = "idle" /\ req'[r].par = None
        /\ \A s \in Req \ {r} : req'[s] = req[s]
    BY <2>1, Ended, RequestTypes
  <2>3. \A s \in Req : req'[s].par # None =>
          req'[s].par = req[s].par /\ (req'[s].pc = "mark" <=> req[s].pc = "mark")
    BY <2>2
  <2>4. \A s \in Req : req[s].pc = "mark" =>
          req'[s].par = req[s].par \/ req[s].par \in overlapped'
    BY <2>1, <2>2
  <2>5. QED
    BY <2>1, <2>2, <2>3, <2>4, CodesKept, ParsKept DEF OnceEach, Drawn
<1>5. QED
  BY <1>1, <1>2, <1>3, <1>4

LEMMA OtherOnce ==
  ASSUME Typed, OnceEach,
         \/ \E p \in Par : PushPar(p)
         \/ \E f \in Family : RevokeFamily(f)
         \/ \E c \in Client : DeleteClient(c) \/ UpdateClient(c)
         \/ UNCHANGED vars
  PROVE  OnceEach'
<1> USE DEF history
<1>1. CASE UNCHANGED <<par, code, origin, req, overlapped>>
  BY <1>1, CodesKept, ParsKept DEF OnceEach, Drawn
<1>2. ASSUME NEW p \in Par, PushPar(p) PROVE OnceEach'
  <2>1. /\ p \notin DOMAIN par /\ DOMAIN par' = DOMAIN par \cup {p}
        /\ \A o \in DOMAIN par : par'[o] = par[o]
        /\ UNCHANGED <<code, origin, req, overlapped>>
    BY <1>2 DEF PushPar
  <2>2. \A x \in Drawn' \ overlapped' : CodeOnce(x)'
    BY <2>1, CodesKept
  <2>3. \A o \in DOMAIN par \ overlapped : ParOnce(o)'
    BY <2>1 DEF OnceEach, ParOnce, Drawn
  <2>4. Holding(p)' = {} /\ CodesOf(p)' = {}
    BY <2>1, NoneAssumption DEF Typed, RowsRefer, Refers, Holding, CodesOf, Drawn
  <2>5. ParOnce(p)'
    BY <2>4 DEF ParOnce, Holding, CodesOf
  <2>6. QED
    BY <2>1, <2>2, <2>3, <2>5 DEF OnceEach
<1>3. QED
  BY <1>1, <1>2 DEF RevokeFamily, DeleteClient, UpdateClient, vars

LEMMA OnceStep == Typed /\ OnceEach /\ [Next]_vars => OnceEach'
BY AuthorizingOnce, ExchangingOnce, WithdrawingOnce, OtherOnce DEF Next, Step

-----------------------------------------------------------------------------
(* The invariant. *)

LEMMA GrantsInit == Init => GrantsInv
<1> SUFFICES ASSUME Init PROVE GrantsInv
  OBVIOUS
<1>1. Idle \in Request /\ Idle.pc = "idle" /\ Idle.par = None
  BY DEF Idle, Request, PC
<1>2. Drawn = {} /\ Issued = {} /\ DOMAIN par = {}
  BY DEF Init, Drawn, Issued
<1>3. TypeOK
  BY <1>1, <1>2 DEF Init, TypeOK, Families!States
<1>4. RowsRefer
  BY <1>1, <1>2 DEF Init, RowsRefer, Refers
<1>5. RequestsConsented
  BY <1>1 DEF Init, RequestsConsented, Consenting
<1>6. Consented /\ OnceEach
  BY <1>2 DEF Consented, CodesConsented, LiveConsented, OnceEach
<1>7. QED
  BY <1>3, <1>4, <1>5, <1>6 DEF GrantsInv

LEMMA GrantsStep == GrantsInv /\ [Next]_vars => GrantsInv'
BY TypedStep, ConsentStep, OnceStep DEF GrantsInv, Typed, ConsentInv

\* The invariant that carries the theorems below: rows keep their shape and refer
\* to one another, what requests are about to insert is as covered by consents as
\* what authorize, the code exchange and revokeConsent have left, and every code
\* and PAR that no two requests used side by side is on its way once.
THEOREM GrantsCorrect == Spec => []GrantsInv
<1>1. Init => GrantsInv
  BY GrantsInit
<1>2. GrantsInv /\ [Next]_vars => GrantsInv'
  BY GrantsStep
<1>3. QED
  BY <1>1, <1>2, PTL DEF Spec

\* The tables of oauth.authorize.ts, par.service.ts and oauth.token.ts keep their
\* shape: every family has the code it was issued for, every code is for a user
\* and a client, whatever the order of the requests' statements.
THEOREM GrantsTyped == Spec => []TypeOK
<1>1. GrantsInv => TypeOK
  BY DEF GrantsInv
<1>2. QED
  BY <1>1, GrantsCorrect, PTL

\* No code, and no live refresh token, goes beyond what its user has consented to
\* for that client (authorize, submitConsent, exchangeAuthorizationCode,
\* revokeConsent), but for the exceptions that Covered names.
THEOREM ConsentRules == Spec => []Consented
<1>1. GrantsInv => Consented
  BY DEF GrantsInv
<1>2. QED
  BY <1>1, GrantsCorrect, PTL

\* The exceptions are those of withdrawals that met something on its way: where
\* no request outlived a withdrawal it had not seen and no withdrawal died half
\* way, revokeConsent leaves no refresh token live once it is done.
THEOREM WithdrawalsEnd == Spec => [](outdated = {} /\ stranded = {} => WithdrawalEndsAccess)
<1>1. GrantsInv => (outdated = {} /\ stranded = {} => WithdrawalEndsAccess)
  BY DEF GrantsInv, Consented, LiveConsented, Covered, WithdrawalEndsAccess
<1>2. QED
  BY <1>1, GrantsCorrect, PTL

\* exchangeAuthorizationCode turns a code into one family of refresh tokens and
\* authorizeWithPar a PAR into one code, unless two requests had both read it
\* before either marked it, or the one that used the PAR died before its mark.
THEOREM OnceEachWay == Spec => []OnceUnlessOverlapped
<1>1. ASSUME GrantsInv PROVE OnceUnlessOverlapped
  <2>1. ASSUME NEW e \in Issued, NEW f \in Issued, origin[e] = origin[f],
               origin[e] \notin overlapped
        PROVE  e = f
    <3>1. origin[e] \in Drawn
      BY <1>1, Sorts DEF GrantsInv, Typed
    <3>2. CodeOnce(origin[e])
      BY <1>1, <2>1, <3>1 DEF GrantsInv, OnceEach
    <3>3. e \in FamiliesOf(origin[e]) /\ f \in FamiliesOf(origin[e])
      BY <2>1 DEF FamiliesOf
    <3>4. FamiliesOf(origin[e]) = {e}
      BY <3>2, <3>3 DEF CodeOnce, FamiliesOf
    <3>5. QED
      BY <3>3, <3>4
  <2>2. ASSUME NEW x \in Drawn, NEW y \in Drawn, code[x].par = code[y].par,
               code[x].par # None, code[x].par \notin overlapped
        PROVE  x = y
    <3>1. code[x].par \in DOMAIN par
      BY <1>1, <2>2 DEF GrantsInv, RowsRefer
    <3>2. ParOnce(code[x].par)
      BY <1>1, <2>2, <3>1 DEF GrantsInv, OnceEach
    <3>3. x \in CodesOf(code[x].par) /\ y \in CodesOf(code[x].par)
      BY <2>2 DEF CodesOf
    <3>4. CodesOf(code[x].par) = {x}
      BY <3>2, <3>3 DEF ParOnce, CodesOf
    <3>5. QED
      BY <3>3, <3>4
  <2>3. QED
    BY <2>1, <2>2 DEF OnceUnlessOverlapped
<1>2. QED
  BY <1>1, GrantsCorrect, PTL
=============================================================================
