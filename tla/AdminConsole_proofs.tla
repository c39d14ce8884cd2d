------------------------ MODULE AdminConsole_proofs -------------------------
(* Theorems about the refresh-token store and about the admin console composed *)
(* with it, for every value of their constants.                                *)
EXTENDS AdminConsole, TLAPS

-----------------------------------------------------------------------------
(* What an action does to the table, once for all the actions that do it.  *)

\* Revoking rows changes revokedAt of live rows and nothing else.
LEMMA RevokeRowsEffect ==
  ASSUME TypeOK, NEW S, NEW at \in Nat, RevokeRows(S, at)
  PROVE  /\ Drawn' = Drawn
         /\ row' \in [Drawn -> Row]
         /\ \A t \in Drawn :
              /\ row'[t].family = row[t].family
              /\ row'[t].grant = row[t].grant
              /\ row'[t].key = row[t].key
              /\ row'[t].created = row[t].created /\ row'[t].expires = row[t].expires
              /\ row'[t].successor = row[t].successor
              /\ row[t].revokedAt # None => row'[t].revokedAt # None
              /\ row'[t].revokedAt = None => t \notin S \/ t \notin Stored
              /\ row'[t] # row[t] => t \in S /\ row[t].revokedAt = None
         /\ FamiliesOf(Drawn)' = FamiliesOf(Drawn)
<1>1. Drawn' = Drawn
  BY DEF RevokeRows, Drawn
<1>2. \A t \in Drawn : row'[t] = IF t \in S /\ Live(t)
                                 THEN [row[t] EXCEPT !.revokedAt = at] ELSE row[t]
  BY DEF RevokeRows, Drawn
<1>3. ASSUME NEW t \in Drawn
      PROVE  /\ row'[t] \in Row
             /\ row'[t].family = row[t].family
             /\ row'[t].grant = row[t].grant
             /\ row'[t].key = row[t].key
             /\ row'[t].created = row[t].created /\ row'[t].expires = row[t].expires
             /\ row'[t].successor = row[t].successor
             /\ row[t].revokedAt # None => row'[t].revokedAt # None
             /\ row'[t].revokedAt = None => t \notin S \/ t \notin Stored
             /\ row'[t] # row[t] => t \in S /\ row[t].revokedAt = None
  BY <1>2, NoneAssumption DEF TypeOK, Row, Live
<1>4. row' \in [Drawn -> Row]
  BY <1>3 DEF RevokeRows, Drawn
<1>5. FamiliesOf(Drawn)' = FamiliesOf(Drawn)
  BY <1>1, <1>3 DEF FamiliesOf
<1>6. QED
  BY <1>1, <1>3, <1>4, <1>5

\* Inserting the first row of a family adds that row and that family.
LEMMA InsertRowEffect ==
  ASSUME TypeOK, NEW t \in Token \ Drawn, NEW columns \in Row, InsertRow(t, columns)
  PROVE  /\ Drawn' = Drawn \cup {t}
         /\ row' \in [Drawn' -> Row]
         /\ row'[t] = columns
         /\ \A u \in Drawn : row'[u] = row[u]
         /\ FamiliesOf(Drawn)' = FamiliesOf(Drawn) \cup {columns.family}
<1>1. Drawn' = Drawn \cup {t}
  BY DEF InsertRow, Drawn
<1>2. row'[t] = columns /\ \A u \in Drawn : row'[u] = row[u]
  BY DEF InsertRow, Drawn
<1>3. row' \in [Drawn' -> Row]
  BY <1>1, <1>2 DEF InsertRow, TypeOK, Drawn
<1>4. FamiliesOf(Drawn)' = FamiliesOf(Drawn) \cup {columns.family}
  BY <1>1, <1>2 DEF FamiliesOf
<1>5. QED
  BY <1>1, <1>2, <1>3, <1>4

\* Ending a request or moving it on keeps the requests well typed.
LEMMA RequestTypes ==
  ASSUME TypeOK, NEW r \in Req
  PROVE  /\ req[r] \in Request
         /\ Finish(r) => req' \in [Req -> Request]
         /\ \A pc \in PC : Goto(r, pc) => req' \in [Req -> Request]
         /\ \A t \in Stored : Rotating(r, t) => req' \in [Req -> Request]
         /\ \A t \in Token : Following(r, t) => req' \in [Req -> Request]
<1>1. Idle \in Request
  BY DEF Idle, Request, PC
<1>2. req[r] \in Request
  BY DEF TypeOK
<1>3. Finish(r) => req' \in [Req -> Request]
  BY <1>1 DEF TypeOK, Finish
<1>4. ASSUME NEW pc \in PC, Goto(r, pc)
      PROVE  req' \in [Req -> Request]
  BY <1>4 DEF TypeOK, Goto, Request
<1>5. ASSUME NEW t \in Stored, Rotating(r, t)
      PROVE  req' \in [Req -> Request]
  <2>1. [req[r] EXCEPT !.pc = "select", !.cur = t] \in Request
    BY <1>2 DEF TypeOK, Request, PC, Stored
  <2>2. QED
    BY <1>5, <2>1 DEF TypeOK, Rotating
<1>6. ASSUME NEW t \in Token, Following(r, t)
      PROVE  req' \in [Req -> Request]
  <2>1. [req[r] EXCEPT !.pc = "child", !.cur = t] \in Request
    BY <1>2 DEF TypeOK, Request, PC
  <2>2. QED
    BY <1>6, <2>1 DEF TypeOK, Following
<1>7. QED
  BY <1>2, <1>3, <1>4, <1>5, <1>6

\* The commit of a rotation adds the successor to the family of the token it
\* replaces, and points the replaced row at it.
LEMMA ReplaceEffect ==
  ASSUME TypeOK, NEW c \in Drawn, NEW t \in Token \ Drawn, NEW at \in Nat,
         NEW began \in Nat, Replace(c, t, at, began)
  PROVE  /\ Drawn' = Drawn \cup {t}
         /\ row' \in [Drawn' -> Row]
         /\ row'[t].revokedAt = None /\ row'[t].successor = None
         /\ row'[t].family = row[c].family
         /\ row'[t].grant = row[c].grant
         /\ row'[t].key = row[c].key
         /\ row'[c].revokedAt = at /\ at # None /\ row'[c].successor = t
         /\ \A u \in Drawn : /\ row'[u].family = row[u].family
                             /\ row'[u].grant = row[u].grant
                             /\ row'[u].key = row[u].key
         /\ \A u \in Drawn \ {c} : row'[u] = row[u]
         /\ FamiliesOf(Drawn)' = FamiliesOf(Drawn)
<1>1. Drawn' = Drawn \cup {t}
  BY DEF Drawn, Replace
<1>2. row[c] \in Row /\ NextTtl(c) \in Nat
  BY TimeAssumption DEF TypeOK, Row, NextTtl
<1>3. row'[t] = [family |-> row[c].family, grant |-> row[c].grant,
                key |-> row[c].key, created |-> began, expires |-> at + NextTtl(c),
                revokedAt |-> None, successor |-> None]
  BY DEF Drawn, Replace
<1>4. c # t
  OBVIOUS
<1>5. row'[c] = [row[c] EXCEPT !.revokedAt = at, !.successor = t]
  BY <1>4 DEF Drawn, Replace
<1>6. \A u \in Drawn \ {c} : row'[u] = row[u]
  BY DEF Drawn, Replace
<1>7. /\ row'[t] \in Row
      /\ row'[t].revokedAt = None /\ row'[t].successor = None
      /\ row'[t].family = row[c].family
      /\ row'[t].grant = row[c].grant
      /\ row'[t].key = row[c].key
  BY <1>2, <1>3 DEF Row
<1>8. /\ row'[c] \in Row
      /\ row'[c].revokedAt = at /\ at # None /\ row'[c].successor = t
      /\ row'[c].family = row[c].family
      /\ row'[c].grant = row[c].grant
      /\ row'[c].key = row[c].key
  BY <1>2, <1>5, NoneAssumption DEF Row
<1>9. \A u \in Drawn' : row'[u] \in Row
  BY <1>1, <1>6, <1>7, <1>8 DEF TypeOK
<1>10. row' = [u \in Drawn' |-> row'[u]]
  BY <1>1 DEF Replace
<1>11. row' \in [Drawn' -> Row]
  BY <1>9, <1>10
<1>12. \A u \in Drawn : /\ row'[u].family = row[u].family
                        /\ row'[u].grant = row[u].grant
                        /\ row'[u].key = row[u].key
  BY <1>6, <1>8
<1>13. FamiliesOf(Drawn)' = FamiliesOf(Drawn)
  BY <1>1, <1>7, <1>12 DEF FamiliesOf
<1>14. QED
  BY <1>1, <1>6, <1>7, <1>8, <1>11, <1>12, <1>13

-----------------------------------------------------------------------------
\* What a request holds from an earlier step is still in the table: the row it
\* looked up, the row it is about to replace (bound to the key it proved), and
\* the row it is about to hand out.
RequestsRefer ==
  \A r \in Req :
    /\ req[r].pc \in {"child", "reuse"} => req[r].token \in Drawn
    /\ req[r].pc \in {"select", "commit"} =>
         req[r].cur \in Drawn /\ row[req[r].cur].key = req[r].key
    /\ req[r].pc = "deliver" =>
         req[r].new \in Drawn /\ row[req[r].new].key = req[r].key

\* The four things a step can do to the table: nothing, revoke rows (all the
\* unrevoked ones of the families F it closes among them), insert the first row
\* of a fresh family, or replace a stored row.
Quiet == /\ row' = row /\ removed \subseteq removed'
         /\ raced' = raced /\ closed' = closed

Revoking(F, S) == /\ RevokeRows(S, clock) /\ Unrevoked(F) \subseteq S
                  /\ closed' = closed \cup F
                  /\ removed' = removed /\ raced' = raced

Founding(t, columns) == /\ InsertRow(t, columns)
                        /\ columns.family \notin FamiliesOf(Drawn)
                        /\ columns.revokedAt = None /\ columns.successor = None
                        /\ removed' = removed /\ raced' = raced /\ closed' = closed

Replacing(c, t, at, began) ==
  /\ Replace(c, t, at, began)
  /\ raced' = IF row[c].revokedAt = None THEN raced
              ELSE raced \cup {row[c].family}
  /\ removed' = removed /\ closed' = closed

\* A step keeps every column, request and history in its type.  The reference
\* of a request in "reuse" is what makes the family it closes a known one.
LEMMA TypeStep ==
  ASSUME TypeOK, RequestsRefer, [Next]_vars
  PROVE  TypeOK'
<1>1. ASSUME NEW r \in Req, Create(r) PROVE TypeOK'
  <2>1. PICK t \in Token \ Drawn, f \in Family, g \in Grant, k \in Key :
          /\ InsertRow(t, [family |-> f, grant |-> g, key |-> k, created |-> clock,
                           expires |-> clock + Ttl, revokedAt |-> None,
                           successor |-> None])
          /\ req' = [req EXCEPT ![r] = [pc |-> "deliver", token |-> None, key |-> k,
                                       now |-> 0, cur |-> None, new |-> t]]
    BY <1>1 DEF Create
  <2>2. [family |-> f, grant |-> g, key |-> k, created |-> clock, expires |-> clock + Ttl,
         revokedAt |-> None, successor |-> None] \in Row
    BY TimeAssumption DEF TypeOK, Row
  <2>3. /\ Drawn' = Drawn \cup {t}
        /\ row' \in [Drawn' -> Row]
        /\ FamiliesOf(Drawn) \subseteq FamiliesOf(Drawn)'
    BY <2>1, <2>2, InsertRowEffect
  <2>4. req' \in [Req -> Request]
    BY <2>1 DEF TypeOK, Request, Idle, PC
  <2>5. QED
    BY <1>1, <2>3, <2>4 DEF Create, TypeOK
<1>2. ASSUME NEW r \in Req, Begin(r) PROVE TypeOK'
  <2>1. req' \in [Req -> Request]
    BY <1>2 DEF Begin, TypeOK, Request, Idle, PC
  <2>2. QED
    BY <1>2, <2>1 DEF Begin, TypeOK, Drawn, FamiliesOf
<1>3. ASSUME NEW r \in Req, Lookup(r) PROVE TypeOK'
  <2>1. req[r].token \in Stored => row[req[r].token].successor \in Token \cup {None}
    BY DEF TypeOK, Row, Stored
  <2>2. req' \in [Req -> Request]
    BY <1>3, <2>1, RequestTypes DEF Lookup, PC, Live
  <2>3. QED
    BY <1>3, <2>2 DEF Lookup, TypeOK, Drawn, FamiliesOf
<1>4. ASSUME NEW r \in Req, FindChild(r) PROVE TypeOK'
  <2>2. req' \in [Req -> Request]
    BY <1>4, RequestTypes DEF FindChild, Live
  <2>3. QED
    BY <1>4, <2>2 DEF FindChild, TypeOK, Drawn, FamiliesOf
<1>5. ASSUME NEW r \in Req, RevokeFamily(r) PROVE TypeOK'
  <2>1. row[req[r].token].family \in FamiliesOf(Drawn)
    BY <1>5 DEF RevokeFamily, RequestsRefer, FamiliesOf
  <2>2. /\ Drawn' = Drawn
        /\ row' \in [Drawn -> Row]
        /\ FamiliesOf(Drawn)' = FamiliesOf(Drawn)
    BY <1>5, RevokeRowsEffect DEF RevokeFamily, TypeOK
  <2>3. QED
    BY <1>5, <2>1, <2>2, RequestTypes DEF RevokeFamily, TypeOK
<1>6. ASSUME NEW r \in Req, TxSelect(r) PROVE TypeOK'
  <2>1. req' \in [Req -> Request]
    BY <1>6, RequestTypes DEF TxSelect, PC
  <2>2. QED
    BY <1>6, <2>1 DEF TxSelect, TypeOK, Drawn, FamiliesOf
<1>7. ASSUME NEW r \in Req, TxCommit(r) PROVE TypeOK'
  <2> DEFINE c == req[r].cur
  <2>1. CASE c \in Stored
    <3>1. c \in Drawn
      BY <2>1 DEF Stored
    <3>2. PICK t \in Token \ Drawn, began \in req[r].now..clock :
            /\ Replace(c, t, req[r].now, began)
            /\ req' = [req EXCEPT ![r] = [@ EXCEPT !.pc = "deliver", !.new = t]]
      BY <1>7, <2>1 DEF TxCommit
    <3>7. req[r].now \in Nat /\ began \in Nat
      BY <3>2 DEF TypeOK, Request
    <3>3. /\ Drawn' = Drawn \cup {t}
          /\ row' \in [Drawn' -> Row]
          /\ FamiliesOf(Drawn)' = FamiliesOf(Drawn)
      BY <3>1, <3>2, <3>7, ReplaceEffect DEF Request
    <3>4. req' \in [Req -> Request]
      BY <3>2 DEF TypeOK, Request, PC
    <3>5. raced' \subseteq FamiliesOf(Drawn)
      <4>1. raced' \subseteq raced \cup {row[c].family}
        BY <1>7, <2>1 DEF TxCommit
      <4>2. row[c].family \in FamiliesOf(Drawn)
        BY <3>1 DEF FamiliesOf
      <4>3. raced \subseteq FamiliesOf(Drawn)
        BY DEF TypeOK
      <4>4. QED
        BY <4>1, <4>2, <4>3
    <3>6. QED
      BY <1>7, <3>3, <3>4, <3>5 DEF TxCommit, TypeOK
  <2>2. CASE c \notin Stored
    BY <1>7, <2>2, RequestTypes DEF TxCommit, TypeOK, Drawn, FamiliesOf
  <2>3. QED
    BY <2>1, <2>2
<1>8. ASSUME NEW r \in Req, Deliver(r) PROVE TypeOK'
  <2>1. req' \in [Req -> Request]
    BY <1>8, RequestTypes DEF Deliver
  <2>2. held' \subseteq Drawn
    BY <1>8 DEF Deliver, TypeOK, RequestsRefer, Stored
  <2>3. QED
    BY <1>8, <2>1, <2>2 DEF Deliver, TypeOK, Drawn, FamiliesOf
<1>9. ASSUME NEW r \in Req, Abort(r) PROVE TypeOK'
  BY <1>9, RequestTypes DEF Abort, TypeOK, Drawn, FamiliesOf
<1>10. ASSUME NEW t \in Token, RevokeToken(t) PROVE TypeOK'
  BY <1>10, RevokeRowsEffect DEF RevokeToken, TypeOK
<1>11. ASSUME NEW g \in Grant, RevokeAllForClient(g) PROVE TypeOK'
  <2> DEFINE F == FamiliesOf({t \in Stored : row[t].grant = g})
  <2>1. F \subseteq FamiliesOf(Drawn)
    BY DEF FamiliesOf, Stored
  <2>2. RevokeRows(Unrevoked(F), clock) /\ clock \in Nat
    BY <1>11 DEF RevokeAllForClient, TypeOK
  <2>3. /\ Drawn' = Drawn
        /\ row' \in [Drawn -> Row]
        /\ FamiliesOf(Drawn)' = FamiliesOf(Drawn)
    BY <2>2, RevokeRowsEffect
  <2>4. QED
    BY <1>11, <2>1, <2>3 DEF RevokeAllForClient, TypeOK
<1>12. ASSUME NEW g \in Grant, DeleteClient(g) PROVE TypeOK'
  BY <1>12 DEF DeleteClient, TypeOK, Drawn, FamiliesOf
<1>13. ASSUME Tick PROVE TypeOK'
  BY <1>13 DEF Tick, TypeOK, Drawn, FamiliesOf
<1>14. ASSUME UNCHANGED vars PROVE TypeOK'
  BY <1>14 DEF vars, TypeOK, Drawn, FamiliesOf
<1>15. QED
  BY <1>1, <1>2, <1>3, <1>4, <1>5, <1>6, <1>7, <1>8, <1>9, <1>10, <1>11, <1>12,
     <1>13, <1>14 DEF Next, Rotation

\* Every step is of one of the four kinds.
LEMMA StepKinds ==
  ASSUME TypeOK, RequestsRefer, [Next]_vars
  PROVE  \/ Quiet
         \/ \E F \in SUBSET FamiliesOf(Drawn), S \in SUBSET Drawn : Revoking(F, S)
         \/ \E t \in Token \ Drawn, columns \in Row : Founding(t, columns)
         \/ \E c \in Stored, t \in Token \ Drawn, at, began \in Nat : Replacing(c, t, at, began)
<1> DEFINE Kinds ==
  \/ Quiet
  \/ \E F \in SUBSET FamiliesOf(Drawn), S \in SUBSET Drawn : Revoking(F, S)
  \/ \E t \in Token \ Drawn, columns \in Row : Founding(t, columns)
  \/ \E c \in Stored, t \in Token \ Drawn, at, began \in Nat : Replacing(c, t, at, began)
<1>1. ASSUME NEW r \in Req, Create(r) PROVE Kinds
  <2>1. PICK t \in Token \ Drawn, f \in Family \ FamiliesOf(Drawn),
             g \in Grant \ removed, k \in Key :
          InsertRow(t, [family |-> f, grant |-> g, key |-> k, created |-> clock,
                        expires |-> clock + Ttl, revokedAt |-> None,
                        successor |-> None])
    BY <1>1 DEF Create
  <2> DEFINE columns == [family |-> f, grant |-> g, key |-> k, created |-> clock,
                         expires |-> clock + Ttl, revokedAt |-> None,
                         successor |-> None]
  <2>2. columns \in Row
    BY TimeAssumption DEF TypeOK, Row
  <2>3. Founding(t, columns)
    BY <1>1, <2>1 DEF Founding, Create
  <2>4. QED
    BY <2>2, <2>3
<1>2. ASSUME NEW r \in Req, RevokeFamily(r) PROVE Kinds
  <2> DEFINE F == {row[req[r].token].family}
  <2>1. F \in SUBSET FamiliesOf(Drawn)
    BY <1>2 DEF RevokeFamily, RequestsRefer, FamiliesOf
  <2>2. Revoking(F, Unrevoked(F)) /\ Unrevoked(F) \in SUBSET Drawn
    BY <1>2 DEF RevokeFamily, Revoking, Unrevoked, Stored
  <2>3. QED
    BY <2>1, <2>2
<1>3. ASSUME NEW r \in Req, TxCommit(r) PROVE Kinds
  <2>1. CASE req[r].cur \in Stored
    <3>1. PICK t \in Token \ Drawn, began \in req[r].now..clock :
            Replacing(req[r].cur, t, req[r].now, began)
      BY <1>3, <2>1 DEF TxCommit, Replacing
    <3>2. req[r].now \in Nat /\ began \in Nat
      BY <3>1 DEF TypeOK, Request
    <3>3. QED
      BY <2>1, <3>1, <3>2
  <2>2. CASE req[r].cur \notin Stored
    BY <1>3, <2>2 DEF TxCommit, Quiet
  <2>3. QED
    BY <2>1, <2>2
<1>4. ASSUME NEW t \in Token, RevokeToken(t) PROVE Kinds
  <2>1. Revoking({}, {t}) /\ {t} \in SUBSET Drawn
    BY <1>4 DEF RevokeToken, Revoking, Unrevoked, Live, Stored
  <2>2. QED
    BY <2>1
<1>5. ASSUME NEW g \in Grant, RevokeAllForClient(g) PROVE Kinds
  <2> DEFINE F == FamiliesOf({t \in Stored : row[t].grant = g})
  <2>1. F \in SUBSET FamiliesOf(Drawn)
    BY DEF FamiliesOf, Stored
  <2>2. Revoking(F, Unrevoked(F))
    BY <1>5 DEF RevokeAllForClient, Revoking
  <2>3. Unrevoked(F) \in SUBSET Drawn
    BY DEF Unrevoked, Stored
  <2>4. QED
    BY <2>1, <2>2, <2>3
<1>6. ASSUME NEW g \in Grant, DeleteClient(g) PROVE Kinds
  BY <1>6 DEF DeleteClient, Quiet
<1>7. ASSUME \/ Tick \/ UNCHANGED vars
             \/ \E r \in Req : \/ Begin(r) \/ Lookup(r) \/ FindChild(r) \/ TxSelect(r)
                               \/ Deliver(r) \/ Abort(r)
      PROVE  Kinds
  BY <1>7 DEF Tick, vars, Begin, Lookup, FindChild, TxSelect, Deliver, Abort, Quiet
<1>8. QED
  BY <1>1, <1>2, <1>3, <1>4, <1>5, <1>6, <1>7 DEF Next, Rotation

\* Rows never leave the table but with their client, and never change family,
\* grant or key.
LEMMA RowsKept ==
  ASSUME TypeOK, RequestsRefer, [Next]_vars
  PROVE  \A u \in Drawn : /\ u \in Drawn'
                         /\ row'[u].family = row[u].family
                         /\ row'[u].grant = row[u].grant
                         /\ row'[u].key = row[u].key
<1>1. CASE Quiet
  BY <1>1 DEF Quiet, Drawn
<1>2. CASE \E F \in SUBSET FamiliesOf(Drawn), S \in SUBSET Drawn : Revoking(F, S)
  BY <1>2, RevokeRowsEffect DEF Revoking, TypeOK
<1>3. CASE \E t \in Token \ Drawn, columns \in Row : Founding(t, columns)
  BY <1>3, InsertRowEffect DEF Founding
<1>4. CASE \E c \in Stored, t \in Token \ Drawn, at, began \in Nat : Replacing(c, t, at, began)
  <2>1. PICK c \in Stored, t \in Token \ Drawn, at \in Nat, began \in Nat : Replacing(c, t, at, began)
    BY <1>4
  <2>2. c \in Drawn /\ Replace(c, t, at, began)
    BY <2>1 DEF Stored, Replacing
  <2>3. QED
    BY <2>2, ReplaceEffect
<1>5. QED
  BY <1>1, <1>2, <1>3, <1>4, StepKinds

\* A step keeps the references of every request.
LEMMA RequestsStep ==
  ASSUME TypeOK, RequestsRefer, [Next]_vars
  PROVE  RequestsRefer'
<1> DEFINE Refers(q) ==
  /\ q.pc \in {"child", "reuse"} => q.token \in Drawn'
  /\ q.pc \in {"select", "commit"} => q.cur \in Drawn' /\ row'[q.cur].key = q.key
  /\ q.pc = "deliver" => q.new \in Drawn' /\ row'[q.new].key = q.key
<1>1. \A r \in Req : Refers(req[r])
  BY RowsKept DEF RequestsRefer
<1>2. Refers(Idle)
  BY DEF Idle
<1>3. ASSUME NEW r \in Req, Finish(r) PROVE \A s \in Req : Refers(req'[s])
  BY <1>1, <1>2, <1>3 DEF Finish, TypeOK
<1>4. ASSUME NEW r \in Req, NEW q, req' = [req EXCEPT ![r] = q], Refers(q)
      PROVE  \A s \in Req : Refers(req'[s])
  BY <1>1, <1>4 DEF TypeOK
<1>5. ASSUME NEW r \in Req, Create(r) PROVE \A s \in Req : Refers(req'[s])
  <2>1. PICK t \in Token \ Drawn, f \in Family \ FamiliesOf(Drawn),
             g \in Grant \ removed, k \in Key :
          /\ InsertRow(t, [family |-> f, grant |-> g, key |-> k, created |-> clock,
                           expires |-> clock + Ttl, revokedAt |-> None,
                           successor |-> None])
          /\ req' = [req EXCEPT ![r] = [pc |-> "deliver", token |-> None, key |-> k,
                                       now |-> 0, cur |-> None, new |-> t]]
    BY <1>5 DEF Create
  <2>2. t \in Drawn' /\ row'[t].key = k
    BY <2>1 DEF InsertRow, Drawn
  <2>3. QED
    BY <1>4, <2>1, <2>2
<1>6. ASSUME NEW r \in Req, Begin(r) PROVE \A s \in Req : Refers(req'[s])
  BY <1>4, <1>6 DEF Begin
<1>7. ASSUME NEW r \in Req, NEW pc \in PC, Goto(r, pc),
             Refers([req[r] EXCEPT !.pc = pc])
      PROVE  \A s \in Req : Refers(req'[s])
  BY <1>4, <1>7 DEF Goto
<1>8. ASSUME NEW r \in Req, NEW t \in Drawn, Rotating(r, t), req[r].key = row[t].key
      PROVE  \A s \in Req : Refers(req'[s])
  <2>1. Refers([req[r] EXCEPT !.pc = "select", !.cur = t])
    BY <1>8, RowsKept DEF TypeOK, Request
  <2>2. QED
    BY <1>4, <1>8, <2>1 DEF Rotating
<1>9. ASSUME NEW r \in Req, Lookup(r) PROVE \A s \in Req : Refers(req'[s])
  <2>1. CASE Finish(r)
    BY <1>3, <2>1
  <2>2. CASE /\ req[r].token \in Stored
             /\ \/ Following(r, row[req[r].token].successor)
                \/ Goto(r, "reuse")
    <3>1. req[r].token \in Drawn'
      BY <2>2, RowsKept DEF Stored
    <3>2. ASSUME NEW t PROVE Refers([req[r] EXCEPT !.pc = "child", !.cur = t])
      BY <3>1 DEF TypeOK, Request
    <3>3. Refers([req[r] EXCEPT !.pc = "reuse"])
      BY <3>1 DEF TypeOK, Request
    <3>4. CASE Following(r, row[req[r].token].successor)
      BY <1>4, <3>2, <3>4 DEF Following
    <3>5. QED
      BY <1>7, <2>2, <3>3, <3>4 DEF PC
  <2>3. CASE Live(req[r].token) /\ Presentable(r, req[r].token)
             /\ Rotating(r, req[r].token)
    BY <1>8, <2>3 DEF Live, Stored, Presentable
  <2>4. QED
    BY <1>9, <2>1, <2>2, <2>3 DEF Lookup
<1>10. ASSUME NEW r \in Req, FindChild(r) PROVE \A s \in Req : Refers(req'[s])
  <2> DEFINE c == req[r].cur
  <2>1. CASE Finish(r)
    BY <1>3, <2>1
  <2>2. CASE Live(c) /\ Presentable(r, c) /\ Rotating(r, c)
    BY <1>8, <2>2 DEF Live, Stored, Presentable
  <2>3. QED
    BY <1>10, <2>1, <2>2 DEF FindChild
<1>11. ASSUME NEW r \in Req, TxSelect(r) PROVE \A s \in Req : Refers(req'[s])
  <2>1. CASE Finish(r)
    BY <1>3, <2>1
  <2>2. CASE Goto(r, "commit")
    <3>1. Refers([req[r] EXCEPT !.pc = "commit"])
      BY <1>1, <1>11 DEF TxSelect, TypeOK, Request
    <3>2. QED
      BY <1>7, <2>2, <3>1 DEF PC
  <2>3. QED
    BY <1>11, <2>1, <2>2 DEF TxSelect
<1>12. ASSUME NEW r \in Req, TxCommit(r) PROVE \A s \in Req : Refers(req'[s])
  <2> DEFINE c == req[r].cur
  <2>1. CASE Finish(r)
    BY <1>3, <2>1
  <2>2. CASE c \in Stored
    <3>1. PICK t \in Token \ Drawn, began \in req[r].now..clock :
            /\ Replace(c, t, req[r].now, began)
            /\ req' = [req EXCEPT ![r] = [@ EXCEPT !.pc = "deliver", !.new = t]]
      BY <1>12, <2>2 DEF TxCommit
    <3>2. /\ c \in Drawn /\ req[r].now \in Nat
          /\ row[c].key = req[r].key
      BY <1>12, <2>2 DEF TxCommit, Stored, TypeOK, Request, RequestsRefer
    <3>6. began \in Nat
      BY <3>1, <3>2 DEF TypeOK
    <3>3. t \in Drawn' /\ row'[t].key = req[r].key
      BY <3>1, <3>2, <3>6, ReplaceEffect
    <3>4. Refers([req[r] EXCEPT !.pc = "deliver", !.new = t])
      BY <3>3 DEF TypeOK, Request
    <3>5. QED
      BY <1>4, <3>1, <3>4
  <2>3. QED
    BY <1>12, <2>1, <2>2 DEF TxCommit
<1>13. ASSUME NEW r \in Req, RevokeFamily(r) \/ Deliver(r) \/ Abort(r)
       PROVE  \A s \in Req : Refers(req'[s])
  BY <1>3, <1>13 DEF RevokeFamily, Deliver, Abort
<1>14. ASSUME \/ Tick \/ UNCHANGED vars
              \/ \E t \in Token : RevokeToken(t)
              \/ \E g \in Grant : RevokeAllForClient(g) \/ DeleteClient(g)
       PROVE  \A s \in Req : Refers(req'[s])
  BY <1>1, <1>14 DEF Tick, vars, RevokeToken, RevokeAllForClient, DeleteClient
<1>15. \A s \in Req : Refers(req'[s])
  BY <1>5, <1>6, <1>9, <1>10, <1>11, <1>12, <1>13, <1>14 DEF Next, Rotation
<1>16. QED
  BY <1>15 DEF RequestsRefer

-----------------------------------------------------------------------------
\* Every column, request and history stays in its type: rows hold only issued
\* successors, and only families that were ever issued are raced or closed.
THEOREM TypeCorrect == Spec => [](TypeOK /\ RequestsRefer)
<1>1. Init => TypeOK /\ RequestsRefer
  BY DEF Init, TypeOK, RequestsRefer, Drawn, Idle, Request, PC, FamiliesOf
<1>2. TypeOK /\ RequestsRefer /\ [Next]_vars => (TypeOK /\ RequestsRefer)'
  BY TypeStep, RequestsStep
<1>3. QED
  BY <1>1, <1>2, PTL DEF Spec

\* Whoever is about to receive a token proved the key it is bound to, also when
\* the grace period let a successor stand in for the token presented.
THEOREM KeyHolderOnly == Spec => []DeliveredToKeyHolder
<1>1. RequestsRefer => DeliveredToKeyHolder
  BY DEF RequestsRefer, DeliveredToKeyHolder
<1>2. QED
  BY <1>1, TypeCorrect, PTL

-----------------------------------------------------------------------------
\* The invariant of the table.  Its parts need each other: a family's rows share
\* a grant, so a client's removal takes a family whole; only revoked rows have a
\* successor; one live row per family and none in a closed one, outside races.
TableInv ==
  /\ FamilyCoherent
  /\ SuccessorsChain
  /\ OneLiveUnlessRaced
  /\ ClosedStaysClosed

LEMMA QuietStep ==
  ASSUME TypeOK, TableInv, Quiet
  PROVE  TableInv'
<1>1. Drawn' = Drawn /\ Stored' \subseteq Stored /\ \A t : Live(t)' => Live(t)
  BY DEF Quiet, Drawn, Stored, Live
<1>2. QED
  BY <1>1 DEF Quiet, TableInv, FamilyCoherent, SuccessorsChain, OneLiveUnlessRaced,
              ClosedStaysClosed

LEMMA RevokingStep ==
  ASSUME TypeOK, TableInv,
         NEW F \in SUBSET FamiliesOf(Drawn), NEW S \in SUBSET Drawn, Revoking(F, S)
  PROVE  TableInv'
<1>1. RevokeRows(S, clock) /\ clock \in Nat
  BY DEF Revoking, TypeOK
<1>2. /\ Drawn' = Drawn
      /\ \A t \in Drawn :
           /\ row'[t].family = row[t].family
           /\ row'[t].grant = row[t].grant
           /\ row'[t].key = row[t].key
           /\ row'[t].successor = row[t].successor
           /\ row[t].revokedAt # None => row'[t].revokedAt # None
           /\ row'[t].revokedAt = None => t \notin S \/ t \notin Stored
  BY <1>1, RevokeRowsEffect
<1>3. Stored' = Stored /\ Stored \subseteq Drawn
  BY <1>2 DEF Revoking, Stored
<1>4. \A t \in Stored : Live(t)' => Live(t) /\ t \notin S
  BY <1>2, <1>3 DEF Live
<1>5. FamilyCoherent'
  BY <1>2 DEF TableInv, FamilyCoherent
<1>6. SuccessorsChain'
  BY <1>2, NoneAssumption DEF TableInv, SuccessorsChain, TypeOK, Row
<1>7. OneLiveUnlessRaced'
  BY <1>2, <1>3, <1>4 DEF TableInv, OneLiveUnlessRaced, Revoking
<1>8. ClosedStaysClosed'
  <2> SUFFICES ASSUME NEW t \in Stored, Live(t)', row'[t].family \in closed'
               PROVE  row'[t].family \in raced'
    BY <1>3 DEF ClosedStaysClosed
  <2>1. Live(t) /\ t \notin S /\ row'[t].family = row[t].family
    BY <1>2, <1>3, <1>4
  <2>2. row[t].family \notin F
    BY <2>1 DEF Revoking, Unrevoked, Live
  <2>3. row[t].family \in closed
    BY <2>1, <2>2 DEF Revoking
  <2>4. QED
    BY <2>1, <2>3 DEF TableInv, ClosedStaysClosed, Revoking
<1>9. QED
  BY <1>5, <1>6, <1>7, <1>8 DEF TableInv

LEMMA FoundingStep ==
  ASSUME TypeOK, TableInv,
         NEW t \in Token \ Drawn, NEW columns \in Row, Founding(t, columns)
  PROVE  TableInv'
<1>1. /\ Drawn' = Drawn \cup {t}
      /\ row'[t] = columns
      /\ \A u \in Drawn : row'[u] = row[u]
  BY InsertRowEffect DEF Founding
<1>2. \A u \in Drawn : row'[u].family # columns.family
  BY <1>1 DEF Founding, FamiliesOf
<1>3. /\ Stored' \subseteq Stored \cup {t} /\ Stored \subseteq Drawn
      /\ \A u \in Stored : Live(u)' => Live(u)
  BY <1>1 DEF Founding, Stored, Live
<1>4. FamilyCoherent'
  BY <1>1, <1>2 DEF TableInv, FamilyCoherent
<1>5. SuccessorsChain'
  BY <1>1 DEF TableInv, SuccessorsChain, Founding
<1>6. OneLiveUnlessRaced'
  BY <1>1, <1>2, <1>3 DEF TableInv, OneLiveUnlessRaced, Founding
<1>7. columns.family \notin closed
  BY DEF Founding, TypeOK
<1>8. ClosedStaysClosed'
  BY <1>1, <1>3, <1>7 DEF TableInv, ClosedStaysClosed, Founding
<1>9. QED
  BY <1>4, <1>5, <1>6, <1>8 DEF TableInv

LEMMA ReplacingStep ==
  ASSUME TypeOK, TableInv,
         NEW c \in Stored, NEW t \in Token \ Drawn, NEW at \in Nat,
         NEW began \in Nat, Replacing(c, t, at, began)
  PROVE  TableInv'
<1> DEFINE f == row[c].family
<1>1. c \in Drawn /\ c # t
  BY DEF Stored
<1>2. /\ Drawn' = Drawn \cup {t}
      /\ row'[t].revokedAt = None /\ row'[t].successor = None
      /\ row'[t].family = row[c].family
      /\ row'[t].grant = row[c].grant
      /\ row'[t].key = row[c].key
      /\ row'[c].revokedAt = at /\ at # None /\ row'[c].successor = t
      /\ \A u \in Drawn : /\ row'[u].family = row[u].family
                          /\ row'[u].grant = row[u].grant
                          /\ row'[u].key = row[u].key
      /\ \A u \in Drawn \ {c} : row'[u] = row[u]
  BY <1>1, ReplaceEffect DEF Replacing
<1>3. /\ Stored' \subseteq Stored \cup {t} /\ Stored \subseteq Drawn
      /\ \A u \in Stored : Live(u)' => Live(u) /\ u # c
  BY <1>1, <1>2 DEF Replacing, Stored, Live
<1>4. raced \subseteq raced' /\ closed' = closed
  BY DEF Replacing
<1>5. f \notin raced' => Live(c)
  BY DEF Replacing, Live
<1>6. FamilyCoherent'
  BY <1>1, <1>2 DEF TableInv, FamilyCoherent
<1>7. SuccessorsChain'
  <2> SUFFICES ASSUME NEW u \in Drawn', row'[u].successor # None
               PROVE  /\ row'[u].revokedAt # None
                      /\ row'[u].successor \in Drawn' \ {u}
                      /\ row'[row'[u].successor].family = row'[u].family
                      /\ \A v \in Drawn' \ {u} : row'[v].successor # row'[u].successor
    BY DEF SuccessorsChain
  <2>1. \A v \in Drawn : row[v].successor # t
    BY NoneAssumption DEF TableInv, SuccessorsChain
  <2>2. CASE u = c
    BY <1>1, <1>2, <2>1, <2>2, NoneAssumption
  <2>3. CASE u # c
    <3>1. u \in Drawn \ {c} /\ row'[u] = row[u] /\ row[u].successor # None
      BY <1>2, <2>3
    <3>2. /\ row[u].revokedAt # None
          /\ row[u].successor \in Drawn \ {u}
          /\ row[row[u].successor].family = row[u].family
          /\ \A v \in Drawn \ {u} : row[v].successor # row[u].successor
      BY <3>1 DEF TableInv, SuccessorsChain
    <3>3. QED
      BY <1>2, <2>1, <3>1, <3>2
  <2>4. QED
    BY <2>2, <2>3
<1>8. OneLiveUnlessRaced'
  <2> SUFFICES ASSUME NEW u \in Stored', NEW v \in Stored', Live(u)', Live(v)',
                      row'[u].family = row'[v].family, u # v,
                      row'[u].family \notin raced'
               PROVE  FALSE
    BY DEF OneLiveUnlessRaced
  <2>1. CASE u # t /\ v # t
    BY <1>2, <1>3, <1>4, <2>1 DEF TableInv, OneLiveUnlessRaced
  <2>2. CASE u = t
    <3>1. v \in Stored /\ Live(v) /\ v # c /\ row[v].family = f
      BY <1>2, <1>3, <2>2
    <3>2. f \notin raced /\ Live(c)
      BY <1>2, <1>4, <1>5, <2>2
    <3>3. QED
      BY <3>1, <3>2 DEF TableInv, OneLiveUnlessRaced
  <2>3. CASE v = t
    <3>1. u \in Stored /\ Live(u) /\ u # c /\ row[u].family = f
      BY <1>2, <1>3, <2>3
    <3>2. f \notin raced /\ Live(c)
      BY <1>2, <1>4, <1>5, <2>3
    <3>3. QED
      BY <3>1, <3>2 DEF TableInv, OneLiveUnlessRaced
  <2>4. QED
    BY <2>1, <2>2, <2>3
<1>9. ClosedStaysClosed'
  <2>1. f \in closed => f \in raced'
    BY <1>4, <1>5 DEF TableInv, ClosedStaysClosed
  <2>2. QED
    BY <1>2, <1>3, <1>4, <2>1 DEF TableInv, ClosedStaysClosed
<1>10. QED
  BY <1>6, <1>7, <1>8, <1>9 DEF TableInv

LEMMA TableStep ==
  ASSUME TypeOK, RequestsRefer, TableInv, [Next]_vars
  PROVE  TableInv'
BY StepKinds, QuietStep, RevokingStep, FoundingStep, ReplacingStep

\* The four invariants of the table hold in every behaviour: a family is of one
\* grant and one key, successors form chains, two live tokens in a family and a
\* live token in a closed family are the work of an overtaken rotation only.
THEOREM TableCorrect == Spec => []TableInv
<1>1. Init => TableInv
  BY DEF Init, TableInv, FamilyCoherent, SuccessorsChain, OneLiveUnlessRaced,
         ClosedStaysClosed, Drawn, Stored
<1>2. TypeOK /\ RequestsRefer /\ TableInv /\ [Next]_vars => TableInv'
  BY TableStep
<1>3. QED
  BY <1>1, <1>2, TypeCorrect, PTL DEF Spec

\* Two live tokens in one family come from an overtaken rotation only.
THEOREM OneLiveToken == Spec => []OneLiveUnlessRaced
<1>1. TableInv => OneLiveUnlessRaced
  BY DEF TableInv
<1>2. QED
  BY <1>1, TableCorrect, PTL

\* Only a revoked row has a successor, in its own family and its alone, so a retry
\* within the grace period is never answered from another rotation.
THEOREM SuccessorsInFamily == Spec => []SuccessorsChain
<1>1. TableInv => SuccessorsChain
  BY DEF TableInv
<1>2. QED
  BY <1>1, TableCorrect, PTL

\* A closed family is dead for good unless a rotation of it was overtaken.
THEOREM ClosedForGood == Spec => []ClosedStaysClosed
<1>1. TableInv => ClosedStaysClosed
  BY DEF TableInv
<1>2. QED
  BY <1>1, TableCorrect, PTL

\* Rotation never moves a family to another client, user or key.
THEOREM FamilyOfOneGrant == Spec => []FamilyCoherent
<1>1. TableInv => FamilyCoherent
  BY DEF TableInv
<1>2. QED
  BY <1>1, TableCorrect, PTL

\* Every token handed out is bound to the key its receiver proved, which is the
\* key of the first token of its family.
THEOREM KeysBind == Spec => []KeyBound
<1>1. FamilyCoherent /\ DeliveredToKeyHolder => KeyBound
  BY DEF KeyBound
<1>2. QED
  BY <1>1, FamilyOfOneGrant, KeyHolderOnly, PTL

-----------------------------------------------------------------------------
(* The table implements TokenFamilies. *)

StateOf == [f \in Family |-> FamilyState(f)]
RotatingIn == [r \in Req |-> IF req[r].pc = "commit" THEN row[req[r].cur].family ELSE None]

\* What a family's state says of its rows.
LEMMA StateFacts ==
  ASSUME NEW f
  PROVE  /\ FamilyState(f) = "unused" <=> f \notin FamiliesOf(Drawn)
         /\ FamilyState(f) = "live" <=>
              \E t \in Stored : row[t].family = f /\ row[t].revokedAt = None
         /\ FamilyState(f) \in {"unused", "live", "dead"}
BY DEF FamilyState, Unrevoked, FamiliesOf, Stored

\* A step that leaves the rows and the clients alone leaves the states alone.
LEMMA SameRows ==
  ASSUME row' = row, removed' = removed
  PROVE  StateOf' = StateOf
BY DEF StateOf, FamilyState, FamiliesOf, Unrevoked, Drawn, Stored

\* Steps that only revoke or delete end families or change nothing abstract.
LEMMA EndingStep ==
  ASSUME FamiliesOf(Drawn)' = FamiliesOf(Drawn),
         \A f \in Family : FamilyState(f)' = "live" => FamilyState(f) = "live",
         RotatingIn' = RotatingIn
  PROVE  Abstract!Next \/ UNCHANGED Abstract!vars
<1> DEFINE F == {f \in Family : FamilyState(f) = "live" /\ FamilyState(f)' # "live"}
<1>1. \A f \in Family : FamilyState(f)' = IF f \in F THEN "dead" ELSE FamilyState(f)
  <2> TAKE f \in Family
  <2>1. FamilyState(f) = "unused" <=> FamilyState(f)' = "unused"
    BY DEF FamilyState
  <2>2. FamilyState(f) \in {"unused", "live", "dead"} /\ FamilyState(f)' \in {"unused", "live", "dead"}
    BY DEF FamilyState
  <2>3. QED
    BY <2>1, <2>2
<1>2. StateOf' = [f \in Family |-> IF f \in F THEN "dead" ELSE StateOf[f]]
  BY <1>1 DEF StateOf
<1>3. CASE F = {}
  BY <1>2, <1>3 DEF Abstract!vars, StateOf, RotatingIn
<1>4. CASE F # {}
  <2>1. Abstract!End(F)
    BY <1>2, <1>4 DEF Abstract!End, StateOf, RotatingIn
  <2>2. QED
    BY <2>1 DEF Abstract!Next
<1>5. QED
  BY <1>3, <1>4

\* A step of one request changes the rotation of that request at most.
OnlyOf(r) == \A s \in Req \ {r} : req'[s] = req[s]

LEMMA RotatingStep ==
  ASSUME TypeOK, RequestsRefer, [Next]_vars, NEW r \in Req, OnlyOf(r)
  PROVE  RotatingIn' = [RotatingIn EXCEPT ![r] =
            IF req'[r].pc = "commit" THEN row'[req'[r].cur].family ELSE None]
<1> DEFINE g == IF req'[r].pc = "commit" THEN row'[req'[r].cur].family ELSE None
<1>1. \A s \in Req : req[s].pc = "commit" =>
        row'[req[s].cur].family = row[req[s].cur].family
  BY RowsKept DEF RequestsRefer
<1>2. \A s \in Req : (IF req'[s].pc = "commit" THEN row'[req'[s].cur].family ELSE None)
                      = IF s = r THEN g ELSE RotatingIn[s]
  BY <1>1 DEF OnlyOf, RotatingIn
<1>3. RotatingIn' = [s \in Req |-> IF s = r THEN g ELSE RotatingIn[s]]
  BY <1>2 DEF RotatingIn
<1>4. QED
  BY <1>3 DEF RotatingIn

LEMMA RotatingKept ==
  ASSUME TypeOK, RequestsRefer, [Next]_vars, req' = req
  PROVE  RotatingIn' = RotatingIn
<1>1. \A s \in Req : req[s].pc = "commit" =>
        row'[req[s].cur].family = row[req[s].cur].family
  BY RowsKept DEF RequestsRefer
<1>2. QED
  BY <1>1 DEF RotatingIn

\* A request that is over, or moves to a step before its commit, drops the
\* rotation it had in hand, if it had one.
LEMMA LeavingStep ==
  ASSUME TypeOK, RequestsRefer, [Next]_vars,
         NEW r \in Req, OnlyOf(r), req'[r].pc # "commit",
         StateOf' = StateOf
  PROVE  Abstract!Next \/ UNCHANGED Abstract!vars
<1>1. RotatingIn' = [RotatingIn EXCEPT ![r] = None]
  BY RotatingStep
<1>2. CASE RotatingIn[r] = None
  <2>1. RotatingIn' = RotatingIn
    BY <1>1, <1>2 DEF RotatingIn
  <2>2. QED
    BY <2>1 DEF Abstract!vars, StateOf, RotatingIn
<1>3. CASE RotatingIn[r] # None
  <2>1. Abstract!Drop(r)
    BY <1>1, <1>3 DEF Abstract!Drop, StateOf, RotatingIn
  <2>2. QED
    BY <2>1 DEF Abstract!Next
<1>4. QED
  BY <1>2, <1>3

\* Every step of the table is a step of the families or leaves them alone.
LEMMA AbstractStep ==
  ASSUME TypeOK, RequestsRefer, [Next]_vars
  PROVE  Abstract!Next \/ UNCHANGED Abstract!vars
<1> DEFINE Simulated == Abstract!Next \/ UNCHANGED Abstract!vars
<1>a. ASSUME NEW r \in Req, Finish(r)
      PROVE  OnlyOf(r) /\ req'[r].pc = "idle"
  BY <1>a DEF Finish, Idle, OnlyOf, TypeOK
<1>b. ASSUME NEW r \in Req, NEW pc, Goto(r, pc)
      PROVE  OnlyOf(r) /\ req'[r].pc = pc /\ req'[r].cur = req[r].cur
  BY <1>b DEF Goto, OnlyOf, TypeOK, Request
<1>c. ASSUME NEW r \in Req, NEW t, Rotating(r, t)
      PROVE  OnlyOf(r) /\ req'[r].pc = "select"
  BY <1>c DEF Rotating, OnlyOf, TypeOK, Request
<1>d. ASSUME NEW r \in Req, NEW t, Following(r, t)
      PROVE  OnlyOf(r) /\ req'[r].pc = "child"
  BY <1>d DEF Following, OnlyOf, TypeOK, Request
<1>1. ASSUME NEW r \in Req, Create(r) PROVE Simulated
  <2>1. PICK t \in Token \ Drawn, f \in Family \ FamiliesOf(Drawn),
             g \in Grant \ removed, k \in Key :
          /\ InsertRow(t, [family |-> f, grant |-> g, key |-> k, created |-> clock,
                           expires |-> clock + Ttl, revokedAt |-> None,
                           successor |-> None])
          /\ req' = [req EXCEPT ![r] = [pc |-> "deliver", token |-> None, key |-> k,
                                       now |-> 0, cur |-> None, new |-> t]]
    BY <1>1 DEF Create
  <2> DEFINE columns == [family |-> f, grant |-> g, key |-> k, created |-> clock,
                         expires |-> clock + Ttl, revokedAt |-> None,
                         successor |-> None]
  <2>2. columns \in Row
    BY TimeAssumption DEF TypeOK, Row
  <2>3. /\ Drawn' = Drawn \cup {t}
        /\ row'[t] = columns
        /\ \A u \in Drawn : row'[u] = row[u]
        /\ FamiliesOf(Drawn)' = FamiliesOf(Drawn) \cup {f}
    BY <2>1, <2>2, InsertRowEffect
  <2>4. Stored' = Stored \cup {t} /\ Stored \subseteq Drawn
    BY <1>1, <2>3 DEF Create, Stored
  <2>5. FamilyState(f)' = "live"
    BY <2>3, <2>4 DEF FamilyState, Unrevoked, FamiliesOf
  <2>6. ASSUME NEW e \in Family, e # f
        PROVE  FamilyState(e)' = FamilyState(e)
    <3>1. Unrevoked({e})' = Unrevoked({e})
      BY <2>3, <2>4, <2>6 DEF Unrevoked
    <3>2. QED
      BY <2>3, <2>6, <3>1 DEF FamilyState
  <2>7. StateOf' = [StateOf EXCEPT ![f] = "live"]
    BY <2>5, <2>6 DEF StateOf
  <2>8. StateOf[f] = "unused"
    BY DEF StateOf, FamilyState
  <2>9. RotatingIn' = RotatingIn
    <3>1. RotatingIn' = [RotatingIn EXCEPT ![r] = None]
      <4>1. OnlyOf(r) /\ req'[r].pc = "deliver"
        BY <2>1 DEF OnlyOf, TypeOK
      <4>2. QED
        BY <4>1, RotatingStep
    <3>2. RotatingIn[r] = None
      BY <1>1 DEF Create, RotatingIn
    <3>3. QED
      BY <3>1, <3>2 DEF RotatingIn
  <2>10. Abstract!Issue(f)
    BY <2>7, <2>8, <2>9 DEF Abstract!Issue, StateOf, RotatingIn
  <2>11. QED
    BY <2>10 DEF Abstract!Next
<1>2. ASSUME NEW r \in Req,
             \/ Begin(r) \/ Lookup(r) \/ FindChild(r) \/ Deliver(r) \/ Abort(r)
      PROVE  Simulated
  <2>1. StateOf' = StateOf
    BY <1>2, SameRows DEF Begin, Lookup, FindChild, Deliver, Abort
  <2>2. OnlyOf(r) /\ req'[r].pc # "commit"
    <3>1. CASE Begin(r)
      BY <3>1 DEF Begin, OnlyOf, TypeOK
    <3>2. CASE Lookup(r)
      BY <1>a, <1>b, <1>c, <1>d, <3>2 DEF Lookup
    <3>3. CASE FindChild(r)
      BY <1>a, <1>c, <3>3 DEF FindChild
    <3>4. CASE Deliver(r) \/ Abort(r)
      BY <1>a, <3>4 DEF Deliver, Abort
    <3>5. QED
      BY <1>2, <3>1, <3>2, <3>3, <3>4
  <2>3. QED
    BY <2>1, <2>2, LeavingStep
<1>3. ASSUME NEW r \in Req, TxSelect(r) PROVE Simulated
  <2> DEFINE c == req[r].cur
  <2>1. StateOf' = StateOf
    BY <1>3, SameRows DEF TxSelect
  <2>2. CASE Finish(r)
    BY <1>a, <2>1, <2>2, LeavingStep
  <2>3. CASE Live(c) /\ Goto(r, "commit")
    <3>1. OnlyOf(r) /\ req'[r].pc = "commit" /\ req'[r].cur = c
      BY <1>b, <2>3
    <3>a. row[c].family \in Family
      BY <2>3 DEF Live, Stored, TypeOK, Row
    <3>b. PICK f \in Family : f = row[c].family
      BY <3>a
    <3>2. RotatingIn' = [RotatingIn EXCEPT ![r] = f]
      BY <1>3, <3>1, <3>b, RotatingStep DEF TxSelect
    <3>3. StateOf[f] = "live"
      BY <2>3, <3>b, StateFacts DEF Live, StateOf
    <3>4. RotatingIn[r] = None
      BY <1>3 DEF TxSelect, RotatingIn
    <3>5. Abstract!Admit(r, f)
      BY <2>1, <3>2, <3>3, <3>4 DEF Abstract!Admit, StateOf, RotatingIn
    <3>6. QED
      BY <3>5 DEF Abstract!Next
  <2>4. QED
    BY <1>3, <2>2, <2>3 DEF TxSelect
<1>4. ASSUME NEW r \in Req, TxCommit(r) PROVE Simulated
  <2> DEFINE c == req[r].cur
  <2>1. CASE c \notin Stored
    <3>1. StateOf' = StateOf
      BY <1>4, <2>1, SameRows DEF TxCommit
    <3>2. Finish(r)
      BY <1>4, <2>1 DEF TxCommit
    <3>3. QED
      BY <1>a, <3>1, <3>2, LeavingStep
  <2>2. CASE c \in Stored
    <3>1. PICK t \in Token \ Drawn, began \in req[r].now..clock :
            /\ Replace(c, t, req[r].now, began)
            /\ req' = [req EXCEPT ![r] = [req[r] EXCEPT !.pc = "deliver", !.new = t]]
      BY <1>4, <2>2 DEF TxCommit, TypeOK
    <3>a. c \in Drawn /\ row[c].family \in Family
      BY <2>2 DEF Stored, TypeOK, Row
    <3>b. PICK f \in Family : f = row[c].family
      BY <3>a
    <3>2. c \in Drawn /\ req[r].now \in Nat /\ began \in Nat
      BY <3>a, <3>1 DEF TypeOK, Request
    <3>3. /\ Drawn' = Drawn \cup {t}
          /\ row'[t].revokedAt = None /\ row'[t].family = f
          /\ row'[t].grant = row[c].grant
          /\ \A u \in Drawn : /\ row'[u].family = row[u].family
                              /\ row'[u].grant = row[u].grant
          /\ \A u \in Drawn \ {c} : row'[u] = row[u]
          /\ FamiliesOf(Drawn)' = FamiliesOf(Drawn)
      BY <3>1, <3>2, <3>b, ReplaceEffect
    <3>4. Stored' = Stored \cup {t} /\ Stored \subseteq Drawn
      BY <1>4, <2>2, <3>3 DEF TxCommit, Stored
    <3>5. FamilyState(f)' = "live"
      <4>1. t \in Unrevoked({f})'
        BY <3>3, <3>4 DEF Unrevoked
      <4>2. f \in FamiliesOf(Drawn)'
        BY <3>2, <3>3, <3>b DEF FamiliesOf
      <4>3. QED
        BY <4>1, <4>2 DEF FamilyState
    <3>6. ASSUME NEW e \in Family, e # f
          PROVE  FamilyState(e)' = FamilyState(e)
      <4>1. Unrevoked({e})' = Unrevoked({e})
        BY <3>2, <3>b, <3>3, <3>4, <3>6 DEF Unrevoked
      <4>2. QED
        BY <3>3, <4>1 DEF FamilyState
    <3>7. StateOf' = [StateOf EXCEPT ![f] = "live"]
      BY <3>5, <3>6 DEF StateOf
    <3>8. OnlyOf(r) /\ req'[r].pc = "deliver"
      BY <3>1 DEF OnlyOf, TypeOK, Request
    <3>9. RotatingIn' = [RotatingIn EXCEPT ![r] = None]
      BY <3>8, RotatingStep
    <3>10. RotatingIn[r] = f /\ f # None
      BY <1>4, <3>b, NoneAssumption DEF TxCommit, RotatingIn
    <3>11. Abstract!Rotate(r)
      BY <3>7, <3>9, <3>10 DEF Abstract!Rotate, StateOf, RotatingIn
    <3>12. QED
      BY <3>11 DEF Abstract!Next
  <2>3. QED
    BY <2>1, <2>2
<1>5. ASSUME FamiliesOf(Drawn)' = FamiliesOf(Drawn),
             \A t \in Stored' : Live(t)' => Live(t) /\ row'[t].family = row[t].family,
             RotatingIn' = RotatingIn
      PROVE  Simulated
  <2>1. \A f \in Family : FamilyState(f)' = "live" => FamilyState(f) = "live"
    BY <1>5 DEF FamilyState, Unrevoked, FamiliesOf, Live, Stored
  <2>2. QED
    BY <1>5, <2>1, EndingStep
<1>6. ASSUME NEW F \in SUBSET FamiliesOf(Drawn), NEW S \in SUBSET Drawn, Revoking(F, S),
             RotatingIn' = RotatingIn
      PROVE  Simulated
  <2>1. /\ FamiliesOf(Drawn)' = FamiliesOf(Drawn)
        /\ Drawn' = Drawn
        /\ \A t \in Drawn : /\ row'[t].family = row[t].family
                            /\ row'[t].grant = row[t].grant
                            /\ row[t].revokedAt # None => row'[t].revokedAt # None
    BY <1>6, RevokeRowsEffect DEF Revoking, TypeOK
  <2>2. \A t \in Stored' : Live(t)' => Live(t) /\ row'[t].family = row[t].family
    BY <1>6, <2>1 DEF Revoking, Stored, Live
  <2>3. QED
    BY <1>5, <1>6, <2>1, <2>2
<1>7. ASSUME NEW r \in Req, RevokeFamily(r) PROVE Simulated
  <2> DEFINE F == {row[req[r].token].family}
  <2>1. F \in SUBSET FamiliesOf(Drawn) /\ Unrevoked(F) \in SUBSET Drawn
    BY <1>7 DEF RevokeFamily, RequestsRefer, FamiliesOf, Unrevoked, Stored
  <2>2. Revoking(F, Unrevoked(F))
    BY <1>7 DEF RevokeFamily, Revoking
  <2>3. RotatingIn' = RotatingIn
    <3>1. RotatingIn' = [RotatingIn EXCEPT ![r] = None]
      BY <1>a, <1>7, RotatingStep DEF RevokeFamily
    <3>2. RotatingIn[r] = None
      BY <1>7 DEF RevokeFamily, RotatingIn
    <3>3. QED
      BY <3>1, <3>2 DEF RotatingIn
  <2>4. QED
    BY <1>6, <2>1, <2>2, <2>3
<1>8. ASSUME NEW t \in Token, RevokeToken(t) PROVE Simulated
  <2>1. Revoking({}, {t}) /\ {t} \in SUBSET Drawn
    BY <1>8 DEF RevokeToken, Revoking, Unrevoked, Live, Stored
  <2>2. RotatingIn' = RotatingIn
    BY <1>8, RotatingKept DEF RevokeToken
  <2>3. QED
    BY <1>6, <2>1, <2>2
<1>9. ASSUME NEW g \in Grant, RevokeAllForClient(g) PROVE Simulated
  <2> DEFINE F == FamiliesOf({t \in Stored : row[t].grant = g})
  <2>1. F \in SUBSET FamiliesOf(Drawn)
    BY DEF FamiliesOf, Stored
  <2>2. Unrevoked(F) \in SUBSET Drawn
    BY DEF Unrevoked, Stored
  <2>3. Revoking(F, Unrevoked(F))
    BY <1>9 DEF RevokeAllForClient, Revoking
  <2>4. RotatingIn' = RotatingIn
    BY <1>9, RotatingKept DEF RevokeAllForClient
  <2>5. QED
    BY <1>6, <2>1, <2>2, <2>3, <2>4
<1>10. ASSUME NEW g \in Grant, DeleteClient(g) PROVE Simulated
  <2>1. RotatingIn' = RotatingIn
    BY <1>10, RotatingKept DEF DeleteClient
  <2>2. FamiliesOf(Drawn)' = FamiliesOf(Drawn)
    BY <1>10 DEF DeleteClient, FamiliesOf, Drawn
  <2>3. \A t \in Stored' : Live(t)' => Live(t) /\ row'[t].family = row[t].family
    BY <1>10 DEF DeleteClient, Live, Stored, Drawn
  <2>4. QED
    BY <1>5, <2>1, <2>2, <2>3
<1>11. ASSUME Tick \/ UNCHANGED vars PROVE Simulated
  <2>1. RotatingIn' = RotatingIn
    BY <1>11, RotatingKept DEF Tick, vars
  <2>2. StateOf' = StateOf
    BY <1>11, SameRows DEF Tick, vars
  <2>3. QED
    BY <2>1, <2>2 DEF Abstract!vars, StateOf, RotatingIn
<1>12. QED
  BY <1>1, <1>2, <1>3, <1>4, <1>7, <1>8, <1>9, <1>10, <1>11 DEF Next, Rotation

\* The refresh-token table implements its abstract families: once every token of
\* a family is revoked or gone, it lives again only by a rotation that had found
\* it alive and commits late.
THEOREM Implementation == Spec => ImplementsFamilies
<1>1. Init => Abstract!Init
  <2> SUFFICES ASSUME Init PROVE Abstract!Init
    OBVIOUS
  <2>1. \A f \in Family : FamilyState(f) = "unused"
    BY DEF Init, FamilyState, FamiliesOf, Drawn
  <2>2. \A r \in Req : req[r].pc # "commit"
    BY DEF Init, Idle
  <2>3. QED
    BY <2>1, <2>2 DEF Abstract!Init
<1>2. TypeOK /\ RequestsRefer /\ [Next]_vars => [Abstract!Next]_(Abstract!vars)
  BY AbstractStep
<1>3. QED
  BY <1>1, <1>2, TypeCorrect, PTL DEF Spec, ImplementsFamilies, Abstract!Spec

-----------------------------------------------------------------------------
(* The console: what a step does to the store, and what travels.           *)

\* The inductive invariant: the console's, and the two of the store.
Inv == ConsoleInv /\ RequestsRefer /\ TableInv

\* Every step of the console is one of the store, or leaves it alone.
LEMMA StoreSteps ==
  ASSUME TypeOK, [ConsoleNext]_consoleVars
  PROVE  [Next]_vars
<1>1. ASSUME NEW r \in Req, NEW k \in Key, Callback(r, k) PROVE [Next]_vars
  BY <1>1 DEF Callback, Next
<1>2. ASSUME NEW r \in Req, Visit(r) \/ Refresh(r) \/ Serve(r) \/ SendAnswer(r) \/ BreakOff(r)
      PROVE  [Next]_vars
  BY <1>2 DEF Visit, Refresh, Serve, SendAnswer, BreakOff, Next, Rotation
<1>3. ASSUME Revoke PROVE [Next]_vars
  <2>1. Live(leaving) => leaving \in Token
    BY DEF Live, Stored, TypeOK
  <2>2. CASE UNCHANGED vars
    BY <2>2
  <2>3. CASE Live(leaving) /\ RevokeToken(leaving)
    BY <2>1, <2>3 DEF Next
  <2> QED BY <1>3, <2>2, <2>3 DEF Revoke
<1>4. ASSUME NEW k \in Key, StartLogin(k) PROVE [Next]_vars
  BY <1>4 DEF StartLogin
<1>5. ASSUME NEW a \in answers, SetSession(a) \/ Lose(a) PROVE [Next]_vars
  BY <1>5 DEF SetSession, Lose
<1>6. ASSUME LogOut \/ ClearSession \/ Wait \/ UNCHANGED consoleVars PROVE [Next]_vars
  BY <1>6 DEF LogOut, ClearSession, Wait, consoleVars, Next
<1> QED BY <1>1, <1>2, <1>3, <1>4, <1>5, <1>6 DEF ConsoleNext

LEMMA ConsoleStore ==
  ASSUME Inv, [ConsoleNext]_consoleVars
  PROVE  /\ TypeOK /\ RequestsRefer /\ TableInv /\ removed = {}
         /\ [Next]_vars
         /\ TypeOK' /\ RequestsRefer' /\ TableInv' /\ removed' = {}
<1>1. TypeOK /\ RequestsRefer /\ TableInv /\ removed = {}
  BY DEF Inv, ConsoleInv, ConsoleTypeOK
<1>2. [Next]_vars
  BY <1>1, StoreSteps
<1>3. removed' = removed
  BY DEF consoleVars, vars, ConsoleNext, StartLogin, Callback, Visit, Refresh, Serve, SendAnswer,
         SetSession, Lose, BreakOff, LogOut, Revoke, ClearSession, Wait, Create, Begin, Lookup, FindChild,
         RevokeFamily, TxSelect, TxCommit, Deliver, Abort, RevokeToken, Tick
<1> QED BY <1>1, <1>2, <1>3, TypeStep, RequestsStep, TableStep

\* With no client deleted the table holds every row, and the chains are these.
LEMMA StoreFacts ==
  ASSUME TypeOK, TableInv, removed = {}
  PROVE  /\ Stored = Drawn /\ Drawn \subseteq Token /\ None \notin Drawn
         /\ \A t : Live(t) <=> t \in Drawn /\ row[t].revokedAt = None
         /\ \A f : Unrevoked({f}) = {t \in Drawn : row[t].family = f /\ row[t].revokedAt = None}
         /\ \A t \in Drawn : /\ row[t].family \in Family /\ row[t].key \in Key
                             /\ row[t].revokedAt \in Nat \cup {None}
                             /\ row[t].successor \in Token \cup {None}
         /\ \A t \in Drawn : row[t].successor # None =>
              /\ row[t].revokedAt # None
              /\ row[t].successor \in Drawn /\ row[t].successor # t
              /\ row[row[t].successor].family = row[t].family
              /\ \A u \in Drawn : row[u].successor = row[t].successor => u = t
         /\ \A t, u \in Drawn :
              row[t].revokedAt = None /\ row[u].revokedAt = None /\ row[t].family = row[u].family
                => t = u \/ row[t].family \in raced
<1>1. Stored = Drawn
  BY DEF Stored
<1>2. Drawn \subseteq Token /\ None \notin Drawn
  BY NoneAssumption DEF TypeOK
<1>3. \A t \in Drawn : row[t] \in Row
  BY DEF TypeOK
<1>4. \A t : Live(t) <=> t \in Drawn /\ row[t].revokedAt = None
  BY <1>1 DEF Live
<1>5. \A f : Unrevoked({f}) = {t \in Drawn : row[t].family = f /\ row[t].revokedAt = None}
  BY <1>1 DEF Unrevoked
<1>6. \A t \in Drawn : row[t].successor # None =>
              /\ row[t].revokedAt # None
              /\ row[t].successor \in Drawn /\ row[t].successor # t
              /\ row[row[t].successor].family = row[t].family
              /\ \A u \in Drawn : row[u].successor = row[t].successor => u = t
  BY DEF TableInv, SuccessorsChain
<1>7. \A t, u \in Drawn :
              row[t].revokedAt = None /\ row[u].revokedAt = None /\ row[t].family = row[u].family
                => t = u \/ row[t].family \in raced
  BY <1>1, <1>4 DEF TableInv, OneLiveUnlessRaced
<1>8. \A t \in Drawn : /\ row[t].family \in Family /\ row[t].key \in Key
                       /\ row[t].revokedAt \in Nat \cup {None}
                       /\ row[t].successor \in Token \cup {None}
  BY <1>3 DEF Row
<1> QED BY <1>1, <1>2, <1>4, <1>5, <1>6, <1>7, <1>8

-----------------------------------------------------------------------------
(* The kinds of step, by what they do to the table and to what is on its way. *)

\* Where a request goes when it ends or moves on.
LEMMA Moves ==
  ASSUME TypeOK, NEW r \in Req
  PROVE  /\ Finish(r) => req'[r] = Idle /\ OnlyOf(r)
         /\ \A pc : Goto(r, pc) =>
              /\ req'[r].pc = pc /\ req'[r].token = req[r].token /\ req'[r].cur = req[r].cur
              /\ req'[r].now = req[r].now /\ req'[r].new = req[r].new /\ OnlyOf(r)
         /\ \A t : Rotating(r, t) =>
              /\ req'[r].pc = "select" /\ req'[r].token = req[r].token /\ req'[r].cur = t
              /\ req'[r].now = req[r].now /\ req'[r].new = req[r].new /\ OnlyOf(r)
         /\ \A t : Following(r, t) =>
              /\ req'[r].pc = "child" /\ req'[r].token = req[r].token /\ req'[r].cur = t
              /\ req'[r].now = req[r].now /\ req'[r].new = req[r].new /\ OnlyOf(r)
<1>1. req[r] \in Request /\ req \in [Req -> Request]
  BY DEF TypeOK
<1>2. Finish(r) => req'[r] = Idle /\ OnlyOf(r)
  BY <1>1 DEF Finish, OnlyOf
<1>3. ASSUME NEW pc, Goto(r, pc)
      PROVE  /\ req'[r].pc = pc /\ req'[r].token = req[r].token /\ req'[r].cur = req[r].cur
             /\ req'[r].now = req[r].now /\ req'[r].new = req[r].new /\ OnlyOf(r)
  BY <1>1, <1>3 DEF Goto, OnlyOf, Request
<1>4. ASSUME NEW t, Rotating(r, t)
      PROVE  /\ req'[r].pc = "select" /\ req'[r].token = req[r].token /\ req'[r].cur = t
             /\ req'[r].now = req[r].now /\ req'[r].new = req[r].new /\ OnlyOf(r)
  BY <1>1, <1>4 DEF Rotating, OnlyOf, Request
<1>5. ASSUME NEW t, Following(r, t)
      PROVE  /\ req'[r].pc = "child" /\ req'[r].token = req[r].token /\ req'[r].cur = t
             /\ req'[r].now = req[r].now /\ req'[r].new = req[r].new /\ OnlyOf(r)
  BY <1>1, <1>5 DEF Following, OnlyOf, Request
<1> QED BY <1>2, <1>3, <1>4, <1>5

SameTable == row' = row /\ raced' = raced
SameTraffic == answers' = answers /\ seen' = seen

\* No token sets off for the cookie, arrives there or is lost.
Calm == /\ SameTraffic
        /\ \A r \in Req : req[r].pc = "deliver" \/ req'[r].pc = "deliver" => req'[r] = req[r]

\* Rows are revoked: of a family in which none is left then, unless it raced.
Revokes ==
  /\ Drawn' = Drawn /\ raced' = raced
  /\ \A t \in Drawn : row'[t] # row[t] =>
       /\ row[t].revokedAt = None /\ row'[t].revokedAt # None
       /\ row'[t].family = row[t].family /\ row'[t].successor = row[t].successor
       /\ \/ row[t].family \in raced
          \/ \A u \in Drawn : row[u].family = row[t].family => row'[u].revokedAt # None

\* The first token of a family sets off.
Founds(r, t) ==
  /\ req[r].pc = "idle" /\ visit[r] = None /\ SameTraffic /\ OnlyOf(r) /\ raced' = raced
  /\ t \in Token \ Drawn /\ Drawn' = Drawn \cup {t}
  /\ \A u \in Drawn : row'[u] = row[u]
  /\ row'[t].family \notin FamiliesOf(Drawn)
  /\ row'[t].revokedAt = None /\ row'[t].successor = None
  /\ req'[r].pc = "deliver" /\ req'[r].cur = None /\ req'[r].token = None
  /\ req'[r].new = t /\ req'[r].now = 0

\* The token that replaces the current one of a rotation sets off.
Replaces(r, t) ==
  LET c == req[r].cur IN
  /\ req[r].pc = "commit" /\ SameTraffic /\ OnlyOf(r)
  /\ c \in Drawn /\ t \in Token \ Drawn /\ Drawn' = Drawn \cup {t}
  /\ \A u \in Drawn \ {c} : row'[u] = row[u]
  /\ row'[c].revokedAt = req[r].now /\ row'[c].successor = t
  /\ row'[c].family = row[c].family /\ row'[t].family = row[c].family
  /\ row'[t].revokedAt = None /\ row'[t].successor = None
  /\ raced' = IF row[c].revokedAt = None THEN raced ELSE raced \cup {row[c].family}
  /\ req'[r].pc = "deliver" /\ req'[r].cur = c /\ req'[r].token = req[r].token
  /\ req'[r].new = t /\ req'[r].now = req[r].now

Sends(r) ==
  /\ req[r].pc = "deliver" /\ req'[r] = Idle /\ OnlyOf(r) /\ SameTable /\ seen' = seen
  /\ answers' = answers \cup {[token |-> req[r].new, at |-> req[r].now,
                               key |-> req[r].key, login |-> req[r].cur = None]}

\* A delivery breaks off at the server.
Drops(r) ==
  /\ req[r].pc = "deliver" /\ req'[r] = Idle /\ OnlyOf(r) /\ SameTable /\ SameTraffic
  /\ req[r].cur # None => fault' = "missed"

LEMMA CallbackKind ==
  ASSUME Inv, TypeOK, NEW r \in Req, NEW k \in Key, Callback(r, k)
  PROVE  (Calm /\ SameTable) \/ \E t : Founds(r, t)
<1>1. CASE UNCHANGED vars
  BY <1>1 DEF Callback, vars, past, Calm, SameTable, SameTraffic
<1>2. CASE Create(r)
  <2>1. PICK t \in Token \ Drawn, f \in Family \ FamiliesOf(Drawn),
             g \in Grant \ removed, l \in Key :
          /\ InsertRow(t, [family |-> f, grant |-> g, key |-> l, created |-> clock,
                           expires |-> clock + Ttl, revokedAt |-> None,
                           successor |-> None])
          /\ req' = [req EXCEPT ![r] = [pc |-> "deliver", token |-> None, key |-> l,
                                       now |-> 0, cur |-> None, new |-> t]]
    BY <1>2 DEF Create
  <2> DEFINE columns == [family |-> f, grant |-> g, key |-> l, created |-> clock,
                         expires |-> clock + Ttl,
                         revokedAt |-> None, successor |-> None]
  <2>2. columns \in Row
    BY TimeAssumption DEF TypeOK, Row
  <2>3. /\ Drawn' = Drawn \cup {t} /\ row'[t] = columns
        /\ \A u \in Drawn : row'[u] = row[u]
    BY <2>1, <2>2, InsertRowEffect
  <2>4. req' = [req EXCEPT ![r] = req'[r]]
        /\ req'[r].pc = "deliver" /\ req'[r].cur = None /\ req'[r].token = None
        /\ req'[r].new = t /\ req'[r].now = 0
    BY <2>1 DEF TypeOK
  <2>5. OnlyOf(r)
    BY <2>4 DEF OnlyOf, TypeOK
  <2>6. SameTraffic /\ raced' = raced /\ req[r].pc = "idle" /\ visit[r] = None
    BY <1>2 DEF Callback, Create, SameTraffic, past
  <2>7. Founds(r, t)
    BY <2>3, <2>4, <2>5, <2>6 DEF Founds
  <2> QED BY <2>7
<1> QED BY <1>1, <1>2 DEF Callback

LEMMA CommitKind ==
  ASSUME Inv, TypeOK, RequestsRefer, NEW r \in Req, Serve(r), TxCommit(r)
  PROVE  (Calm /\ SameTable) \/ \E t : Replaces(r, t)
<1> DEFINE c == req[r].cur
<1>1. CASE c \in Stored
  <2>1. PICK t \in Token \ Drawn, began \in req[r].now..clock :
          /\ Replace(c, t, req[r].now, began)
          /\ req' = [req EXCEPT ![r] = [req[r] EXCEPT !.pc = "deliver", !.new = t]]
    BY <1>1 DEF TxCommit, TypeOK
  <2>2. c \in Drawn /\ req[r].now \in Nat /\ req[r] \in Request /\ began \in Nat
    BY <1>1, <2>1 DEF Stored, TypeOK, Request
  <2>3. /\ Drawn' = Drawn \cup {t}
        /\ row'[t].revokedAt = None /\ row'[t].successor = None
        /\ row'[t].family = row[c].family
        /\ row'[c].revokedAt = req[r].now /\ row'[c].successor = t
        /\ row'[c].family = row[c].family
        /\ \A u \in Drawn \ {c} : row'[u] = row[u]
    BY <2>1, <2>2, ReplaceEffect
  <2>4. /\ req'[r].pc = "deliver" /\ req'[r].cur = c /\ req'[r].token = req[r].token
        /\ req'[r].new = t /\ req'[r].now = req[r].now
        /\ OnlyOf(r)
    BY <2>1, <2>2 DEF OnlyOf, TypeOK, Request
  <2>5. /\ SameTraffic /\ req[r].pc = "commit"
        /\ raced' = IF row[c].revokedAt = None THEN raced ELSE raced \cup {row[c].family}
    BY <1>1 DEF Serve, TxCommit, SameTraffic, past, browser
  <2>6. Replaces(r, t)
    BY <2>2, <2>3, <2>4, <2>5 DEF Replaces
  <2> QED BY <2>6
<1>2. CASE c \notin Stored
  <2>1. Finish(r) /\ SameTable /\ SameTraffic /\ req[r].pc = "commit"
    BY <1>2 DEF Serve, TxCommit, SameTable, SameTraffic, past, browser
  <2>2. Calm
    BY <2>1, Moves DEF Calm, OnlyOf, Idle
  <2> QED BY <2>1, <2>2
<1> QED BY <1>1, <1>2

LEMMA RevokeKind ==
  ASSUME Inv, TypeOK, RequestsRefer, TableInv, removed = {}, removed' = {}, NEW S \in SUBSET Drawn,
         NEW f, \A t \in S : row[t].family = f,
         f \in raced \/ Unrevoked({f}) \subseteq S,
         RevokeRows(S, clock), raced' = raced
  PROVE  Revokes
<1>1. clock \in Nat
  BY DEF TypeOK
<1>2. /\ Drawn' = Drawn
      /\ \A t \in Drawn :
              /\ row'[t].family = row[t].family
              /\ row'[t].successor = row[t].successor
              /\ row[t].revokedAt # None => row'[t].revokedAt # None
              /\ row'[t].revokedAt = None => t \notin S \/ t \notin Stored
              /\ row'[t] # row[t] => t \in S /\ row[t].revokedAt = None
  BY <1>1, RevokeRowsEffect
<1>3. Stored = Drawn /\ Stored' = Drawn
  BY <1>2 DEF Stored
<1>4. f \in raced \/ \A u \in Drawn : row[u].family = f => row'[u].revokedAt # None
  BY <1>2, <1>3 DEF Unrevoked
<1>5. ASSUME NEW t \in Drawn, row'[t] # row[t]
      PROVE  /\ row[t].revokedAt = None /\ row'[t].revokedAt # None
             /\ \/ row[t].family \in raced
                \/ \A u \in Drawn : row[u].family = row[t].family => row'[u].revokedAt # None
  BY <1>2, <1>3, <1>4, <1>5
<1> QED BY <1>2, <1>5 DEF Revokes

\* Reuse detection and the logout revoke.
LEMMA ReuseKind ==
  ASSUME Inv, TypeOK, RequestsRefer, TableInv, removed = {}, removed' = {},
         NEW r \in Req, Serve(r), RevokeFamily(r)
  PROVE  Calm /\ Revokes
<1> DEFINE f == row[req[r].token].family
<1>1. Unrevoked({f}) \in SUBSET Drawn /\ \A t \in Unrevoked({f}) : row[t].family = f
  BY DEF Unrevoked, Stored
<1>2. RevokeRows(Unrevoked({f}), clock) /\ raced' = raced
  BY DEF RevokeFamily
<1>3. Revokes
  BY <1>1, <1>2, RevokeKind
<1>4. SameTraffic /\ Finish(r) /\ req[r].pc = "reuse"
  BY DEF Serve, RevokeFamily, SameTraffic, past, browser
<1>5. Calm
  BY <1>4, Moves DEF Calm, OnlyOf, Idle
<1> QED BY <1>3, <1>5

LEMMA LogoutKind ==
  ASSUME Inv, TypeOK, RequestsRefer, TableInv, removed = {}, removed' = {}, Revoke
  PROVE  Calm /\ (SameTable \/ Revokes)
<1> DEFINE t == leaving
<1>1. Calm
  <2>1. SameTraffic
    BY DEF Revoke, SameTraffic
  <2>2. req' = req
    BY DEF Revoke, vars, RevokeToken
  <2> QED BY <2>1, <2>2 DEF Calm
<1>2. CASE UNCHANGED vars
  BY <1>1, <1>2 DEF vars, SameTable
<1>3. CASE Live(t) /\ RevokeToken(t)
  <2> DEFINE f == row[t].family
  <2>1. t \in Drawn /\ row[t].revokedAt = None
    BY <1>3 DEF Live, Stored
  <2>2. ASSUME NEW u \in Unrevoked({f}), f \notin raced PROVE u = t
    <3>1. u \in Drawn /\ row[u].family = f /\ row[u].revokedAt = None
      BY DEF Unrevoked, Stored
    <3> QED BY <2>1, <2>2, <3>1, StoreFacts
  <2>3. RevokeRows({t}, clock) /\ raced' = raced
    BY <1>3 DEF RevokeToken
  <2>4. {t} \in SUBSET Drawn /\ \A u \in {t} : row[u].family = f
    BY <2>1
  <2>5. Revokes
    BY <2>2, <2>3, <2>4, RevokeKind
  <2> QED BY <1>1, <2>5
<1> QED BY <1>2, <1>3 DEF Revoke

\* Everything else leaves the table alone.
LEMMA CalmStep ==
  ASSUME TypeOK,
         \/ \E k \in Key : StartLogin(k)
         \/ \E r \in Req : Visit(r) \/ Refresh(r)
         \/ \E r \in Req : Serve(r) /\ (Lookup(r) \/ FindChild(r) \/ TxSelect(r))
         \/ LogOut \/ ClearSession \/ Wait \/ UNCHANGED consoleVars
  PROVE  Calm /\ SameTable
<1>1. ASSUME NEW r \in Req, Refresh(r) PROVE Calm /\ SameTable
  <2>1. req[r].pc = "idle" /\ SameTraffic /\ SameTable
    BY <1>1 DEF Refresh, Begin, SameTraffic, SameTable, past
  <2>2. req'[r].pc = "lookup" /\ OnlyOf(r)
    BY <1>1 DEF Refresh, Begin, OnlyOf, TypeOK
  <2> QED BY <2>1, <2>2 DEF Calm, OnlyOf
<1>2. ASSUME NEW r \in Req, Serve(r), Lookup(r) \/ FindChild(r) \/ TxSelect(r)
      PROVE  Calm /\ SameTable
  <2>1. req[r].pc # "deliver" /\ SameTraffic /\ SameTable
    BY <1>2 DEF Serve, Lookup, FindChild, TxSelect, SameTraffic, SameTable, past, browser
  <2>2. req'[r].pc # "deliver" /\ OnlyOf(r)
    <3>1. Finish(r) => req'[r].pc # "deliver" /\ OnlyOf(r)
      BY Moves DEF Idle
    <3>2. \A pc : Goto(r, pc) => req'[r].pc = pc /\ OnlyOf(r)
      BY Moves
    <3>3. \A t : Rotating(r, t) \/ Following(r, t) => req'[r].pc # "deliver" /\ OnlyOf(r)
      BY Moves
    <3>4. CASE Lookup(r)
      BY <3>1, <3>2, <3>3, <3>4 DEF Lookup
    <3>5. CASE FindChild(r)
      BY <3>1, <3>3, <3>5 DEF FindChild
    <3>6. CASE TxSelect(r)
      BY <3>1, <3>2, <3>6 DEF TxSelect
    <3> QED BY <1>2, <3>4, <3>5, <3>6
  <2> QED BY <2>1, <2>2 DEF Calm, OnlyOf
<1>3. CASE \/ \E k \in Key : StartLogin(k)
           \/ \E r \in Req : Visit(r)
           \/ LogOut \/ ClearSession \/ Wait \/ UNCHANGED consoleVars
  <2>1. SameTraffic /\ SameTable /\ req' = req
    BY <1>3 DEF StartLogin, Visit, LogOut, Revoke, ClearSession, Wait, Tick, consoleVars, vars, past, browser,
                SameTraffic, SameTable
  <2> QED BY <2>1 DEF Calm
<1> QED BY <1>1, <1>2, <1>3

LEMMA BreakKind ==
  ASSUME TypeOK, NEW r \in Req, BreakOff(r)
  PROVE  (Calm /\ SameTable) \/ Drops(r)
<1>1. SameTraffic /\ SameTable
  BY DEF BreakOff, Abort, vars, SameTraffic, SameTable
<1>2. CASE UNCHANGED vars
  BY <1>1, <1>2 DEF vars, Calm
<1>3. CASE Abort(r) /\ req[r].pc = "deliver"
  BY <1>1, <1>3, Moves DEF BreakOff, Abort, Drops, vars, Idle
<1>4. CASE Abort(r) /\ req[r].pc # "deliver"
  BY <1>1, <1>4, Moves DEF Abort, Calm, OnlyOf, Idle
<1> QED BY <1>2, <1>3, <1>4 DEF BreakOff

LEMMA SendKind ==
  ASSUME TypeOK, NEW r \in Req, SendAnswer(r)
  PROVE  Sends(r)
BY Moves DEF SendAnswer, Deliver, Sends, SameTable, past

LEMMA Kinds ==
  ASSUME Inv, [ConsoleNext]_consoleVars
  PROVE  \/ Calm /\ (SameTable \/ Revokes)
         \/ \E r \in Req, t \in Token : Founds(r, t)
         \/ \E r \in Req, t \in Token : Replaces(r, t)
         \/ \E r \in Req : Sends(r)
         \/ \E a \in answers : SetSession(a) \/ Lose(a)
         \/ \E r \in Req : Drops(r)
<1> DEFINE Known ==
         \/ Calm /\ (SameTable \/ Revokes)
         \/ \E r \in Req, t \in Token : Founds(r, t)
         \/ \E r \in Req, t \in Token : Replaces(r, t)
         \/ \E r \in Req : Sends(r)
         \/ \E a \in answers : SetSession(a) \/ Lose(a)
         \/ \E r \in Req : Drops(r)
<1>a. TypeOK /\ RequestsRefer /\ TableInv /\ removed = {} /\ removed' = {}
  BY ConsoleStore
<1>1. ASSUME NEW r \in Req, NEW k \in Key, Callback(r, k) PROVE Known
  BY <1>a, <1>1, CallbackKind DEF Founds
<1>2. ASSUME NEW r \in Req, Serve(r) PROVE Known
  <2>1. CASE TxCommit(r)
    BY <1>a, <1>2, <2>1, CommitKind DEF Replaces
  <2>2. CASE RevokeFamily(r)
    BY <1>a, <1>2, <2>2, ReuseKind
  <2>3. CASE Lookup(r) \/ FindChild(r) \/ TxSelect(r)
    BY <1>a, <1>2, <2>3, CalmStep
  <2> QED BY <1>2, <2>1, <2>2, <2>3 DEF Serve
<1>3. ASSUME NEW r \in Req, SendAnswer(r) PROVE Known
  BY <1>a, <1>3, SendKind
<1>4. ASSUME NEW r \in Req, BreakOff(r) PROVE Known
  BY <1>a, <1>4, BreakKind
<1>5. CASE Revoke
  BY <1>a, <1>5, LogoutKind
<1>6. CASE \/ \E k \in Key : StartLogin(k)
           \/ \E r \in Req : Visit(r) \/ Refresh(r)
           \/ LogOut \/ ClearSession \/ Wait \/ UNCHANGED consoleVars
  BY <1>a, <1>6, CalmStep
<1> QED BY <1>1, <1>2, <1>3, <1>4, <1>5, <1>6 DEF ConsoleNext

-----------------------------------------------------------------------------
(* What no step undoes, and what each kind does to the tokens on their way. *)

\* Rows keep family and key; histories grow.
LEMMA Frame ==
  ASSUME Inv, [ConsoleNext]_consoleVars
  PROVE  /\ Drawn \subseteq Drawn'
         /\ \A t \in Drawn : row'[t].family = row[t].family /\ row'[t].key = row[t].key
         /\ seen \subseteq seen' /\ raced \subseteq raced' /\ crossed \subseteq crossed'
         /\ clock <= clock' /\ clock \in Nat /\ clock' \in Nat
         /\ fault = "missed" => fault' = "missed"
         /\ fault' = "none" => fault = "none"
<1>1. TypeOK /\ RequestsRefer /\ [Next]_vars /\ TypeOK'
  BY ConsoleStore
<1>2. Drawn \subseteq Drawn' /\ \A t \in Drawn : row'[t].family = row[t].family /\ row'[t].key = row[t].key
  BY <1>1, RowsKept
<1>3. seen \subseteq seen' /\ crossed \subseteq crossed'
      /\ (fault = "missed" => fault' = "missed") /\ (fault' = "none" => fault = "none")
  BY DEF ConsoleNext, consoleVars, past, StartLogin, Callback, Visit, Refresh, Serve, SendAnswer,
         SetSession, Lose, BreakOff, LogOut, Revoke, ClearSession, Wait
<1>4. raced \subseteq raced'
  <2>1. CASE SameTable \/ Revokes \/ (\E r \in Req, t \in Token : Founds(r, t) \/ Replaces(r, t))
             \/ \E r \in Req : Sends(r) \/ Drops(r)
    BY <2>1 DEF SameTable, Revokes, Founds, Replaces, Sends, Drops
  <2>2. CASE \E a \in answers : SetSession(a) \/ Lose(a)
    BY <2>2 DEF SetSession, Lose, vars
  <2> QED BY <2>1, <2>2, Kinds
<1>5. clock \in Nat /\ clock' \in Nat
  BY <1>1 DEF TypeOK
<1>6. clock' = clock \/ clock' = clock + 1
  BY <1>1 DEF Next, vars, Rotation, Create, Begin, Lookup, FindChild, RevokeFamily, TxSelect, TxCommit,
         Deliver, Abort, RevokeToken, RevokeAllForClient, DeleteClient, Tick
<1> QED BY <1>2, <1>3, <1>4, <1>5, <1>6

\* What is on its way to the cookie is drawn and of the cookie's key.
LEMMA InvParts ==
  ASSUME Inv
  PROVE  /\ seen \subseteq Drawn /\ Coming \subseteq Drawn /\ Coming \cap seen = {}
         /\ \A a \in answers : a.token \in Coming
         /\ \A r \in Delivering : req[r].new \in Coming
         /\ TypeOK /\ TableInv /\ removed = {}
         /\ session # None => session.token \in seen
BY DEF Inv, ConsoleInv, ConsoleTypeOK, ComesOnce, Coming, Delivering, RequestsRefer

LEMMA CalmComing ==
  ASSUME Calm
  PROVE  /\ Delivering' = Delivering /\ Coming' = Coming
         /\ \A r \in Delivering : req'[r] = req[r]
<1>1. Delivering' = Delivering /\ \A r \in Delivering : req'[r] = req[r]
  BY DEF Calm, Delivering
<1>2. {req'[r].new : r \in Delivering'} = {req[r].new : r \in Delivering}
  BY <1>1
<1> QED BY <1>1, <1>2 DEF Calm, SameTraffic, Coming

LEMMA LeavesComing ==
  ASSUME NEW r \in Req, NEW t, Founds(r, t) \/ Replaces(r, t)
  PROVE  /\ r \notin Delivering /\ Delivering' = Delivering \cup {r} /\ Coming' = Coming \cup {t}
         /\ \A s \in Delivering : req'[s] = req[s]
         /\ req'[r].new = t /\ answers' = answers /\ seen' = seen
         /\ Drawn' = Drawn \cup {t} /\ t \notin Drawn
<1>1. /\ req[r].pc # "deliver" /\ req'[r].pc = "deliver" /\ req'[r].new = t /\ OnlyOf(r)
      /\ answers' = answers /\ seen' = seen
  BY DEF Founds, Replaces, SameTraffic
<1>2. /\ r \notin Delivering /\ Delivering' = Delivering \cup {r}
      /\ \A s \in Delivering : req'[s] = req[s]
  BY <1>1 DEF Delivering, OnlyOf
<1>3. {req'[s].new : s \in Delivering'} = {req[s].new : s \in Delivering} \cup {t}
  BY <1>1, <1>2
<1>4. Drawn' = Drawn \cup {t} /\ t \notin Drawn
  BY DEF Founds, Replaces
<1> QED BY <1>1, <1>2, <1>3, <1>4 DEF Coming

LEMMA SendsComing ==
  ASSUME NEW r \in Req, Sends(r)
  PROVE  /\ r \in Delivering /\ Delivering' = Delivering \ {r} /\ Coming' = Coming
         /\ \A s \in Delivering' : req'[s] = req[s]
         /\ seen' = seen /\ row' = row
         /\ \E b : /\ answers' = answers \cup {b}
                   /\ b.token = req[r].new /\ b.key = req[r].key /\ b.at = req[r].now
                   /\ b.login <=> req[r].cur = None
<1>1. /\ r \in Delivering /\ Delivering' = Delivering \ {r}
      /\ \A s \in Delivering' : req'[s] = req[s]
  BY DEF Sends, Delivering, OnlyOf, Idle
<1>2. {req'[s].new : s \in Delivering'} \cup {req[r].new} = {req[s].new : s \in Delivering}
  BY <1>1
<1> DEFINE b == [token |-> req[r].new, at |-> req[r].now, key |-> req[r].key,
                 login |-> req[r].cur = None]
<1>3. answers' = answers \cup {b}
  BY DEF Sends
<1>4. /\ b.token = req[r].new /\ b.key = req[r].key /\ b.at = req[r].now
      /\ b.login <=> req[r].cur = None
  OBVIOUS
<1> HIDE DEF b
<1>5. {a.token : a \in answers'} = {a.token : a \in answers} \cup {req[r].new}
  BY <1>3, <1>4
<1>6. Coming' = Coming
  BY <1>2, <1>5 DEF Coming
<1>7. seen' = seen /\ row' = row
  BY DEF Sends, SameTable
<1> QED BY <1>1, <1>3, <1>4, <1>6, <1>7

LEMMA ArrivesComing ==
  ASSUME NEW a \in answers, SetSession(a) \/ Lose(a)
  PROVE  /\ Delivering' = Delivering /\ Coming = Coming' \cup {a.token}
         /\ req' = req /\ row' = row /\ answers' = answers \ {a}
<1>1. req' = req /\ row' = row /\ answers' = answers \ {a}
  BY DEF SetSession, Lose, vars
<1>2. Delivering' = Delivering
  BY <1>1 DEF Delivering
<1> QED BY <1>1, <1>2 DEF Coming

LEMMA DropsComing ==
  ASSUME NEW r \in Req, Drops(r)
  PROVE  /\ r \in Delivering /\ Delivering' = Delivering \ {r}
         /\ Coming = Coming' \cup {req[r].new}
         /\ \A s \in Delivering' : req'[s] = req[s]
         /\ answers' = answers /\ seen' = seen /\ row' = row
<1>1. /\ r \in Delivering /\ Delivering' = Delivering \ {r}
      /\ \A s \in Delivering' : req'[s] = req[s]
      /\ answers' = answers /\ seen' = seen /\ row' = row
  BY DEF Drops, Delivering, OnlyOf, Idle, SameTraffic, SameTable
<1>2. {req'[s].new : s \in Delivering'} \cup {req[r].new} = {req[s].new : s \in Delivering}
  BY <1>1
<1> QED BY <1>1, <1>2 DEF Coming

-----------------------------------------------------------------------------
(* The parts of ConsoleInv, one by one. *)

LEMMA ComesOnceStep ==
  ASSUME Inv, [ConsoleNext]_consoleVars
  PROVE  ComesOnce'
<1>1. /\ \A a, b \in answers : a.token = b.token => a = b
      /\ \A r, s \in Delivering : req[r].new = req[s].new => r = s
      /\ \A a \in answers, r \in Delivering : a.token # req[r].new
      /\ \A a \in answers : a.token \in Drawn /\ row[a.token].key = a.key
  BY DEF Inv, ConsoleInv, ComesOnce
<1>2. session' # None => session'.token \in seen'
  BY InvParts DEF ConsoleNext, consoleVars, past, browser, StartLogin, Callback, Visit, Refresh, Serve, SendAnswer,
         SetSession, Lose, BreakOff, LogOut, Revoke, ClearSession, Wait
<1>3. \A r \in Delivering : req[r].new \in Drawn /\ row[req[r].new].key = req[r].key
  BY DEF Inv, RequestsRefer, Delivering
<1>4. \A a \in answers' : a.token \in Drawn' /\ row'[a.token].key = a.key
  <2> SUFFICES ASSUME NEW a \in answers'
               PROVE  a.token \in Drawn /\ row[a.token].key = a.key
    BY Frame
  <2>1. CASE a \in answers
    BY <1>1, <2>1
  <2>2. ASSUME NEW r \in Req, Sends(r) PROVE a.token \in Drawn /\ row[a.token].key = a.key
    <3>1. r \in Delivering
      BY <2>2 DEF Sends, Delivering
    <3>2. PICK b : answers' = answers \cup {b} /\ b.token = req[r].new /\ b.key = req[r].key
      BY <2>2, SendsComing
    <3> QED BY <1>1, <1>3, <3>1, <3>2
  <2>3. a \in answers \/ \E r \in Req : Sends(r)
    BY Kinds DEF Calm, SameTraffic, Founds, Replaces, Drops, SetSession, Lose
  <2> QED BY <2>1, <2>2, <2>3
<1> DEFINE Apart == /\ Coming \cap seen = {}
                    /\ \A a, b \in answers : a.token = b.token => a = b
                    /\ \A r, s \in Delivering : req[r].new = req[s].new => r = s
                    /\ \A a \in answers, r \in Delivering : a.token # req[r].new
<1>5. Apart'
  <2>1. CASE Calm
    BY <1>1, <2>1, InvParts, CalmComing DEF Calm, SameTraffic
  <2>2. ASSUME NEW r \in Req, NEW t, Founds(r, t) \/ Replaces(r, t) PROVE Apart'
    <3>1. /\ Delivering' = Delivering \cup {r} /\ Coming' = Coming \cup {t}
          /\ \A s \in Delivering : req'[s] = req[s]
          /\ req'[r].new = t /\ answers' = answers /\ seen' = seen /\ t \notin Drawn
      BY <2>2, LeavesComing
    <3>2. /\ Coming' \cap seen' = {}
      BY <3>1, InvParts
    <3>3. \A s, u \in Delivering' : req'[s].new = req'[u].new => s = u
      BY <1>1, <1>3, <3>1
    <3>4. \A a \in answers', s \in Delivering' : a.token # req'[s].new
      BY <1>1, <3>1
    <3> QED BY <1>1, <3>1, <3>2, <3>3, <3>4
  <2>3. ASSUME NEW r \in Req, Sends(r) PROVE Apart'
    <3>1. /\ r \in Delivering /\ Delivering' = Delivering \ {r} /\ Coming' = Coming
          /\ \A s \in Delivering' : req'[s] = req[s]
          /\ seen' = seen /\ row' = row
      BY <2>3, SendsComing
    <3>2. PICK b : answers' = answers \cup {b} /\ b.token = req[r].new
      BY <2>3, SendsComing
    <3>3. \A a, c \in answers' : a.token = c.token => a = c
      BY <1>1, <3>1, <3>2
    <3>4. \A a \in answers', s \in Delivering' : a.token # req'[s].new
      BY <1>1, <3>1, <3>2
    <3> QED BY <1>1, <3>1, <3>3, <3>4, InvParts
  <2>4. ASSUME NEW a \in answers, SetSession(a) \/ Lose(a) PROVE Apart'
    <3>1. /\ Delivering' = Delivering /\ Coming = Coming' \cup {a.token}
          /\ req' = req /\ answers' = answers \ {a}
      BY <2>4, ArrivesComing
    <3>2. a.token \notin Coming'
      BY <1>1, <3>1 DEF Coming
    <3>3. seen' \subseteq seen \cup {a.token}
      BY <2>4 DEF SetSession, Lose
    <3>4. Coming' \cap seen' = {}
      BY <3>1, <3>2, <3>3, InvParts
    <3> QED BY <1>1, <3>1, <3>4
  <2>5. ASSUME NEW r \in Req, Drops(r) PROVE Apart'
    BY <1>1, <2>5, DropsComing, InvParts
  <2> QED BY <2>1, <2>2, <2>3, <2>4, <2>5, Kinds
<1> QED BY <1>2, <1>4, <1>5 DEF ComesOnce

\* What a commit replaces is of a family the cookie has seen.
LEMMA CommitSeen ==
  ASSUME Inv, NEW r \in Req, req[r].pc \in {"child", "select", "commit"}
  PROVE  /\ req[r].token \in seen /\ req[r].cur \in Drawn
         /\ row[req[r].cur].family = row[req[r].token].family
         /\ row[req[r].cur].family \in FamiliesOf(seen)
BY DEF Inv, ConsoleInv, Presented, FamiliesOf

LEMMA FirstComesStep ==
  ASSUME Inv, [ConsoleNext]_consoleVars
  PROVE  FirstComes'
<1>1. OneAtFirst /\ LoginsFirst /\ OthersCome
  BY DEF Inv, ConsoleInv, FirstComes
<1>2. /\ seen \subseteq Drawn /\ Coming \subseteq Drawn /\ Coming \cap seen = {}
      /\ \A a \in answers : a.token \in Coming
      /\ \A r \in Delivering : req[r].new \in Coming
  BY InvParts
<1>3. /\ Drawn \subseteq Drawn'
      /\ \A t \in Drawn : row'[t].family = row[t].family
      /\ seen \subseteq seen' /\ (fault = "missed" => fault' = "missed")
  BY Frame
<1>4. FamiliesOf(seen) \subseteq FamiliesOf(seen)'
  BY <1>2, <1>3 DEF FamiliesOf
<1>5. ASSUME seen' = seen PROVE FamiliesOf(seen)' = FamiliesOf(seen)
  BY <1>2, <1>3, <1>5 DEF FamiliesOf
<1>6. ASSUME Drawn' = Drawn PROVE OneAtFirst'
  BY <1>1, <1>3, <1>4, <1>6 DEF OneAtFirst
<1>7. CASE Calm /\ (SameTable \/ Revokes)
  <2>1. /\ Delivering' = Delivering /\ Coming' = Coming /\ answers' = answers /\ seen' = seen
        /\ \A r \in Delivering : req'[r] = req[r]
    BY <1>7, CalmComing DEF Calm, SameTraffic
  <2>2. Drawn' = Drawn
    BY <1>7 DEF SameTable, Revokes, Drawn
  <2>3. LoginsFirst'
    BY <1>1, <1>2, <1>3, <1>5, <2>1 DEF LoginsFirst
  <2>4. OthersCome'
    BY <1>1, <1>3, <1>5, <2>1, <2>2 DEF OthersCome
  <2> QED BY <1>6, <2>2, <2>3, <2>4 DEF FirstComes
<1>8. ASSUME NEW r \in Req, NEW t \in Token, Founds(r, t) PROVE FirstComes'
  <2>1. /\ Delivering' = Delivering \cup {r} /\ Coming' = Coming \cup {t}
        /\ \A s \in Delivering : req'[s] = req[s]
        /\ req'[r].new = t /\ answers' = answers /\ seen' = seen
        /\ Drawn' = Drawn \cup {t} /\ t \notin Drawn
    BY <1>8, LeavesComing
  <2>2. row'[t].family \notin FamiliesOf(Drawn)
    BY <1>8 DEF Founds
  <2>3. \A u \in Drawn : row'[u].family # row'[t].family
    BY <1>3, <2>2 DEF FamiliesOf
  <2>4. OneAtFirst'
    BY <1>1, <1>3, <1>4, <2>1, <2>3 DEF OneAtFirst
  <2>5. row'[t].family \notin FamiliesOf(seen)
    BY <1>2, <2>2 DEF FamiliesOf
  <2>6. LoginsFirst'
    BY <1>1, <1>2, <1>3, <1>5, <2>1, <2>5 DEF LoginsFirst
  <2>7. OthersCome'
    BY <1>1, <1>3, <1>5, <2>1 DEF OthersCome
  <2> QED BY <2>4, <2>6, <2>7 DEF FirstComes
<1>9. ASSUME NEW r \in Req, NEW t \in Token, Replaces(r, t) PROVE FirstComes'
  <2>1. /\ Delivering' = Delivering \cup {r} /\ Coming' = Coming \cup {t}
        /\ \A s \in Delivering : req'[s] = req[s]
        /\ req'[r].new = t /\ answers' = answers /\ seen' = seen
        /\ Drawn' = Drawn \cup {t} /\ t \notin Drawn
    BY <1>9, LeavesComing
  <2>2. row'[t].family \in FamiliesOf(seen) /\ req'[r].cur # None
    <3>1. req[r].pc = "commit" /\ row'[t].family = row[req[r].cur].family /\ req'[r].cur = req[r].cur
      BY <1>9 DEF Replaces
    <3>2. None \notin Drawn
      BY InvParts, StoreFacts
    <3> QED BY <3>1, <3>2, CommitSeen
  <2>4. OneAtFirst'
    BY <1>1, <1>3, <1>5, <2>1, <2>2 DEF OneAtFirst
  <2>6. LoginsFirst'
    BY <1>1, <1>2, <1>3, <1>5, <2>1, <2>2 DEF LoginsFirst
  <2>7. OthersCome'
    BY <1>1, <1>3, <1>5, <2>1 DEF OthersCome
  <2> QED BY <2>4, <2>6, <2>7 DEF FirstComes
<1>10. ASSUME NEW r \in Req, Sends(r) PROVE FirstComes'
  <2>1. /\ r \in Delivering /\ Delivering' = Delivering \ {r} /\ Coming' = Coming
        /\ \A s \in Delivering' : req'[s] = req[s]
        /\ seen' = seen /\ row' = row
    BY <1>10, SendsComing
  <2>2. PICK b : /\ answers' = answers \cup {b}
                 /\ b.token = req[r].new
                 /\ b.login <=> req[r].cur = None
    BY <1>10, SendsComing
  <2>3. Drawn' = Drawn
    BY <2>1 DEF Drawn
  <2>4. LoginsFirst'
    BY <1>1, <1>2, <1>5, <2>1, <2>2 DEF LoginsFirst
  <2>5. OthersCome'
    BY <1>1, <1>3, <1>5, <2>1, <2>3 DEF OthersCome
  <2> QED BY <1>6, <2>3, <2>4, <2>5 DEF FirstComes
<1>11. ASSUME NEW a \in answers, SetSession(a) PROVE FirstComes'
  <2>1. /\ Delivering' = Delivering /\ Coming = Coming' \cup {a.token}
        /\ req' = req /\ row' = row /\ answers' = answers \ {a}
        /\ seen' = seen \cup {a.token}
    BY <1>11, ArrivesComing DEF SetSession
  <2> DEFINE f == row[a.token].family
  <2>2. Drawn' = Drawn
    BY <2>1 DEF Drawn
  <2>3. FamiliesOf(seen)' = FamiliesOf(seen) \cup {f}
    BY <2>1 DEF FamiliesOf
  <2>4. a.token \in Drawn
    BY <1>2
  <2>5. ASSUME NEW t \in Coming, t # a.token, row[t].family \notin FamiliesOf(seen)
        PROVE  row[t].family # f
    BY <1>1, <1>2, <2>4, <2>5 DEF OneAtFirst
  <2>6. /\ \A b \in answers' : b.token # a.token
        /\ \A r \in Delivering : req[r].new # a.token
    BY <2>1 DEF Inv, ConsoleInv, ComesOnce
  <2>7. LoginsFirst'
    BY <1>1, <1>2, <2>1, <2>3, <2>5, <2>6 DEF LoginsFirst
  <2>8. OthersCome'
    <3> SUFFICES ASSUME fault # "missed", NEW t \in Drawn,
                        row[t].family \in FamiliesOf(seen) \cup {f}
                 PROVE  t \in seen \cup Coming
      BY <1>3, <2>1, <2>2, <2>3 DEF OthersCome
    <3>1. CASE row[t].family \in FamiliesOf(seen)
      BY <1>1, <3>1 DEF OthersCome
    <3>2. CASE row[t].family = f /\ f \notin FamiliesOf(seen)
      BY <1>1, <1>2, <2>4, <3>2 DEF OneAtFirst
    <3> QED BY <3>1, <3>2
  <2> QED BY <1>6, <2>2, <2>7, <2>8 DEF FirstComes
<1>12. ASSUME NEW a \in answers, Lose(a) PROVE FirstComes'
  <2>1. /\ Delivering' = Delivering /\ Coming = Coming' \cup {a.token}
        /\ req' = req /\ row' = row /\ answers' = answers \ {a}
        /\ seen' = seen /\ (~a.login => fault' = "missed")
    BY <1>12, ArrivesComing DEF Lose
  <2>2. Drawn' = Drawn
    BY <2>1 DEF Drawn
  <2>3. LoginsFirst'
    BY <1>1, <1>5, <2>1 DEF LoginsFirst
  <2>4. OthersCome'
    BY <1>1, <1>3, <1>5, <2>1, <2>2 DEF OthersCome, LoginsFirst
  <2> QED BY <1>6, <2>2, <2>3, <2>4 DEF FirstComes
<1>13. ASSUME NEW r \in Req, Drops(r) PROVE FirstComes'
  <2>1. /\ r \in Delivering /\ Delivering' = Delivering \ {r}
        /\ Coming = Coming' \cup {req[r].new}
        /\ \A s \in Delivering' : req'[s] = req[s]
        /\ answers' = answers /\ seen' = seen /\ row' = row
        /\ (req[r].cur # None => fault' = "missed")
    BY <1>13, DropsComing DEF Drops
  <2>2. Drawn' = Drawn
    BY <2>1 DEF Drawn
  <2>3. LoginsFirst'
    BY <1>1, <1>5, <2>1 DEF LoginsFirst
  <2>4. OthersCome'
    BY <1>1, <1>3, <1>5, <2>1, <2>2 DEF OthersCome, LoginsFirst
  <2> QED BY <1>6, <2>2, <2>3, <2>4 DEF FirstComes
<1> QED BY <1>7, <1>8, <1>9, <1>10, <1>11, <1>12, <1>13, Kinds

LEMMA OneChainStep ==
  ASSUME Inv, [ConsoleNext]_consoleVars
  PROVE  OneChain'
<1>1. OneChain /\ TypeOK /\ TableInv /\ removed = {}
  BY ConsoleStore DEF Inv, ConsoleInv
<1>2. /\ \A t \in Drawn : row[t].successor # None =>
           /\ row[t].revokedAt # None /\ row[t].successor # t
           /\ row[t].successor \in Drawn => row[row[t].successor].family = row[t].family
      /\ None \notin Drawn
  BY <1>1, StoreFacts
<1>3. seen \subseteq seen' /\ raced \subseteq raced' /\ seen \subseteq Drawn
  BY Frame, InvParts
<1> DEFINE Chained(t) == IF row[t].successor = None THEN LivesIn(t, {})
                         ELSE t \in seen \/ \E p \in seen : row[p].successor = t
<1>a. \A t \in Drawn : row[t].family \notin raced /\ row[t].revokedAt # None => Chained(t)
  BY <1>1 DEF OneChain
<1>b. ASSUME \A t \in Drawn' : row'[t].family \notin raced' /\ row'[t].revokedAt # None => Chained(t)'
      PROVE  OneChain'
  BY <1>b DEF OneChain
<1>4. CASE row' = row
  BY <1>a, <1>b, <1>3, <1>4 DEF LivesIn, Drawn
<1>5. CASE Revokes
  <2>1. /\ Drawn' = Drawn /\ raced' = raced
        /\ \A t \in Drawn : row'[t] # row[t] =>
             /\ row[t].revokedAt = None /\ row'[t].revokedAt # None
             /\ row'[t].family = row[t].family /\ row'[t].successor = row[t].successor
             /\ \/ row[t].family \in raced
                \/ \A u \in Drawn : row[u].family = row[t].family => row'[u].revokedAt # None
    BY <1>5 DEF Revokes
  <2>2. \A t \in Drawn : /\ row'[t].family = row[t].family /\ row'[t].successor = row[t].successor
                         /\ row'[t].revokedAt = None => row[t].revokedAt = None
    BY <2>1
  <2>3. ASSUME NEW t \in Drawn, row'[t].family \notin raced', row'[t].revokedAt # None
        PROVE  Chained(t)'
    <3>1. CASE row'[t] # row[t]
      <4>1. row[t].successor = None /\ \A u \in Drawn : row[u].family = row[t].family => row'[u].revokedAt # None
        BY <1>2, <2>1, <2>2, <2>3, <3>1
      <4> QED BY <2>1, <2>2, <4>1 DEF LivesIn
    <3>2. CASE row'[t] = row[t]
      <4>1. Chained(t)
        BY <1>a, <2>1, <2>3, <3>2
      <4>2. LivesIn(t, {}) => LivesIn(t, {})'
        BY <2>1, <2>2 DEF LivesIn
      <4>3. \A p \in seen : p \in seen' /\ row'[p].successor = row[p].successor
        BY <1>3, <2>2
      <4> HIDE DEF LivesIn
      <4> QED BY <1>3, <3>2, <4>1, <4>2, <4>3
    <3> QED BY <3>1, <3>2
  <2> QED BY <1>b, <2>1, <2>3
<1>6. ASSUME NEW r \in Req, NEW t \in Token, Founds(r, t) PROVE OneChain'
  <2>1. /\ Drawn' = Drawn \cup {t} /\ t \notin Drawn /\ raced' = raced
        /\ \A u \in Drawn : row'[u] = row[u]
        /\ row'[t].family \notin FamiliesOf(Drawn) /\ row'[t].revokedAt = None
    BY <1>6 DEF Founds
  <2>2. \A u \in Drawn : row[u].family # row'[t].family
    BY <2>1 DEF FamiliesOf
  <2>3. ASSUME NEW u \in Drawn', row'[u].family \notin raced', row'[u].revokedAt # None
        PROVE  Chained(u)'
    <3>1. u \in Drawn /\ row'[u] = row[u]
      BY <2>1, <2>3
    <3>2. Chained(u)
      BY <1>a, <2>1, <2>3, <3>1
    <3>3. LivesIn(u, {}) => LivesIn(u, {})'
      BY <2>1, <2>2, <3>1 DEF LivesIn
    <3>4. \A p \in seen : p \in seen' /\ row'[p].successor = row[p].successor
      BY <1>3, <2>1
    <3> QED BY <1>3, <3>1, <3>2, <3>3, <3>4
  <2> QED BY <1>b, <2>3
<1>7. ASSUME NEW r \in Req, NEW t \in Token, Replaces(r, t) PROVE OneChain'
  <2> DEFINE c == req[r].cur
  <2>1. /\ req[r].pc = "commit" /\ c \in Drawn /\ t \notin Drawn /\ Drawn' = Drawn \cup {t}
        /\ \A u \in Drawn \ {c} : row'[u] = row[u]
        /\ row'[c].successor = t /\ row'[c].family = row[c].family
        /\ row'[t].family = row[c].family
        /\ row'[t].revokedAt = None /\ row'[t].successor = None
        /\ raced' = IF row[c].revokedAt = None THEN raced ELSE raced \cup {row[c].family}
        /\ t # None
    BY <1>7, NoneAssumption DEF Replaces
  <2>2. ASSUME row[c].family \notin raced'
        PROVE  /\ row[c].revokedAt = None
               /\ c \in seen \/ \E p \in seen \ {c} : row'[p].successor = c
    <3>1. row[c].revokedAt = None /\ row[c].family \notin raced
      BY <2>1, <2>2
    <3>2. /\ req[r].token \in seen /\ row[c].family = row[req[r].token].family
          /\ c \in {req[r].token, row[req[r].token].successor}
      BY <2>1, <3>1 DEF Inv, ConsoleInv, Presented
    <3>3. CASE c = req[r].token
      BY <3>1, <3>2, <3>3
    <3>4. CASE c = row[req[r].token].successor
      <4>1. req[r].token # c
        BY <1>2, <1>3, <2>1, <3>2, <3>4
      <4> QED BY <1>3, <2>1, <3>1, <3>2, <3>4, <4>1
    <3> QED BY <3>2, <3>3, <3>4
  <2>3. ASSUME NEW u \in Drawn', row'[u].family \notin raced', row'[u].revokedAt # None
        PROVE  Chained(u)'
    <3>1. CASE u = c
      <4>1. row'[u].successor # None /\ row[c].family \notin raced'
        BY <2>1, <2>3, <3>1
      <4> QED BY <1>3, <2>2, <3>1, <4>1
    <3>2. CASE u # c
      <4>1. u \in Drawn /\ row'[u] = row[u] /\ row[u].family \notin raced
        BY <1>3, <2>1, <2>3, <3>2
      <4>2. Chained(u)
        BY <1>a, <2>3, <4>1
      <4>3. CASE row[u].successor = None
        <5>1. row[u].family # row[c].family
          <6> SUFFICES ASSUME row[u].family = row[c].family PROVE FALSE
            OBVIOUS
          <6>1. row[c].revokedAt = None
            BY <2>2, <2>3, <4>1
          <6> QED BY <2>1, <4>2, <4>3, <6>1 DEF LivesIn
        <5>2. LivesIn(u, {})'
          BY <2>1, <4>1, <4>2, <4>3, <5>1 DEF LivesIn
        <5> QED BY <4>1, <4>3, <5>2
      <4>4. CASE row[u].successor # None
        <5>2. ASSUME NEW p \in seen, row[p].successor = u
              PROVE  row'[p].successor = u
          <6>1. p # c
            <7> SUFFICES ASSUME p = c PROVE FALSE
              OBVIOUS
            <7>1. row[c].successor = u /\ u # None
              BY <1>2, <4>1, <5>2
            <7>2. row[c].revokedAt # None /\ row[u].family = row[c].family
              BY <1>2, <2>1, <4>1, <7>1
            <7> QED BY <2>2, <2>3, <4>1, <7>2
          <6> QED BY <1>3, <2>1, <5>2, <6>1
        <5> QED BY <1>3, <4>1, <4>2, <4>4, <5>2
      <4> QED BY <4>3, <4>4
    <3> QED BY <3>1, <3>2
  <2> QED BY <1>b, <2>3
<1>8. CASE row' # row
  BY <1>5, <1>6, <1>7, <1>8, Kinds, SendsComing, ArrivesComing, DropsComing DEF SameTable
<1> QED BY <1>4, <1>8

\* Only an answer puts something into the cookie.
LEMMA SessionKept ==
  ASSUME [ConsoleNext]_consoleVars
  PROVE  session' \in {session, None} \/ \E a \in answers : SetSession(a)
BY DEF ConsoleNext, consoleVars, browser, StartLogin, Callback, Visit, Refresh, Serve, SendAnswer,
       Lose, BreakOff, LogOut, Revoke, ClearSession, Wait

\* Nothing takes a family's live token away from the cookie unless it is missed.
LEMMA CookieFollowsStep ==
  ASSUME Inv, [ConsoleNext]_consoleVars
  PROVE  CookieFollows'
<1> SUFFICES ASSUME fault' # "missed", session' # None
             PROVE  /\ \/ row'[session'.token].family \in raced'
                       \/ LivesIn(session.token, Coming \cup {session.token})'
                    /\ row'[session'.token].successor \notin seen'
  BY DEF CookieFollows
<1>1. /\ TypeOK /\ TableInv /\ removed = {} /\ fault # "missed"
      /\ seen \subseteq Drawn /\ Coming \subseteq Drawn /\ Coming \cap seen = {}
      /\ \A a \in answers : a.token \in Coming
      /\ session # None => session.token \in seen
      /\ OneChain /\ CookieFollows /\ FirstComes /\ ComesOnce
  BY Frame, InvParts DEF Inv, ConsoleInv
<1>2. /\ Drawn \subseteq Drawn' /\ raced \subseteq raced'
      /\ \A t \in Drawn : row'[t].family = row[t].family
  BY Frame
<1>3. /\ None \notin Drawn
      /\ \A t \in Drawn : row[t].successor # None =>
           /\ row[t].revokedAt # None
           /\ row[t].successor \in Drawn /\ row[t].successor # t
           /\ row[row[t].successor].family = row[t].family
           /\ \A u \in Drawn : row[u].successor = row[t].successor => u = t
      /\ \A t, u \in Drawn :
           row[t].revokedAt = None /\ row[u].revokedAt = None /\ row[t].family = row[u].family
             => t = u \/ row[t].family \in raced
  BY <1>1, StoreFacts
<1>4. ASSUME NEW a \in answers, SetSession(a)
      PROVE  /\ \/ row'[session'.token].family \in raced'
                \/ LivesIn(session.token, Coming \cup {session.token})'
             /\ row'[session'.token].successor \notin seen'
  <2> DEFINE u == a.token
  <2>1. /\ Coming = Coming' \cup {u} /\ row' = row /\ raced' = raced
        /\ seen' = seen \cup {u} /\ session'.token = u
        /\ row[u].successor \notin seen
    BY <1>4, ArrivesComing DEF SetSession, vars
  <2>2. u \in Drawn /\ u \notin seen
    BY <1>1
  <2>3. row[u].successor \notin seen'
    BY <1>3, <2>1, <2>2
  <2>4. ASSUME NEW t \in Drawn, row[t].family = row[u].family, row[t].revokedAt = None,
               row[u].family \notin raced, t # u
        PROVE  t \in Coming
    <3> SUFFICES ASSUME t \notin Coming PROVE FALSE
      OBVIOUS
    <3>1. t \in seen
      <4>1. row[t].family \in FamiliesOf(seen)
        BY <1>1, <2>2, <2>4 DEF FirstComes, OneAtFirst
      <4> QED BY <1>1, <4>1 DEF FirstComes, OthersCome
    <3> DEFINE v == row[u].successor
    <3>2. row[u].revokedAt # None
      BY <1>3, <2>2, <2>4
    <3>3. v # None
      BY <1>1, <2>2, <2>4, <3>2 DEF OneChain, LivesIn
    <3>4. v \in Drawn /\ row[v].family = row[u].family /\ v \notin seen /\ v # t
      BY <1>3, <2>1, <2>2, <3>1, <3>3
    <3>5. row[v].revokedAt # None
      BY <1>3, <2>4, <3>4
    <3>6. row[v].successor # None
      BY <1>1, <2>4, <3>4, <3>5 DEF OneChain, LivesIn
    <3>7. PICK p \in seen : row[p].successor = v
      BY <1>1, <2>4, <3>4, <3>5, <3>6 DEF OneChain
    <3>8. p = u
      BY <1>1, <1>3, <2>2, <3>3, <3>7
    <3> QED BY <2>2, <3>7, <3>8
  <2>6. Drawn' = Drawn
    BY <2>1 DEF Drawn
  <2>7. row[u].family \in raced \/ LivesIn(session.token, Coming \cup {session.token})'
    BY <2>1, <2>4, <2>6 DEF LivesIn
  <2> QED BY <2>1, <2>3, <2>7
<1>5. CASE session' = session /\ ~\E a \in answers : SetSession(a)
  <2> DEFINE c == session.token
  <2>1. /\ c \in seen /\ c \in Drawn /\ row'[c].family = row[c].family
        /\ row[c].family \in raced \/ LivesIn(c, Coming \cup {c})
        /\ row[c].successor \notin seen /\ row[c].family \in FamiliesOf(seen)
    BY <1>1, <1>2, <1>5 DEF CookieFollows, FamiliesOf
  <2>2. ASSUME seen' = seen, row'[c].successor = row[c].successor \/ row'[c].successor \notin Drawn,
               \A t \in Drawn' : row'[t].revokedAt = None /\ row'[t].family = row[c].family =>
                  t \in Coming' \/ (t \in Drawn /\ row[t].revokedAt = None),
               \A t \in Coming : row[t].family = row[c].family => t \in Coming'
        PROVE  /\ \/ row'[session'.token].family \in raced'
                  \/ LivesIn(session.token, Coming \cup {session.token})'
               /\ row'[session'.token].successor \notin seen'
    <3>1. row'[c].successor \notin seen'
      BY <1>1, <2>1, <2>2
    <3>2. row[c].family \in raced' \/ LivesIn(session.token, Coming \cup {session.token})'
      BY <1>2, <1>5, <2>1, <2>2 DEF LivesIn
    <3> QED BY <1>5, <2>1, <3>1, <3>2
  <2>3. CASE Calm /\ (SameTable \/ Revokes)
    <3>1. Coming' = Coming /\ seen' = seen
      BY <2>3, CalmComing DEF Calm, SameTraffic
    <3>2. row'[c].successor = row[c].successor /\ Drawn' = Drawn
          /\ \A t \in Drawn : row'[t].revokedAt = None => row[t].revokedAt = None
      BY <2>1, <2>3 DEF SameTable, Revokes, Drawn
    <3> QED BY <2>2, <3>1, <3>2
  <2>4. ASSUME NEW r \in Req, NEW t \in Token, Founds(r, t) \/ Replaces(r, t)
        PROVE  /\ \/ row'[session'.token].family \in raced'
                  \/ LivesIn(session.token, Coming \cup {session.token})'
               /\ row'[session'.token].successor \notin seen'
    <3>1. Coming' = Coming \cup {t} /\ seen' = seen /\ Drawn' = Drawn \cup {t} /\ t \notin Drawn
      BY <2>4, LeavesComing
    <3>2. \A u \in Drawn : row'[u].revokedAt = None => row[u].revokedAt = None
      <4>1. CASE Founds(r, t)
        BY <4>1 DEF Founds
      <4>2. CASE Replaces(r, t)
        <5>1. row'[req[r].cur].revokedAt \in Nat
          BY <1>1, <4>2 DEF Replaces, TypeOK, Request
        <5> QED BY <4>2, <5>1, NoneAssumption DEF Replaces
      <4> QED BY <2>4, <4>1, <4>2
    <3>3. row'[c].successor = row[c].successor \/ row'[c].successor = t
      <4>1. CASE Founds(r, t)
        BY <2>1, <4>1 DEF Founds
      <4>2. CASE Replaces(r, t)
        BY <2>1, <4>2 DEF Replaces
      <4> QED BY <2>4, <4>1, <4>2
    <3>4. row'[c].successor = row[c].successor \/ row'[c].successor \notin Drawn
      BY <3>1, <3>3
    <3>5. \A u \in Drawn' : row'[u].revokedAt = None /\ row'[u].family = row[c].family =>
                  u \in Coming' \/ (u \in Drawn /\ row[u].revokedAt = None)
      BY <3>1, <3>2
    <3>6. \A u \in Coming : row[u].family = row[c].family => u \in Coming'
      BY <3>1
    <3> QED BY <2>2, <3>1, <3>4, <3>5, <3>6
  <2>5. ASSUME NEW r \in Req, Sends(r)
        PROVE  /\ \/ row'[session'.token].family \in raced'
                  \/ LivesIn(session.token, Coming \cup {session.token})'
               /\ row'[session'.token].successor \notin seen'
    <3>1. Coming' = Coming /\ seen' = seen /\ row' = row
      BY <2>5, SendsComing
    <3>2. Drawn' = Drawn
      BY <3>1 DEF Drawn
    <3> QED BY <2>2, <3>1, <3>2
  <2>6. ASSUME NEW a \in answers, Lose(a)
        PROVE  /\ \/ row'[session'.token].family \in raced'
                  \/ LivesIn(session.token, Coming \cup {session.token})'
               /\ row'[session'.token].successor \notin seen'
    <3>1. Coming = Coming' \cup {a.token} /\ row' = row /\ seen' = seen
      BY <2>6, ArrivesComing DEF Lose
    <3>2. row[a.token].family # row[c].family
      BY <1>1, <2>1, <2>6 DEF Lose, FirstComes, LoginsFirst
    <3>3. Drawn' = Drawn
      BY <3>1 DEF Drawn
    <3> QED BY <2>2, <3>1, <3>2, <3>3
  <2>7. ASSUME NEW r \in Req, Drops(r)
        PROVE  /\ \/ row'[session'.token].family \in raced'
                  \/ LivesIn(session.token, Coming \cup {session.token})'
               /\ row'[session'.token].successor \notin seen'
    <3>1. /\ r \in Delivering /\ Coming = Coming' \cup {req[r].new} /\ row' = row /\ seen' = seen
      BY <2>7, DropsComing
    <3>2. row[req[r].new].family # row[c].family
      BY <1>1, <2>1, <2>7, <3>1 DEF Drops, FirstComes, LoginsFirst
    <3>3. Drawn' = Drawn
      BY <3>1 DEF Drawn
    <3> QED BY <2>2, <3>1, <3>2, <3>3
  <2> QED BY <1>5, <2>3, <2>4, <2>5, <2>6, <2>7, Kinds
<1> QED BY <1>4, <1>5, SessionKept

-----------------------------------------------------------------------------
(* What a request does. *)

Untouched(r) == req'[r] = req[r] /\ visit'[r] \in {visit[r], None}
Over(r) == req'[r] = Idle /\ visit'[r] \in {visit[r], None}
Reads(r) == Lookup(r) \/ FindChild(r) \/ TxSelect(r)

\* A step leaves a request alone, ends it, or is its own.
LEMMA Actors ==
  ASSUME Inv, [ConsoleNext]_consoleVars, NEW r \in Req
  PROVE  \/ Untouched(r) \/ Over(r)
         \/ \E t \in Token : Founds(r, t) /\ visit' = visit
         \/ Visit(r) \/ Refresh(r)
         \/ Serve(r) /\ Reads(r)
         \/ \E t \in Token : Replaces(r, t) /\ visit' = visit
<1> DEFINE Acts ==
         \/ Untouched(r) \/ Over(r)
         \/ \E t \in Token : Founds(r, t) /\ visit' = visit
         \/ Visit(r) \/ Refresh(r)
         \/ Serve(r) /\ Reads(r)
         \/ \E t \in Token : Replaces(r, t) /\ visit' = visit
<1>a. /\ TypeOK /\ RequestsRefer /\ TableInv /\ removed = {}
      /\ visit \in [Req -> Sent \cup {None}] /\ req \in [Req -> Request]
  BY ConsoleStore DEF Inv, ConsoleInv, ConsoleTypeOK, TypeOK
<1>1. ASSUME NEW s \in Req, NEW k \in Key, Callback(s, k) PROVE Acts
  <2>1. CASE UNCHANGED vars
    BY <1>1, <2>1 DEF Callback, vars, Untouched
  <2>2. CASE ~UNCHANGED vars
    <3>1. Create(s) /\ visit' = visit
      BY <1>1, <2>2 DEF Callback
    <3>2. ~SameTable
      <4>1. PICK t \in Token \ Drawn : \E columns : InsertRow(t, columns)
        BY <3>1 DEF Create
      <4>2. t \in DOMAIN row' /\ t \notin DOMAIN row
        BY <4>1 DEF InsertRow, Drawn
      <4> QED BY <4>2 DEF SameTable
    <3>3. PICK t : Founds(s, t)
      BY <1>a, <1>1, <3>2, CallbackKind
    <3>4. CASE s = r
      BY <3>1, <3>3, <3>4 DEF Founds
    <3>5. CASE s # r
      BY <3>1, <3>3, <3>5 DEF Founds, OnlyOf, Untouched
    <3> QED BY <3>4, <3>5
  <2> QED BY <2>1, <2>2
<1>2. ASSUME NEW s \in Req, Visit(s) \/ Refresh(s) PROVE Acts
  <2>1. CASE s = r
    BY <1>2, <2>1
  <2>2. CASE s # r
    BY <1>a, <1>2, <2>2 DEF Visit, Refresh, Begin, Untouched, vars
  <2> QED BY <2>1, <2>2
<1>3. ASSUME NEW s \in Req, Serve(s), Reads(s) PROVE Acts
  <2>1. CASE s = r
    BY <1>3, <2>1
  <2>2. CASE s # r
    <3>1. OnlyOf(s)
      <4>1. \A pc : Finish(s) \/ Goto(s, pc) => OnlyOf(s)
        BY <1>a, Moves
      <4>2. \A t : Rotating(s, t) \/ Following(s, t) => OnlyOf(s)
        BY <1>a, Moves
      <4>3. CASE Lookup(s)
        BY <4>1, <4>2, <4>3 DEF Lookup
      <4>4. CASE FindChild(s)
        BY <4>1, <4>2, <4>4 DEF FindChild
      <4>5. CASE TxSelect(s)
        BY <4>1, <4>2, <4>5 DEF TxSelect
      <4> QED BY <1>3, <4>3, <4>4, <4>5 DEF Reads
    <3>2. visit' = visit
      BY <1>3 DEF Serve, browser
    <3> QED BY <2>2, <3>1, <3>2 DEF OnlyOf, Untouched
  <2> QED BY <2>1, <2>2
<1>4. ASSUME NEW s \in Req, Serve(s), TxCommit(s) PROVE Acts
  <2>0. visit' = visit
    BY <1>4 DEF Serve, browser
  <2>1. CASE Finish(s)
    BY <1>a, <2>0, <2>1, Moves DEF Untouched, Over, OnlyOf
  <2>2. CASE ~Finish(s)
    <3>1. ~SameTable
      <4>1. PICK t \in Token \ Drawn, began \in req[s].now..clock : Replace(req[s].cur, t, req[s].now, began)
        BY <1>4, <2>2 DEF TxCommit
      <4>2. t \in DOMAIN row' /\ t \notin DOMAIN row
        BY <4>1 DEF Replace, Drawn
      <4> QED BY <4>2 DEF SameTable
    <3>2. PICK t : Replaces(s, t)
      BY <1>a, <1>4, <3>1, CommitKind
    <3>3. CASE s = r
      BY <2>0, <3>2, <3>3 DEF Replaces
    <3>4. CASE s # r
      BY <2>0, <3>2, <3>4 DEF Replaces, OnlyOf, Untouched
    <3> QED BY <3>3, <3>4
  <2> QED BY <2>1, <2>2
<1>5. ASSUME NEW s \in Req, \/ Serve(s) /\ RevokeFamily(s)
                            \/ SendAnswer(s)
      PROVE  Acts
  <2>1. Finish(s) /\ visit' = visit
    BY <1>5 DEF Serve, RevokeFamily, SendAnswer, Deliver, browser
  <2> QED BY <1>a, <2>1, Moves DEF Untouched, Over, OnlyOf
<1>6. ASSUME NEW s \in Req, BreakOff(s) PROVE Acts
  <2>1. CASE UNCHANGED vars /\ visit' = [visit EXCEPT ![s] = None]
    BY <1>a, <2>1 DEF vars, Untouched
  <2>2. CASE Abort(s) /\ UNCHANGED visit
    BY <1>a, <2>2, Moves DEF Abort, Untouched, Over, OnlyOf
  <2> QED BY <1>6, <2>1, <2>2 DEF BreakOff
<1>7. CASE \/ \E k \in Key : StartLogin(k)
           \/ \E a \in answers : SetSession(a) \/ Lose(a)
           \/ LogOut \/ Revoke \/ ClearSession \/ Wait \/ UNCHANGED consoleVars
  BY <1>7 DEF StartLogin, SetSession, Lose, LogOut, Revoke, RevokeToken, ClearSession, Wait, Tick,
              consoleVars, vars, browser, Untouched
<1> QED BY <1>1, <1>2, <1>3, <1>4, <1>5, <1>6, <1>7 DEF ConsoleNext, Serve, Reads

\* A replaced token keeps its successor outside races.
LEMMA SuccessorKept ==
  ASSUME Inv, [ConsoleNext]_consoleVars, NEW t \in Drawn, row[t].successor # None
  PROVE  row'[t] = row[t] \/ row[t].family \in raced'
<1>1. row[t].revokedAt # None
  BY InvParts, StoreFacts
<1>2. CASE Calm /\ (SameTable \/ Revokes)
  BY <1>1, <1>2 DEF SameTable, Revokes
<1>3. ASSUME NEW r \in Req, NEW u \in Token, Founds(r, u) \/ Replaces(r, u)
      PROVE  row'[t] = row[t] \/ row[t].family \in raced'
  BY <1>1, <1>3 DEF Founds, Replaces
<1> QED BY <1>2, <1>3, Kinds, SendsComing, ArrivesComing, DropsComing

LEMMA PresentedStep ==
  ASSUME Inv, [ConsoleNext]_consoleVars, NEW r \in Req
  PROVE  Presented(r)'
<1>1. /\ TypeOK /\ TableInv /\ removed = {} /\ seen \subseteq Drawn
      /\ visit \in [Req -> Sent \cup {None}]
      /\ session # None => session.token \in seen
      /\ Presented(r)
  BY InvParts DEF Inv, ConsoleInv, ConsoleTypeOK
<1>2. /\ Drawn \subseteq Drawn' /\ seen \subseteq seen' /\ raced \subseteq raced'
      /\ \A t \in Drawn : row'[t].family = row[t].family
      /\ clock <= clock' /\ clock \in Nat /\ clock' \in Nat
  BY Frame
<1>3. None \notin Drawn /\ \A t \in Drawn : row[t].successor # None =>
           row[t].successor \in Drawn /\ row[row[t].successor].family = row[t].family
  BY <1>1, StoreFacts
<1>4. req[r].now \in Nat /\ (visit[r] # None => visit[r].at \in Nat)
  BY <1>1 DEF TypeOK, Request, Sent
<1>5. ASSUME visit'[r] \in {visit[r], None}
      PROVE  visit'[r] # None => visit'[r].token \in seen' /\ visit'[r].at <= clock'
  BY <1>1, <1>2, <1>4, <1>5 DEF Presented
<1>6. ASSUME NEW t \in seen, NEW c \in Drawn, row[c].family = row[t].family,
             c \in {t, row[t].successor} \/ row[t].family \in raced
      PROVE  /\ c \in Drawn' /\ row'[c].family = row'[t].family
             /\ c \in {t, row'[t].successor} \/ row'[t].family \in raced'
  BY <1>1, <1>2, <1>3, <1>6, SuccessorKept
<1>7. CASE Untouched(r)
  <2>1. req'[r] = req[r] /\ visit'[r] \in {visit[r], None}
    BY <1>7 DEF Untouched
  <2>2. req[r].pc \in {"child", "select", "commit"} =>
          /\ req[r].cur \in Drawn' /\ row'[req[r].cur].family = row'[req[r].token].family
          /\ req[r].cur \in {req[r].token, row'[req[r].token].successor}
             \/ row'[req[r].token].family \in raced'
    BY <1>1, <1>6 DEF Presented
  <2> QED BY <1>1, <1>2, <1>4, <1>5, <2>1, <2>2 DEF Presented
<1>8. CASE Over(r)
  <2>1. /\ req'[r].pc = "idle" /\ req'[r].now = 0 /\ visit'[r] \in {visit[r], None}
    BY <1>8 DEF Over, Idle
  <2> QED BY <1>2, <1>5, <2>1 DEF Presented
<1>9. ASSUME NEW t \in Token, Founds(r, t), visit' = visit PROVE Presented(r)'
  BY <1>2, <1>5, <1>9 DEF Founds, Presented
<1>10. CASE Visit(r)
  <2>1. /\ visit'[r].token = session.token /\ visit'[r].at = clock
        /\ clock' = clock /\ req'[r] = req[r] /\ req[r].pc = "idle" /\ session # None
        /\ seen' = seen
    BY <1>1, <1>10 DEF Visit, vars, past
  <2> QED BY <1>1, <1>2, <2>1 DEF Presented
<1>11. CASE Refresh(r)
  <2>1. /\ visit'[r] = None /\ req'[r].token = visit[r].token
        /\ req'[r].pc = "lookup" /\ req'[r].now = clock
        /\ visit[r] # None
    BY <1>1, <1>11 DEF Refresh, Begin, TypeOK
  <2> QED BY <1>1, <1>2, <2>1 DEF Presented
<1>12. CASE Serve(r) /\ Reads(r)
  <2> DEFINE q == req'[r]
  <2>1. visit' = visit /\ clock' = clock /\ row' = row /\ seen' = seen /\ raced' = raced
    BY <1>12 DEF Serve, Reads, Lookup, FindChild, TxSelect, browser, past
  <2>2. Drawn' = Drawn
    BY <2>1 DEF Drawn
  <2>3. CASE Finish(r)
    <3>1. q = Idle
      BY <1>1, <2>3, Moves
    <3> QED BY <1>8, <2>1, <3>1 DEF Over
  <2>4. ASSUME q.token = req[r].token, q.now = req[r].now, req[r].token \in seen,
               q.pc \in {"child", "select", "commit", "reuse"},
               q.pc # "reuse" =>
                 /\ q.cur \in Drawn /\ row[q.cur].family = row[q.token].family
                 /\ q.cur \in {q.token, row[q.token].successor} \/ row[q.token].family \in raced
        PROVE  Presented(r)'
    BY <1>1, <1>5, <2>1, <2>2, <2>4 DEF Presented
  <2>5. CASE Lookup(r)
    <3> DEFINE t == req[r].token
    <3>1. t \in seen
      BY <1>1, <2>5 DEF Lookup, Presented
    <3>2. CASE Goto(r, "reuse")
      <4>1. q.pc = "reuse" /\ q.token = t /\ q.now = req[r].now
        BY <1>1, <3>2, Moves
      <4> QED BY <2>4, <3>1, <4>1
    <3>3. CASE row[t].successor # None /\ Following(r, row[t].successor)
      <4>1. q.pc = "child" /\ q.token = t /\ q.now = req[r].now /\ q.cur = row[t].successor
        BY <1>1, <3>3, Moves
      <4> QED BY <1>1, <1>3, <2>4, <3>1, <3>3, <4>1
    <3>4. CASE Rotating(r, t)
      <4>1. q.pc = "select" /\ q.token = t /\ q.now = req[r].now /\ q.cur = t
        BY <1>1, <3>4, Moves
      <4> QED BY <1>1, <2>4, <3>1, <4>1
    <3> QED BY <2>3, <2>5, <3>2, <3>3, <3>4 DEF Lookup
  <2>6. CASE FindChild(r) \/ TxSelect(r)
    <3>1. CASE Finish(r)
      BY <2>3, <3>1
    <3>2. CASE ~Finish(r)
      <4>1. \/ q.pc = "select" \/ q.pc = "commit"
        <5>1. CASE FindChild(r)
          BY <1>1, <3>2, <5>1, Moves DEF FindChild
        <5>2. CASE TxSelect(r)
          BY <1>1, <3>2, <5>2, Moves DEF TxSelect
        <5> QED BY <2>6, <5>1, <5>2
      <4>2. q.token = req[r].token /\ q.now = req[r].now /\ q.cur = req[r].cur
        <5>1. CASE FindChild(r)
          BY <1>1, <3>2, <5>1, Moves DEF FindChild
        <5>2. CASE TxSelect(r)
          BY <1>1, <3>2, <5>2, Moves DEF TxSelect
        <5> QED BY <2>6, <5>1, <5>2
      <4>3. req[r].pc \in {"child", "select"}
        BY <2>6 DEF FindChild, TxSelect
      <4>4. /\ req[r].token \in seen
            /\ req[r].cur \in Drawn /\ row[req[r].cur].family = row[req[r].token].family
            /\ req[r].cur \in {req[r].token, row[req[r].token].successor}
               \/ row[req[r].token].family \in raced
        BY <1>1, <4>3, CommitSeen DEF Presented
      <4> QED BY <2>4, <4>1, <4>2, <4>4
    <3> QED BY <3>1, <3>2
  <2> QED BY <1>12, <2>5, <2>6 DEF Reads
<1>13. ASSUME NEW t \in Token, Replaces(r, t), visit' = visit PROVE Presented(r)'
  <2>1. /\ req'[r].pc = "deliver" /\ req'[r].cur = req[r].cur /\ req'[r].token = req[r].token
        /\ req'[r].now = req[r].now /\ req[r].pc = "commit" /\ seen' = seen
    BY <1>13 DEF Replaces, SameTraffic
  <2>2. req[r].token \in seen /\ req[r].cur # None
    BY <1>1, <1>3, <2>1, CommitSeen
  <2> QED BY <1>1, <1>2, <1>4, <1>5, <1>13, <2>1, <2>2 DEF Presented
<1> QED BY <1>7, <1>8, <1>9, <1>10, <1>11, <1>12, <1>13, Actors

-----------------------------------------------------------------------------
(* Logout *)

LEMMA EndedTyped ==
  ASSUME Inv
  PROVE  /\ Ended \subseteq FamiliesOf(Drawn) /\ (leaving # None => leaving \in Drawn)
         /\ revoking \in BOOLEAN /\ (revoking => leaving # None)
BY DEF Inv, ConsoleInv, ConsoleTypeOK, Ended, FamiliesOf

\* A logout ends its family when it has had the token revoked.
LEMMA EndedGrows ==
  ASSUME Inv, [ConsoleNext]_consoleVars
  PROVE  /\ Revoke => Ended' = Ended \cup {row[leaving].family} /\ leaving \in Drawn
         /\ ~Revoke => Ended' = Ended
<1>1. /\ \A t \in Drawn : row'[t].family = row[t].family
      /\ leaving # None => leaving \in Drawn
      /\ revoking \in BOOLEAN /\ (revoking => leaving # None)
      /\ seen \subseteq Drawn /\ (session # None => session.token \in seen)
      /\ None \notin Drawn
  BY Frame, EndedTyped, InvParts, StoreFacts
<1>2. ASSUME Revoke PROVE Ended' = Ended \cup {row[leaving].family} /\ leaving \in Drawn
  <2>1. revoking /\ ~revoking' /\ leaving' = leaving /\ leaving \in Drawn /\ ended' = ended
    BY <1>1, <1>2 DEF Revoke
  <2>2. Ended = ended
    BY <2>1 DEF Ended, FamiliesOf
  <2>3. Ended' = ended \cup {row'[leaving].family}
    BY <1>1, <2>1 DEF Ended, FamiliesOf
  <2> QED BY <1>1, <2>1, <2>2, <2>3
<1>3. CASE ClearSession
  <2>1. /\ leaving # None /\ leaving' = None /\ ended' = ended \cup {row[leaving].family}
        /\ leaving \in Drawn /\ ~revoking /\ ~revoking'
    BY <1>1, <1>3 DEF ClearSession
  <2>2. Ended' = ended \cup {row[leaving].family}
    BY <2>1 DEF Ended, FamiliesOf
  <2>3. Ended = ended \cup {row[leaving].family}
    BY <2>1 DEF Ended, FamiliesOf
  <2> QED BY <2>1, <2>2, <2>3 DEF Revoke
<1>4. CASE LogOut
  <2>1. leaving = None /\ ~revoking /\ revoking' /\ ended' = ended
    BY <1>1, <1>4 DEF LogOut
  <2> QED BY <2>1 DEF Ended, FamiliesOf, Revoke
<1>5. ASSUME ~ClearSession, ~LogOut, ~Revoke PROVE Ended' = Ended
  <2>1. ended' = ended /\ leaving' = leaving /\ revoking' = revoking
    BY <1>5 DEF ConsoleNext, consoleVars, browser, past, StartLogin, Callback, Visit, Refresh, Serve, SendAnswer,
       SetSession, Lose, BreakOff, Wait
  <2>2. {row'[t].family : t \in {leaving} \ {None}} = {row[t].family : t \in {leaving} \ {None}}
    BY <1>1
  <2> QED BY <2>1, <2>2 DEF Ended, FamiliesOf
<1> QED BY <1>2, <1>3, <1>4, <1>5

\* What is under way was so before, is the token of a visit, or has just been drawn.
LEMMA GoingStep ==
  ASSUME Inv, [ConsoleNext]_consoleVars
  PROVE  /\ \A t \in Going' : \/ t \in Going \cup {None}
                              \/ \E r \in Req : Visit(r) /\ t = session.token
                              \/ \E r \in Req : Founds(r, t) \/ Replaces(r, t)
         /\ (Going \subseteq Drawn \cup {None})'
<1> DEFINE Known(t) == \/ t \in Going \cup {None}
                       \/ \E r \in Req : Visit(r) /\ t = session.token
                       \/ \E r \in Req : Founds(r, t) \/ Replaces(r, t)
<1>1. /\ TypeOK /\ seen \subseteq Drawn /\ (session # None => session.token \in seen)
      /\ Going \subseteq Drawn \cup {None} /\ visit \in [Req -> Sent \cup {None}]
  BY InvParts DEF Inv, ConsoleInv, ConsoleTypeOK
<1>2. \A r \in Req : visit[r] # None => visit[r].token \in Going
  BY DEF Going
<1>3. \A r \in Req : req[r].token \in Going /\ req[r].new \in Going
  BY DEF Going
<1>4. \A a \in answers : a.token \in Going
  BY DEF Going
<1>5. ASSUME NEW r \in Req, visit'[r] # None PROVE Known(visit'[r].token)
  <2>1. CASE visit'[r] = visit[r]
    BY <1>2, <1>5, <2>1
  <2>2. CASE Visit(r)
    BY <1>1, <2>2 DEF Visit
  <2>3. visit'[r] = visit[r] \/ Visit(r)
    <3>1. Refresh(r) => visit'[r] = None
      BY <1>1 DEF Refresh
    <3>2. Serve(r) => visit' = visit
      BY DEF Serve, browser
    <3> QED BY <1>5, <3>1, <3>2, Actors DEF Untouched, Over
  <2> QED BY <2>1, <2>2, <2>3
<1>6. ASSUME NEW r \in Req PROVE Known(req'[r].token) /\ Known(req'[r].new)
  <2>1. CASE req'[r] = req[r]
    BY <1>3, <2>1
  <2>2. CASE req'[r] = Idle
    BY <2>2 DEF Idle
  <2>3. ASSUME NEW t \in Token, Founds(r, t) \/ Replaces(r, t)
        PROVE  Known(req'[r].token) /\ Known(req'[r].new)
    <3>1. req'[r].new = t /\ req'[r].token \in {None, req[r].token}
      BY <2>3 DEF Founds, Replaces
    <3> QED BY <1>3, <2>3, <3>1
  <2>4. CASE Refresh(r)
    <3>1. visit[r] # None /\ req'[r].token = visit[r].token /\ req'[r].new = None
      BY <1>1, <2>4 DEF Refresh, Begin, TypeOK
    <3> QED BY <1>2, <3>1
  <2>5. CASE Serve(r) /\ Reads(r)
    <3>1. req'[r] = Idle \/ (req'[r].token = req[r].token /\ req'[r].new = req[r].new)
      BY <1>1, <2>5, Moves DEF Reads, Lookup, FindChild, TxSelect
    <3> QED BY <1>3, <2>2, <3>1
  <2>6. Untouched(r) \/ Visit(r) => req'[r] = req[r]
    BY DEF Untouched, Visit, vars
  <2>7. Over(r) => req'[r] = Idle
    BY DEF Over
  <2> QED BY <2>1, <2>2, <2>3, <2>4, <2>5, <2>6, <2>7, Actors
<1>7. ASSUME NEW a \in answers' PROVE Known(a.token)
  <2>1. ASSUME NEW r \in Req, SendAnswer(r) PROVE Known(a.token)
    <3>1. PICK b : answers' = answers \cup {b} /\ b.token = req[r].new
      BY <1>1, <2>1, SendKind, SendsComing
    <3> QED BY <1>3, <1>4, <3>1
  <2>2. answers' \subseteq answers \/ \E r \in Req : SendAnswer(r)
    BY DEF ConsoleNext, consoleVars, browser, StartLogin, Callback, Visit, Refresh, Serve,
       SetSession, Lose, BreakOff, LogOut, Revoke, ClearSession, Wait
  <2> QED BY <1>4, <2>1, <2>2
<1>8. \A t \in Going' : Known(t)
  BY <1>5, <1>6, <1>7 DEF Going
<1>9. ASSUME NEW t, Known(t) PROVE t \in Drawn' \cup {None}
  <2>1. Drawn \subseteq Drawn'
    BY Frame
  <2>2. ASSUME NEW r \in Req, Founds(r, t) \/ Replaces(r, t) PROVE t \in Drawn'
    BY <2>2 DEF Founds, Replaces
  <2>3. ASSUME NEW r \in Req, Visit(r), t = session.token PROVE t \in Drawn'
    BY <1>1, <2>1, <2>3 DEF Visit
  <2> QED BY <1>1, <1>9, <2>1, <2>2, <2>3
<1> QED BY <1>8, <1>9

\* A logout whose cookie nothing else carries holds the last token of its family, and
\* does so until it revokes it or a refresh crosses it.
LEMMA LastOneStep ==
  ASSUME Inv, [ConsoleNext]_consoleVars
  PROVE  LastOne'
<1> DEFINE c == leaving'
           f == row'[c].family
<1> SUFFICES ASSUME revoking', fault' # "missed", f \notin raced' \cup crossed'
             PROVE  /\ f \notin Underway'
                    /\ \A u \in Drawn' : row'[u].family = f /\ row'[u].revokedAt = None => u = c
  BY DEF LastOne, LivesIn
<1>1. /\ TypeOK /\ TableInv /\ removed = {} /\ None \notin Drawn
      /\ seen \subseteq Drawn /\ Coming \subseteq Drawn
      /\ (session # None => session.token \in seen)
      /\ leaving # None => leaving \in Drawn
      /\ revoking \in BOOLEAN /\ (revoking => leaving # None)
      /\ Going \subseteq Drawn \cup {None} /\ CookieFollows /\ LastOne
  BY InvParts, StoreFacts, EndedTyped DEF Inv, ConsoleInv
<1>2. /\ fault # "missed" /\ raced \subseteq raced' /\ crossed \subseteq crossed'
      /\ \A t \in Drawn : row'[t].family = row[t].family
  BY Frame
<1>3. CASE LogOut
  <2>1. /\ c = session.token /\ c \in Drawn /\ row' = row /\ req' = req
        /\ visit' = visit /\ answers' = answers /\ session # None
        /\ crossed' = crossed \cup (Underway \cap {row[c].family})
    BY <1>1, <1>3 DEF LogOut, vars
  <2>2. Underway' = Underway
    BY <2>1 DEF Underway, Going, FamiliesOf
  <2>3. f \notin Underway /\ f \notin raced
    BY <1>2, <2>1
  <2>4. ASSUME NEW t \in Coming PROVE row[t].family # f
    <3>1. t \in Going \ {None}
      BY <1>1 DEF Coming, Going, Delivering
    <3> QED BY <2>3, <3>1 DEF Underway, FamiliesOf
  <2>5. \A u \in Drawn : row[u].family = f /\ row[u].revokedAt = None => u = c
    BY <1>1, <1>2, <2>1, <2>3, <2>4 DEF CookieFollows, LivesIn
  <2>6. Drawn' = Drawn
    BY <2>1 DEF Drawn
  <2> QED BY <2>1, <2>2, <2>3, <2>5, <2>6
<1>4. ASSUME ~LogOut
      PROVE  /\ f \notin Underway'
             /\ \A u \in Drawn' : row'[u].family = f /\ row'[u].revokedAt = None => u = c
  <2>1. revoking /\ leaving' = leaving
    BY <1>1, <1>4 DEF ConsoleNext, consoleVars, browser, StartLogin, Callback, Visit, Refresh,
       Serve, SendAnswer, SetSession, Lose, BreakOff, Revoke, ClearSession, Wait
  <2>2. c \in Drawn /\ f = row[c].family
    BY <1>1, <1>2, <2>1
  <2>3. f \notin Underway /\ \A u \in Drawn : row[u].family = f /\ row[u].revokedAt = None => u = c
    BY <1>1, <1>2, <2>1, <2>2 DEF LastOne, LivesIn
  <2>4. \A t \in Going \ {None} : row[t].family # f
    BY <2>3 DEF Underway, FamiliesOf
  <2>5. f \in FamiliesOf(Drawn)
    BY <2>2 DEF FamiliesOf
  <2>6. ASSUME NEW r \in Req, NEW t, Founds(r, t) \/ Replaces(r, t) PROVE row'[t].family # f
    <3>1. CASE Founds(r, t)
      BY <2>5, <3>1 DEF Founds
    <3>2. CASE Replaces(r, t)
      <4>1. req[r].pc = "commit" /\ row'[t].family = row[req[r].cur].family
        BY <3>2 DEF Replaces
      <4>2. req[r].token \in seen /\ row[req[r].cur].family = row[req[r].token].family
        BY <4>1, CommitSeen
      <4>3. req[r].token \in Going \ {None}
        BY <1>1, <4>2 DEF Going
      <4> QED BY <2>4, <4>1, <4>2, <4>3
    <3> QED BY <2>6, <3>1, <3>2
  <2>7. ASSUME NEW r \in Req, Visit(r) PROVE session.token \in Drawn /\ row[session.token].family # f
    BY <1>1, <2>1, <2>2, <2>7 DEF Visit
  <2>8. ASSUME NEW t \in Going', t # None PROVE row'[t].family # f
    <3>1. CASE t \in Going
      BY <1>1, <1>2, <2>4, <2>8, <3>1
    <3>2. ASSUME NEW r \in Req, Visit(r), t = session.token PROVE row'[t].family # f
      BY <1>2, <2>7, <3>2
    <3> QED BY <2>6, <2>8, <3>1, <3>2, GoingStep
  <2>9. f \notin Underway'
    BY <2>8 DEF Underway, FamiliesOf
  <2>10. ASSUME NEW u \in Drawn', row'[u].family = f, row'[u].revokedAt = None PROVE u = c
    <3>1. CASE Calm /\ (SameTable \/ Revokes)
      BY <2>3, <2>10, <3>1 DEF SameTable, Revokes, Drawn
    <3>2. ASSUME NEW r \in Req, NEW t \in Token, Founds(r, t) PROVE u = c
      BY <2>3, <2>6, <2>10, <3>2 DEF Founds
    <3>3. ASSUME NEW r \in Req, NEW t \in Token, Replaces(r, t) PROVE u = c
      <4>1. u # t
        BY <2>6, <2>10, <3>3
      <4>2. req[r].now # None
        BY <1>1, NoneAssumption DEF TypeOK, Request
      <4> QED BY <2>3, <2>10, <3>3, <4>1, <4>2 DEF Replaces
    <3>4. CASE row' = row
      BY <2>3, <2>10, <3>4 DEF Drawn
    <3> QED BY <3>1, <3>2, <3>3, <3>4, Kinds, SendsComing, ArrivesComing, DropsComing
  <2> QED BY <2>9, <2>10
<1> QED BY <1>3, <1>4

\* A family logged out of by itself, with nothing of it under way, is dead.
LEMMA LogoutKills ==
  ASSUME Inv, Revoke, fault' # "missed", row[leaving].family \notin raced \cup crossed,
         removed' = {}
  PROVE  /\ \A t \in Drawn' : row'[t].family = row[leaving].family => row'[t].revokedAt # None
         /\ \A r \in Req : req'[r].pc = "commit" =>
              row'[req'[r].cur].family # row[leaving].family
<1> DEFINE c == leaving
           f == row[c].family
<1>1. /\ TypeOK /\ TableInv /\ removed = {} /\ None \notin Drawn
      /\ seen \subseteq Drawn /\ c \in Drawn /\ revoking /\ LastOne
  BY InvParts, StoreFacts, EndedTyped DEF Inv, ConsoleInv, Revoke
<1>6. /\ fault # "missed"
      /\ (IF Live(c) THEN RevokeToken(c) ELSE UNCHANGED vars)
  BY DEF Revoke
<1>2. f \notin Underway
  BY <1>1, <1>6 DEF LastOne
<1>3. \A t \in Going : t # None => row[t].family # f
  BY <1>2 DEF Underway, FamiliesOf
<1>7. \A t \in Drawn : row[t].family = f /\ row[t].revokedAt = None => t = c
  BY <1>1, <1>6 DEF LastOne, LivesIn
<1>8. req' = req /\ Drawn' = Drawn /\ (\A t \in Drawn : row'[t].family = f => row'[t].revokedAt # None)
      /\ \A t \in Drawn : row'[t].family = row[t].family
  <2>1. CASE Live(c)
    <3>1. RevokeRows({c}, clock) /\ clock \in Nat /\ req' = req /\ Stored = Drawn
      BY <1>1, <1>6, <2>1 DEF RevokeToken, TypeOK, Stored
    <3>2. /\ Drawn' = Drawn
          /\ \A t \in Drawn :
              /\ row'[t].family = row[t].family
              /\ row[t].revokedAt # None => row'[t].revokedAt # None
              /\ row'[t].revokedAt = None => t \notin {c} \/ t \notin Stored
      BY <1>1, <3>1, RevokeRowsEffect
    <3> QED BY <1>7, <3>1, <3>2
  <2>2. CASE ~Live(c)
    <3>1. row' = row /\ req' = req
      BY <1>6, <2>2 DEF vars
    <3>2. row[c].revokedAt # None
      BY <1>1, <2>2, StoreFacts
    <3> QED BY <1>7, <3>1, <3>2 DEF Drawn
  <2> QED BY <2>1, <2>2
<1>10. ASSUME NEW r \in Req, req[r].pc = "commit" PROVE row[req[r].cur].family # f
  <2>1. req[r].token \in seen /\ row[req[r].cur].family = row[req[r].token].family
    BY <1>10, CommitSeen
  <2>2. req[r].token \in Going /\ req[r].token # None
    BY <1>1, <2>1 DEF Going
  <2> QED BY <1>3, <2>1, <2>2
<1>11. ASSUME NEW r \in Req, req[r].pc = "commit" PROVE req[r].cur \in Drawn
  BY <1>11, CommitSeen
<1> QED BY <1>1, <1>8, <1>10, <1>11

LEMMA EndedStep ==
  ASSUME Inv, [ConsoleNext]_consoleVars
  PROVE  EndedIsDead'
<1> SUFFICES ASSUME fault' # "missed", NEW f \in Ended' \ (raced' \cup crossed')
             PROVE  /\ Unrevoked({f})' = {}
                    /\ \A r \in Req : req'[r].pc = "commit" => row'[req'[r].cur].family # f
  BY DEF EndedIsDead
<1>1. /\ TypeOK /\ RequestsRefer /\ TableInv /\ removed = {} /\ removed' = {} /\ EndedIsDead
  BY ConsoleStore DEF Inv, ConsoleInv
<1>2. /\ fault # "missed" /\ raced \subseteq raced' /\ crossed \subseteq crossed'
      /\ \A t \in Drawn : row'[t].family = row[t].family
  BY Frame
<1>3. CASE f \notin Ended
  <2>1. Revoke /\ f = row[leaving].family
    BY <1>3, EndedGrows
  <2>2. f \notin raced \cup crossed
    BY <1>2
  <2>3. /\ \A t \in Drawn' : row'[t].family = f => row'[t].revokedAt # None
        /\ \A r \in Req : req'[r].pc = "commit" => row'[req'[r].cur].family # f
    BY <1>1, <2>1, <2>2, LogoutKills
  <2> QED BY <2>3 DEF Unrevoked, Stored
<1>4. CASE f \in Ended
  <2>1. /\ Unrevoked({f}) = {}
        /\ \A r \in Req : req[r].pc = "commit" => row[req[r].cur].family # f
    BY <1>1, <1>2, <1>4 DEF EndedIsDead
  <2>2. \A t \in Drawn : row[t].family = f => row[t].revokedAt # None
    BY <1>1, <2>1 DEF Unrevoked, Stored
  <2>3. f \in FamiliesOf(Drawn)
    BY <1>4, EndedTyped
  <2>4. \A t \in Drawn' : row'[t].family = f => row'[t].revokedAt # None
    <3>1. CASE Calm /\ (SameTable \/ Revokes)
      BY <2>2, <3>1 DEF SameTable, Revokes, Drawn
    <3>2. ASSUME NEW r \in Req, NEW t \in Token, Founds(r, t)
          PROVE  \A u \in Drawn' : row'[u].family = f => row'[u].revokedAt # None
      BY <2>2, <2>3, <3>2 DEF Founds
    <3>3. ASSUME NEW r \in Req, NEW t \in Token, Replaces(r, t)
          PROVE  \A u \in Drawn' : row'[u].family = f => row'[u].revokedAt # None
      <4>1. row[req[r].cur].family # f
        BY <2>1, <3>3 DEF Replaces
      <4> QED BY <2>2, <3>3, <4>1 DEF Replaces
    <3>4. CASE row' = row
      BY <2>2, <3>4 DEF Drawn
    <3> QED BY <3>1, <3>2, <3>3, <3>4, Kinds, SendsComing, ArrivesComing, DropsComing
  <2>5. Unrevoked({f})' = {}
    BY <1>1, <2>4 DEF Unrevoked, Stored
  <2>6. ASSUME NEW r \in Req, req'[r].pc = "commit" PROVE row'[req'[r].cur].family # f
    <3>1. CASE req'[r] = req[r]
      BY <1>2, <2>1, <2>6, <3>1, CommitSeen
    <3>2. CASE Serve(r) /\ TxSelect(r) /\ ~Finish(r)
      <4> DEFINE c == req[r].cur
      <4>1. Live(c) /\ req'[r].cur = c
        BY <1>1, <3>2, Moves DEF TxSelect
      <4>2. c \in Drawn /\ row[c].revokedAt = None
        BY <4>1 DEF Live, Stored
      <4> QED BY <1>2, <2>2, <4>1, <4>2
    <3>3. req'[r].pc # "commit" \/ req'[r] = req[r] \/ (Serve(r) /\ TxSelect(r) /\ ~Finish(r))
      <4>1. CASE Untouched(r) \/ Visit(r)
        BY <4>1 DEF Untouched, Visit, vars
      <4>2. CASE Over(r) \/ \E t \in Token : Founds(r, t) \/ Replaces(r, t)
        BY <4>2 DEF Over, Idle, Founds, Replaces
      <4>3. CASE Refresh(r)
        BY <1>1, <4>3 DEF Refresh, Begin, TypeOK
      <4>4. CASE Serve(r) /\ Reads(r)
        <5>1. Finish(r) => req'[r].pc # "commit"
          BY <1>1, Moves DEF Idle
        <5>2. CASE Lookup(r)
          <6>1. \A t : Rotating(r, t) \/ Following(r, t) => req'[r].pc # "commit"
            BY <1>1, Moves
          <6>2. Goto(r, "reuse") => req'[r].pc # "commit"
            BY <1>1, Moves
          <6> QED BY <5>1, <5>2, <6>1, <6>2 DEF Lookup
        <5>3. CASE FindChild(r)
          <6>1. \A t : Rotating(r, t) => req'[r].pc # "commit"
            BY <1>1, Moves
          <6> QED BY <5>1, <5>3, <6>1 DEF FindChild
        <5>4. CASE TxSelect(r)
          BY <4>4, <5>1, <5>4
        <5> QED BY <4>4, <5>2, <5>3, <5>4 DEF Reads
      <4> QED BY <4>1, <4>2, <4>3, <4>4, Actors
    <3> QED BY <2>6, <3>1, <3>2, <3>3
  <2> QED BY <2>5, <2>6
<1> QED BY <1>3, <1>4

-----------------------------------------------------------------------------
(* The grace period *)

\* A row that points at a successor now did so before or was just replaced.
LEMMA SuccessorGot ==
  ASSUME Inv, [ConsoleNext]_consoleVars, NEW t \in Drawn, row'[t].successor # None
  PROVE  \/ row'[t] = row[t]
         \/ \E r \in Req, u \in Token : /\ Replaces(r, u) /\ req[r].cur = t
                                        /\ row'[t].revokedAt = req[r].now /\ row'[t].successor = u
<1> DEFINE Got == \/ row'[t] = row[t]
                  \/ \E r \in Req, u \in Token :
                       /\ Replaces(r, u) /\ req[r].cur = t
                       /\ row'[t].revokedAt = req[r].now /\ row'[t].successor = u
<1>1. ASSUME Revokes PROVE Got
  <2>1. row'[t] # row[t] => row[t].revokedAt = None /\ row[t].successor # None
    BY <1>1 DEF Revokes
  <2>2. row[t].successor # None => row[t].revokedAt # None
    BY InvParts, StoreFacts
  <2> QED BY <2>1, <2>2
<1>2. ASSUME NEW r \in Req, NEW u \in Token, Founds(r, u) PROVE Got
  BY <1>2 DEF Founds
<1>3. ASSUME NEW r \in Req, NEW u \in Token, Replaces(r, u) PROVE Got
  <2>1. CASE t = req[r].cur
    <3>1. row'[t].revokedAt = req[r].now /\ row'[t].successor = u
      BY <1>3, <2>1 DEF Replaces
    <3> QED BY <1>3, <2>1, <3>1
  <2>2. CASE t # req[r].cur
    BY <1>3, <2>2 DEF Replaces
  <2> QED BY <2>1, <2>2
<1>4. ASSUME row' = row PROVE Got
  BY <1>4
<1> HIDE DEF Got
<1>5. Got
  <2>1. SameTable => row' = row
    BY DEF SameTable
  <2>2. \A r \in Req : Sends(r) \/ Drops(r) => row' = row
    BY SendsComing, DropsComing
  <2>3. \A a \in answers : SetSession(a) \/ Lose(a) => row' = row
    BY ArrivesComing
  <2> QED BY <1>1, <1>2, <1>3, <1>4, <2>1, <2>2, <2>3, Kinds
<1> QED BY <1>5 DEF Got

LEMMA NextComesStep ==
  ASSUME Inv, [ConsoleNext]_consoleVars
  PROVE  NextComes'
<1> SUFFICES ASSUME fault' # "missed", NEW t \in Drawn', row'[t].successor \notin seen' \cup {None}
             PROVE  \/ \E a \in answers' : /\ ~a.login /\ a.token = row'[t].successor
                                           /\ a.at = row'[t].revokedAt
                    \/ \E r \in Delivering' : /\ req'[r].cur # None
                                              /\ req'[r].new = row'[t].successor
                                              /\ req'[r].now = row'[t].revokedAt
  BY DEF NextComes, NextOf
<1> DEFINE Sent1 == \/ \E a \in answers' : /\ ~a.login /\ a.token = row'[t].successor
                                           /\ a.at = row'[t].revokedAt
                    \/ \E r \in Delivering' : /\ req'[r].cur # None
                                              /\ req'[r].new = row'[t].successor
                                              /\ req'[r].now = row'[t].revokedAt
<1>1. fault # "missed" /\ seen \subseteq seen' /\ NextComes /\ None \notin Drawn
  BY Frame, InvParts, StoreFacts DEF Inv, ConsoleInv
<1>2. ASSUME t \in Drawn, row'[t] = row[t] PROVE Sent1
  <2>1. \/ \E a \in answers : ~a.login /\ a.token = row[t].successor /\ a.at = row[t].revokedAt
        \/ \E r \in Delivering : /\ req[r].cur # None
                                 /\ req[r].new = row[t].successor /\ req[r].now = row[t].revokedAt
    BY <1>1, <1>2 DEF NextComes, NextOf
  <2>2. ASSUME NEW a \in answers, ~a.login, a.token = row[t].successor, a.at = row[t].revokedAt
        PROVE  a \in answers'
    <3>1. ~Lose(a)
      BY <2>2 DEF Lose
    <3>2. ~SetSession(a)
      BY <1>2, <2>2 DEF SetSession
    <3>3. ASSUME NEW b \in answers, SetSession(b) \/ Lose(b) PROVE a \in answers'
      BY <3>1, <3>2, <3>3 DEF SetSession, Lose
    <3>4. ASSUME NEW r \in Req, Sends(r) PROVE a \in answers'
      BY <3>4 DEF Sends
    <3> QED BY <3>3, <3>4, Kinds DEF Calm, SameTraffic, Founds, Replaces, Drops
  <2>3. ASSUME NEW r \in Delivering, req[r].cur # None,
               req[r].new = row[t].successor, req[r].now = row[t].revokedAt
        PROVE  Sent1
    <3>1. CASE Calm
      BY <1>2, <2>3, <3>1, CalmComing
    <3>2. ASSUME NEW s \in Req, NEW u \in Token, Founds(s, u) \/ Replaces(s, u) PROVE Sent1
      BY <1>2, <2>3, <3>2, LeavesComing
    <3>3. ASSUME NEW s \in Req, Sends(s) PROVE Sent1
      <4>1. CASE s = r
        <5>1. PICK b : /\ answers' = answers \cup {b}
                       /\ b.token = req[s].new /\ b.at = req[s].now
                       /\ b.login <=> req[s].cur = None
          BY <3>3, SendsComing
        <5> QED BY <1>2, <2>3, <4>1, <5>1
      <4>2. CASE s # r
        BY <1>2, <2>3, <3>3, <4>2, SendsComing
      <4> QED BY <4>1, <4>2
    <3>4. ASSUME NEW a \in answers, SetSession(a) \/ Lose(a) PROVE Sent1
      BY <1>2, <2>3, <3>4, ArrivesComing
    <3>5. ASSUME NEW s \in Req, Drops(s) PROVE Sent1
      <4>1. s # r
        BY <2>3, <3>5 DEF Drops
      <4> QED BY <1>2, <2>3, <3>5, <4>1, DropsComing
    <3> QED BY <3>1, <3>2, <3>3, <3>4, <3>5, Kinds
  <2> QED BY <1>2, <2>1, <2>2, <2>3
<1>3. ASSUME NEW r \in Req, NEW u \in Token, Replaces(r, u), req[r].cur = t,
             row'[t].revokedAt = req[r].now, row'[t].successor = u
      PROVE  Sent1
  <2>1. r \in Delivering' /\ req'[r].new = u
    BY <1>3, LeavesComing
  <2>2. req'[r].now = req[r].now /\ req'[r].cur # None
    BY <1>1, <1>3 DEF Replaces
  <2> QED BY <1>3, <2>1, <2>2
<1>4. t \in Drawn
  <2> SUFFICES ASSUME t \notin Drawn PROVE FALSE
    OBVIOUS
  <2>1. ASSUME NEW r \in Req, NEW u \in Token, Founds(r, u) \/ Replaces(r, u) PROVE FALSE
    BY <2>1 DEF Founds, Replaces
  <2>2. CASE SameTable \/ Revokes \/ row' = row
    BY <2>2 DEF SameTable, Revokes, Drawn
  <2> QED BY <2>1, <2>2, Kinds, SendsComing, ArrivesComing, DropsComing
<1> HIDE DEF Sent1
<1>5. Sent1
  BY <1>2, <1>3, <1>4, SuccessorGot
<1> QED BY <1>5 DEF Sent1

\* A request that reads keeps its token and its timestamp, or is over.
LEMMA ReadsKeep ==
  ASSUME TypeOK, NEW r \in Req, Reads(r)
  PROVE  req'[r] = Idle \/ (req'[r].token = req[r].token /\ req'[r].now = req[r].now)
<1> DEFINE Kept == req'[r] = Idle \/ (req'[r].token = req[r].token /\ req'[r].now = req[r].now)
<1>1. ASSUME Finish(r) PROVE Kept
  BY <1>1, Moves
<1>2. ASSUME NEW pc, Goto(r, pc) PROVE Kept
  BY <1>2, Moves
<1>3. ASSUME NEW t, Rotating(r, t) \/ Following(r, t) PROVE Kept
  BY <1>3, Moves
<1> HIDE DEF Kept
<1>4. ASSUME Lookup(r) PROVE Kept
  BY <1>1, <1>2, <1>3, <1>4 DEF Lookup
<1>5. ASSUME FindChild(r) PROVE Kept
  BY <1>1, <1>3, <1>5 DEF FindChild
<1>6. ASSUME TxSelect(r) PROVE Kept
  BY <1>1, <1>2, <1>6 DEF TxSelect
<1>7. Kept
  BY <1>4, <1>5, <1>6 DEF Reads
<1> QED BY <1>7 DEF Kept

\* What is under way sets off at once; only time makes it late.
LEMMA InTimeStep ==
  ASSUME Inv, [ConsoleNext]_consoleVars
  PROVE  InTime'
<1> SUFFICES ASSUME fault' = "none" PROVE ~Late(clock)'
  BY DEF InTime
<1>1. /\ fault = "none" /\ ~Late(clock) /\ TypeOK /\ None \notin Drawn /\ seen \subseteq Drawn
      /\ visit \in [Req -> Sent \cup {None}] /\ Delay \in Nat /\ clock \in Nat
  BY Frame, InvParts, StoreFacts, DelayAssumption DEF Inv, ConsoleInv, ConsoleTypeOK, InTime
<1>2. CASE Wait
  <2>1. /\ clock' = clock + 1 /\ req' = req /\ visit' = visit /\ answers' = answers
        /\ ~Late(clock + 1)
    BY <1>1, <1>2 DEF Wait, Tick, browser
  <2> QED BY <2>1 DEF Late
<1>3. CASE ~Wait
  <2>1. clock' = clock
    BY <1>3 DEF ConsoleNext, consoleVars, vars, StartLogin, Callback, Visit, Refresh, Serve, SendAnswer,
         SetSession, Lose, BreakOff, LogOut, Revoke, ClearSession, Create, Begin, Lookup, FindChild,
         RevokeFamily, TxSelect, TxCommit, Deliver, Abort, RevokeToken
  <2>2. /\ \A r \in Req : visit[r] # None => ~(visit[r].at + Delay < clock)
        /\ \A r \in Req : req[r].token # None => ~(req[r].now + Delay < clock)
        /\ \A a \in answers : ~a.login => ~(a.at + Delay < clock)
    BY <1>1 DEF Late
  <2>3. ASSUME NEW r \in Req, visit'[r] # None PROVE ~(visit'[r].at + Delay < clock)
    <3>1. CASE visit'[r] = visit[r]
      BY <2>2, <2>3, <3>1
    <3>2. CASE Visit(r)
      BY <1>1, <3>2 DEF Visit
    <3>3. visit'[r] = visit[r] \/ Visit(r)
      <4>1. Refresh(r) => visit'[r] = None
        BY <1>1 DEF Refresh
      <4>2. Serve(r) => visit' = visit
        BY DEF Serve, browser
      <4> QED BY <2>3, <4>1, <4>2, Actors DEF Untouched, Over
    <3> QED BY <3>1, <3>2, <3>3
  <2>4. ASSUME NEW r \in Req, req'[r].token # None PROVE ~(req'[r].now + Delay < clock)
    <3>1. CASE req'[r].token = req[r].token /\ req'[r].now = req[r].now
      BY <2>2, <2>4, <3>1
    <3>2. CASE Refresh(r)
      <4>1. req'[r].now = clock
        BY <1>1, <3>2 DEF Refresh, Begin, TypeOK
      <4> QED BY <1>1, <4>1
    <3>3. \/ req'[r].token = req[r].token /\ req'[r].now = req[r].now
          \/ Refresh(r)
      <4>1. req'[r] # Idle
        BY <2>4 DEF Idle
      <4>2. CASE Serve(r) /\ Reads(r)
        BY <1>1, <4>1, <4>2, ReadsKeep
      <4>3. CASE Untouched(r) \/ Visit(r)
        BY <4>3 DEF Untouched, Visit, vars
      <4>4. \A t \in Token : ~Founds(r, t)
        BY <2>4 DEF Founds
      <4>5. ASSUME NEW t \in Token, Replaces(r, t)
            PROVE  req'[r].token = req[r].token /\ req'[r].now = req[r].now
        BY <4>5 DEF Replaces
      <4> QED BY <4>1, <4>2, <4>3, <4>4, <4>5, Actors DEF Over
    <3> QED BY <3>1, <3>2, <3>3
  <2>5. ASSUME NEW a \in answers', ~a.login PROVE ~(a.at + Delay < clock)
    <3>1. CASE a \in answers
      BY <2>2, <2>5, <3>1
    <3>2. ASSUME NEW r \in Req, Sends(r), a \notin answers PROVE ~(a.at + Delay < clock)
      <4>1. PICK b : /\ answers' = answers \cup {b}
                     /\ b.at = req[r].now /\ (b.login <=> req[r].cur = None)
        BY <3>2, SendsComing
      <4>2. a.at = req[r].now /\ req[r].cur # None
        BY <2>5, <3>2, <4>1
      <4>3. req[r].token # None
        BY <1>1, <3>2, <4>2 DEF Inv, ConsoleInv, Presented, Sends
      <4> QED BY <2>2, <4>2, <4>3
    <3>3. a \in answers \/ \E r \in Req : Sends(r)
      BY Kinds DEF Calm, SameTraffic, Founds, Replaces, Drops, SetSession, Lose
    <3> QED BY <3>1, <3>2, <3>3
  <2> QED BY <2>1, <2>3, <2>4, <2>5 DEF Late
<1> QED BY <1>2, <1>3

\* A row that changes was replaced, or revoked by a logout or by reuse detection.
LEMMA RowChanges ==
  ASSUME Inv, [ConsoleNext]_consoleVars, NEW t \in Drawn, row'[t] # row[t]
  PROVE  \/ row'[t].successor # None
         \/ Revoke /\ t = leaving
         \/ \E r \in Req : req[r].pc = "reuse" /\ row[t].family = row[req[r].token].family
<1>1. /\ TypeOK /\ RequestsRefer /\ TableInv /\ removed = {} /\ removed' = {}
      /\ clock \in Nat
  BY ConsoleStore DEF TypeOK
<1> DEFINE Known == \/ row'[t].successor # None
                    \/ Revoke /\ t = leaving
                    \/ \E r \in Req : req[r].pc = "reuse" /\ row[t].family = row[req[r].token].family
<1>2. ASSUME NEW r \in Req, NEW k \in Key, Callback(r, k) PROVE Known
  BY <1>1, <1>2, CallbackKind DEF SameTable, Founds
<1>3. ASSUME NEW r \in Req, Serve(r), TxCommit(r) PROVE Known
  <2>1. PICK u : Replaces(r, u)
    BY <1>1, <1>3, CommitKind DEF SameTable
  <2>2. t = req[r].cur
    BY <2>1 DEF Replaces
  <2>3. row'[t].successor = u /\ u # None
    BY <2>1, <2>2, NoneAssumption DEF Replaces
  <2> QED BY <2>3
<1>4. ASSUME NEW r \in Req, Serve(r), RevokeFamily(r) PROVE Known
  <2> DEFINE f == row[req[r].token].family
  <2>1. RevokeRows(Unrevoked({f}), clock) /\ req[r].pc = "reuse"
    BY <1>4 DEF RevokeFamily
  <2>2. row'[t] # row[t] => t \in Unrevoked({f})
    BY <1>1, <2>1, RevokeRowsEffect
  <2>3. row[t].family = f
    BY <2>2 DEF Unrevoked
  <2> QED BY <2>1, <2>3
<1>5. ASSUME Revoke PROVE Known
  <2>1. RevokeToken(leaving)
    BY <1>5 DEF Revoke, vars
  <2>2. RevokeRows({leaving}, clock)
    BY <2>1 DEF RevokeToken
  <2>3. row'[t] # row[t] => t \in {leaving}
    BY <1>1, <2>2, RevokeRowsEffect
  <2> QED BY <1>5, <2>3
<1>6. ASSUME \/ \E k \in Key : StartLogin(k)
             \/ \E r \in Req : Visit(r) \/ Refresh(r) \/ SendAnswer(r) \/ BreakOff(r)
             \/ \E r \in Req : Serve(r) /\ Reads(r)
             \/ \E a \in answers : SetSession(a) \/ Lose(a)
             \/ LogOut \/ ClearSession \/ Wait \/ UNCHANGED consoleVars
      PROVE  row' = row
  BY <1>6 DEF consoleVars, vars, StartLogin, Visit, Refresh, Serve, SendAnswer,
         SetSession, Lose, BreakOff, LogOut, ClearSession, Wait, Begin, Reads, Lookup, FindChild,
         TxSelect, Deliver, Abort, Tick
<1> HIDE DEF Known
<1>7. Known
  BY <1>2, <1>3, <1>4, <1>5, <1>6 DEF ConsoleNext, Serve, Reads
<1> QED BY <1>7 DEF Known

LEMMA NewRows ==
  ASSUME Inv, [ConsoleNext]_consoleVars, NEW t \in Drawn' \ Drawn
  PROVE  row'[t].revokedAt = None /\ row'[t].successor = None
<1>1. ASSUME NEW r \in Req, NEW u \in Token, Founds(r, u) \/ Replaces(r, u)
      PROVE  row'[t].revokedAt = None /\ row'[t].successor = None
  BY <1>1 DEF Founds, Replaces
<1>2. \/ Drawn' = Drawn
      \/ \E r \in Req, u \in Token : Founds(r, u) \/ Replaces(r, u)
  <2>1. SameTable \/ Revokes => Drawn' = Drawn
    BY DEF SameTable, Revokes, Drawn
  <2>2. row' = row => Drawn' = Drawn
    BY DEF Drawn
  <2>3. \A r \in Req : Sends(r) \/ Drops(r) => row' = row
    BY SendsComing, DropsComing
  <2>4. \A a \in answers : SetSession(a) \/ Lose(a) => row' = row
    BY ArrivesComing
  <2> QED BY <2>1, <2>2, <2>3, <2>4, Kinds
<1> QED BY <1>1, <1>2

LEMMA InGraceStep ==
  ASSUME Inv, [ConsoleNext]_consoleVars
  PROVE  InGrace'
<1> SUFFICES ASSUME fault' = "none"
    PROVE
    /\ \A t \in Drawn' : row'[t].revokedAt # None /\ row'[t].successor = None =>
         row'[t].family \in Ended'
    /\ \A r \in Req : visit'[r] # None /\ row'[visit'[r].token].successor # None =>
         visit'[r].at <= row'[visit'[r].token].revokedAt + Delay
    /\ \A r \in Req : req'[r].pc = "lookup" /\ row'[req'[r].token].successor # None =>
         req'[r].now < row'[req'[r].token].revokedAt + Grace
    /\ \A r \in Req : req'[r].pc = "reuse" => row'[req'[r].token].family \in Ended'
  BY DEF InGrace
<1>1. /\ fault = "none" /\ TypeOK /\ RequestsRefer /\ TableInv /\ removed = {}
      /\ seen \subseteq Drawn /\ None \notin Drawn
      /\ visit \in [Req -> Sent \cup {None}] /\ req \in [Req -> Request]
      /\ clock \in Nat
      /\ \A r \in Req : Presented(r)
      /\ NextComes /\ CookieFollows
  BY Frame, InvParts, StoreFacts, ConsoleStore DEF Inv, ConsoleInv, ConsoleTypeOK, TypeOK
<1>2. Delay \in Nat /\ Grace \in Nat /\ 2 * Delay < Grace
  BY DelayAssumption, TimeAssumption
<1>3. /\ \A t \in Drawn : row[t].revokedAt # None /\ row[t].successor = None =>
           row[t].family \in Ended
      /\ \A r \in Req : visit[r] # None /\ row[visit[r].token].successor # None =>
           visit[r].at <= row[visit[r].token].revokedAt + Delay
      /\ \A r \in Req : req[r].pc = "lookup" /\ row[req[r].token].successor # None =>
           req[r].now < row[req[r].token].revokedAt + Grace
      /\ \A r \in Req : req[r].pc = "reuse" => row[req[r].token].family \in Ended
  BY <1>1 DEF Inv, ConsoleInv, InGrace
<1>4. /\ \A r \in Req : visit[r] # None => visit[r].at \in Nat /\ clock <= visit[r].at + Delay
      /\ \A r \in Req : req[r].now \in Nat /\ (req[r].token # None => clock <= req[r].now + Delay)
      /\ \A a \in answers : a.at \in Nat /\ (~a.login => clock <= a.at + Delay)
  <2>1. ~Late(clock) /\ answers \subseteq Answer
    BY <1>1 DEF Inv, ConsoleInv, InTime, ConsoleTypeOK
  <2>2. \A r \in Req : (visit[r] # None => visit[r].at \in Nat) /\ req[r].now \in Nat
    BY <1>1 DEF Sent, Request
  <2>3. \A a \in answers : a.at \in Nat
    BY <2>1 DEF Answer
  <2>4. /\ \A r \in Req : visit[r] # None => ~(visit[r].at + Delay < clock)
        /\ \A r \in Req : req[r].token # None => ~(req[r].now + Delay < clock)
        /\ \A a \in answers : ~a.login => ~(a.at + Delay < clock)
    BY <2>1 DEF Late
  <2> QED BY <1>1, <1>2, <2>2, <2>3, <2>4
<1>5. \A t \in Drawn : /\ row'[t].family = row[t].family
                       /\ row[t].successor # None => row[t].revokedAt \in Nat
  BY <1>1, Frame, StoreFacts
<1>6. Ended \subseteq Ended'
  BY EndedGrows
<1>7. ASSUME NEW t \in Drawn', row'[t].revokedAt # None, row'[t].successor = None
      PROVE  row'[t].family \in Ended'
  <2>1. t \in Drawn
    BY <1>7, NewRows
  <2>2. CASE row'[t] = row[t]
    BY <1>3, <1>6, <1>7, <2>1, <2>2
  <2>3. CASE row'[t] # row[t]
    <3>1. CASE Revoke /\ t = leaving
      BY <1>5, <2>1, <3>1, EndedGrows
    <3>2. ASSUME NEW r \in Req, req[r].pc = "reuse", row[t].family = row[req[r].token].family
          PROVE  row'[t].family \in Ended'
      BY <1>3, <1>5, <1>6, <2>1, <3>2
    <3> QED BY <1>7, <2>1, <2>3, <3>1, <3>2, RowChanges
  <2> QED BY <2>2, <2>3
\* A token replaced by now was replaced by a request that is not late.
<1>8. ASSUME NEW t \in Drawn, row'[t].successor # None
      PROVE  \/ row'[t] = row[t]
             \/ row'[t].revokedAt \in Nat /\ clock <= row'[t].revokedAt + Delay
  <2>1. ASSUME NEW r \in Req, req[r].pc = "commit" PROVE req[r].token # None
    BY <1>1, <2>1, CommitSeen
  <2>2. ASSUME NEW r \in Req, NEW u \in Token, Replaces(r, u), row'[t].revokedAt = req[r].now
        PROVE  row'[t].revokedAt \in Nat /\ clock <= row'[t].revokedAt + Delay
    BY <1>4, <2>1, <2>2 DEF Replaces
  <2> QED BY <1>8, <2>2, SuccessorGot
<1>9. ASSUME NEW r \in Req, visit'[r] # None, row'[visit'[r].token].successor # None
      PROVE  visit'[r].at <= row'[visit'[r].token].revokedAt + Delay
  <2>1. CASE visit'[r] = visit[r]
    <3> DEFINE t == visit[r].token
    <3>1. t \in Drawn /\ visit[r].at <= clock /\ visit[r].at \in Nat
      BY <1>1, <1>4, <1>9, <2>1 DEF Presented
    <3>2. CASE row'[t] = row[t]
      BY <1>3, <1>9, <2>1, <3>2
    <3>3. CASE row'[t].revokedAt \in Nat /\ clock <= row'[t].revokedAt + Delay
      BY <1>1, <1>2, <2>1, <3>1, <3>3
    <3> QED BY <1>8, <1>9, <2>1, <3>1, <3>2, <3>3
  <2>2. CASE Visit(r)
    <3> DEFINE t == session.token
    <3>1. /\ visit'[r].token = t /\ visit'[r].at = clock /\ row' = row /\ session # None
      BY <1>1, <2>2 DEF Visit, vars
    <3>2. t \in Drawn /\ row[t].successor \notin seen \cup {None}
      BY <1>1, <1>9, <3>1, InvParts DEF CookieFollows
    <3>3. NextOf(t)
      BY <1>1, <3>2 DEF NextComes
    <3>4. ASSUME NEW s \in Delivering, req[s].cur # None PROVE req[s].token # None
      BY <1>1, <3>4 DEF Delivering, Presented
    <3>5. clock <= row[t].revokedAt + Delay
      <4>1. ASSUME NEW a \in answers, ~a.login, a.at = row[t].revokedAt
            PROVE  clock <= row[t].revokedAt + Delay
        BY <1>4, <4>1
      <4>2. ASSUME NEW s \in Delivering, req[s].cur # None, req[s].now = row[t].revokedAt
            PROVE  clock <= row[t].revokedAt + Delay
        BY <1>4, <3>4, <4>2 DEF Delivering
      <4> QED BY <3>2, <3>3, <4>1, <4>2 DEF NextOf
    <3> QED BY <3>1, <3>5
  <2>3. visit'[r] = visit[r] \/ Visit(r)
    <3>1. Refresh(r) => visit'[r] = None
      BY <1>1 DEF Refresh
    <3>2. Serve(r) => visit' = visit
      BY DEF Serve, browser
    <3> QED BY <1>9, <3>1, <3>2, Actors DEF Untouched, Over
  <2> QED BY <2>1, <2>2, <2>3
<1>10. ASSUME NEW r \in Req, req'[r].pc = "lookup", row'[req'[r].token].successor # None
       PROVE  req'[r].now < row'[req'[r].token].revokedAt + Grace
  <2>1. CASE req'[r] = req[r]
    <3> DEFINE t == req[r].token
    <3>1. t \in Drawn /\ req[r].now <= clock /\ req[r].now \in Nat
      BY <1>1, <1>4, <1>10, <2>1 DEF Presented
    <3>2. CASE row'[t] = row[t]
      BY <1>3, <1>10, <2>1, <3>2
    <3>3. CASE row'[t].revokedAt \in Nat /\ clock <= row'[t].revokedAt + Delay
      <4>1. req[r].now <= row'[t].revokedAt + Delay
        BY <1>1, <1>2, <3>1, <3>3
      <4>2. req[r].now < row'[t].revokedAt + Grace
        BY <1>2, <3>1, <3>3, <4>1
      <4> QED BY <2>1, <4>2
    <3> QED BY <1>8, <1>10, <2>1, <3>1, <3>2, <3>3
  <2>2. CASE Refresh(r)
    <3> DEFINE t == visit[r].token
    <3>1. /\ visit[r] # None /\ row' = row
          /\ req'[r].token = t /\ req'[r].now = clock
      BY <1>1, <2>2 DEF Refresh, Begin
    <3>2. t \in Drawn /\ row[t].successor # None
      BY <1>1, <1>10, <3>1 DEF Presented
    <3>3. visit[r].at <= row[t].revokedAt + Delay /\ row[t].revokedAt \in Nat
      BY <1>3, <1>5, <3>1, <3>2
    <3>4. clock <= visit[r].at + Delay /\ visit[r].at \in Nat
      BY <1>4, <3>1
    <3>5. clock < row[t].revokedAt + Grace
      BY <1>1, <1>2, <3>3, <3>4
    <3> QED BY <3>1, <3>5
  <2>3. req'[r] = req[r] \/ Refresh(r)
    <3>1. CASE Serve(r) /\ Reads(r)
      <4>1. Finish(r) => req'[r].pc # "lookup"
        BY <1>1, Moves DEF Idle
      <4>2. \A t : Rotating(r, t) \/ Following(r, t) => req'[r].pc # "lookup"
        BY <1>1, Moves
      <4>3. Goto(r, "reuse") \/ Goto(r, "commit") => req'[r].pc # "lookup"
        BY <1>1, Moves
      <4> QED BY <1>10, <3>1, <4>1, <4>2, <4>3 DEF Reads, Lookup, FindChild, TxSelect
    <3>2. CASE Untouched(r) \/ Visit(r)
      BY <3>2 DEF Untouched, Visit, vars
    <3>3. ~Over(r) /\ \A t \in Token : ~Founds(r, t) /\ ~Replaces(r, t)
      BY <1>10 DEF Over, Idle, Founds, Replaces
    <3> QED BY <3>1, <3>2, <3>3, Actors
  <2> QED BY <2>1, <2>2, <2>3
<1>11. ASSUME NEW r \in Req, req'[r].pc = "reuse" PROVE row'[req'[r].token].family \in Ended'
  <2>1. CASE req'[r] = req[r]
    <3>1. req[r].token \in Drawn
      BY <1>1, <1>11, <2>1 DEF RequestsRefer
    <3> QED BY <1>3, <1>5, <1>6, <1>11, <2>1, <3>1
  <2>2. CASE Serve(r) /\ Lookup(r)
    <3> DEFINE t == req[r].token
    <3>1. \A u : Rotating(r, u) \/ Following(r, u) \/ Finish(r) => req'[r].pc # "reuse"
      BY <1>1, Moves DEF Idle
    <3>2. /\ req[r].pc = "lookup" /\ t \in Stored /\ ~Live(t)
          /\ ~(req[r].now < row[t].revokedAt + Grace) /\ Goto(r, "reuse")
      BY <1>11, <2>2, <3>1 DEF Lookup
    <3>3. t \in Drawn /\ row[t].revokedAt # None
      BY <1>1, <3>2, StoreFacts
    <3>4. row[t].successor = None
      BY <1>3, <3>2
    <3>5. row[t].family \in Ended
      BY <1>3, <3>3, <3>4
    <3>6. req'[r].token = t
      BY <1>1, <3>2, Moves
    <3> QED BY <1>5, <1>6, <3>3, <3>5, <3>6
  <2>3. req'[r] = req[r] \/ (Serve(r) /\ Lookup(r))
    <3>1. CASE Serve(r) /\ Reads(r)
      <4>1. Finish(r) => req'[r].pc # "reuse"
        BY <1>1, Moves DEF Idle
      <4>2. \A t : Rotating(r, t) => req'[r].pc # "reuse"
        BY <1>1, Moves
      <4>3. Goto(r, "commit") => req'[r].pc # "reuse"
        BY <1>1, Moves
      <4> QED BY <1>11, <3>1, <4>1, <4>2, <4>3 DEF Reads, FindChild, TxSelect
    <3>2. CASE Untouched(r) \/ Visit(r)
      BY <3>2 DEF Untouched, Visit, vars
    <3>3. ~Over(r) /\ \A t \in Token : ~Founds(r, t) /\ ~Replaces(r, t)
      BY <1>11 DEF Over, Idle, Founds, Replaces
    <3>4. ~Refresh(r)
      BY <1>1, <1>11 DEF Refresh, Begin
    <3> QED BY <3>1, <3>2, <3>3, <3>4, Actors
  <2> QED BY <2>1, <2>2, <2>3
<1> QED BY <1>7, <1>9, <1>10, <1>11

-----------------------------------------------------------------------------
(* The types, and the whole. *)

LEMMA ConsoleTypeStep ==
  ASSUME Inv, [ConsoleNext]_consoleVars
  PROVE  ConsoleTypeOK'
<1>1. /\ TypeOK /\ TypeOK' /\ ConsoleTypeOK /\ ComesOnce /\ RequestsRefer
      /\ Drawn \subseteq Token /\ Drawn' \subseteq Token /\ Drawn \subseteq Drawn'
      /\ None \notin Drawn
      /\ (session # None => session.token \in Drawn)
      /\ (leaving # None => leaving \in Drawn)
      /\ revoking \in BOOLEAN /\ (revoking => leaving # None)
  BY ConsoleStore, StoreFacts, InvParts, Frame, EndedTyped DEF Inv, ConsoleInv, TypeOK
<1>2. \A t \in Drawn : row'[t].family = row[t].family
  BY Frame
<1>3. FamiliesOf(Drawn) \subseteq FamiliesOf(Drawn)'
  BY <1>1, <1>2 DEF FamiliesOf
<1>4. /\ session \in Cookie \cup {None} /\ pkce \in Key \cup {None} /\ begun \subseteq Key
      /\ visit \in [Req -> Sent \cup {None}] /\ answers \subseteq Answer
      /\ leaving \in Drawn \cup {None} /\ seen \subseteq Drawn
      /\ fault \in {"none", "late", "missed"}
      /\ ended \subseteq FamiliesOf(Drawn) /\ crossed \subseteq FamiliesOf(Drawn)
  BY <1>1 DEF ConsoleTypeOK
<1>5. session' \in Cookie \cup {None}
  <2>1. ASSUME NEW a \in answers, SetSession(a) PROVE session' \in Cookie
    BY <1>4, <2>1 DEF SetSession, Answer, Cookie
  <2> QED BY <1>4, <2>1, SessionKept
<1>6. /\ pkce' \in Key \cup {None} /\ begun' \subseteq Key
      /\ fault' \in {"none", "late", "missed"}
  BY <1>4 DEF ConsoleNext, consoleVars, browser, past, StartLogin, Callback, Visit, Refresh, Serve,
     SendAnswer, SetSession, Lose, BreakOff, LogOut, Revoke, ClearSession, Wait
<1>7. visit' \in [Req -> Sent \cup {None}]
  <2>1. ASSUME NEW r \in Req, Visit(r) PROVE visit' \in [Req -> Sent \cup {None}]
    <3>1. session \in Cookie /\ clock \in Nat
      BY <1>1, <1>4, <2>1 DEF Visit, TypeOK
    <3>2. [token |-> session.token, key |-> session.key, at |-> clock] \in Sent
      BY <3>1 DEF Cookie, Sent
    <3> QED BY <1>4, <2>1, <3>2 DEF Visit
  <2>2. ASSUME NEW r \in Req, visit' \in {visit, [visit EXCEPT ![r] = None]}
        PROVE  visit' \in [Req -> Sent \cup {None}]
    BY <1>4, <2>2
  <2>3. \/ visit' = visit
        \/ \E r \in Req : Visit(r) \/ visit' = [visit EXCEPT ![r] = None]
    BY DEF ConsoleNext, consoleVars, browser, StartLogin, Callback, Refresh, Serve,
       SendAnswer, SetSession, Lose, BreakOff, LogOut, Revoke, ClearSession, Wait
  <2> QED BY <1>4, <2>1, <2>2, <2>3
<1>8. answers' \subseteq Answer
  <2>1. ASSUME NEW r \in Req, SendAnswer(r) PROVE answers' \subseteq Answer
    <3> DEFINE b == [token |-> req[r].new, at |-> req[r].now, key |-> req[r].key,
                     login |-> req[r].cur = None]
    <3>1. req[r] \in Request /\ req[r].pc = "deliver"
      BY <1>1, <2>1 DEF SendAnswer, Deliver, TypeOK
    <3>2. req[r].new \in Drawn /\ row[req[r].new].key = req[r].key
      BY <1>1, <3>1 DEF RequestsRefer
    <3>3. req[r].new \in Token /\ req[r].key \in Key /\ req[r].now \in Nat
      BY <1>1, <3>1, <3>2 DEF TypeOK, Request, Row
    <3>4. b \in Answer
      BY <3>3 DEF Answer
    <3>5. answers' = answers \cup {b}
      BY <2>1 DEF SendAnswer
    <3> HIDE DEF b
    <3> QED BY <1>4, <3>4, <3>5
  <2>2. answers' \subseteq answers \/ \E r \in Req : SendAnswer(r)
    BY DEF ConsoleNext, consoleVars, browser, StartLogin, Callback, Visit, Refresh, Serve,
       SetSession, Lose, BreakOff, LogOut, Revoke, ClearSession, Wait
  <2> QED BY <1>4, <2>1, <2>2
<1>9. /\ leaving' \in Drawn' \cup {None} /\ revoking' \in BOOLEAN
      /\ revoking' => leaving' # None
  <2>1. CASE LogOut
    BY <1>1, <2>1 DEF LogOut
  <2>2. CASE Revoke
    BY <1>1, <1>4, <2>2 DEF Revoke
  <2>3. CASE ClearSession
    BY <1>1, <2>3 DEF ClearSession
  <2>4. ASSUME ~LogOut, ~Revoke, ~ClearSession PROVE leaving' = leaving /\ revoking' = revoking
    BY <2>4 DEF ConsoleNext, consoleVars, browser, StartLogin, Callback, Visit, Refresh, Serve,
       SendAnswer, SetSession, Lose, BreakOff, Wait
  <2> QED BY <1>1, <1>4, <2>1, <2>2, <2>3, <2>4
<1>10. seen' \subseteq Drawn'
  <2>1. ASSUME NEW a \in answers, SetSession(a) PROVE seen' \subseteq Drawn'
    BY <1>1, <1>4, <2>1 DEF SetSession, ComesOnce
  <2>2. seen' = seen \/ \E a \in answers : SetSession(a)
    BY DEF ConsoleNext, consoleVars, past, StartLogin, Callback, Visit, Refresh, Serve,
       SendAnswer, Lose, BreakOff, LogOut, Revoke, ClearSession, Wait
  <2> QED BY <1>1, <1>4, <2>1, <2>2
<1>11. ended' \subseteq FamiliesOf(Drawn)' /\ crossed' \subseteq FamiliesOf(Drawn)'
  <2>1. ASSUME NEW t \in Drawn PROVE row[t].family \in FamiliesOf(Drawn)
    BY DEF FamiliesOf
  <2>2. CASE LogOut
    <3>1. session.token \in Drawn /\ ended' = ended
          /\ crossed' \subseteq crossed \cup {row[session.token].family}
      BY <1>1, <2>2 DEF LogOut
    <3> QED BY <1>3, <1>4, <2>1, <3>1
  <2>3. CASE ClearSession
    <3>1. leaving \in Drawn /\ ended' = ended \cup {row[leaving].family} /\ crossed' = crossed
      BY <1>1, <2>3 DEF ClearSession
    <3> QED BY <1>3, <1>4, <2>1, <3>1
  <2>5. ASSUME NEW r \in Req, Visit(r)
        PROVE  ended' \subseteq FamiliesOf(Drawn)' /\ crossed' \subseteq FamiliesOf(Drawn)'
    <3>1. session.token \in Drawn /\ ended' = ended
          /\ crossed' \subseteq crossed \cup {row[session.token].family}
      BY <1>1, <2>5 DEF Visit
    <3> QED BY <1>3, <1>4, <2>1, <3>1
  <2>4. ASSUME ~LogOut, ~ClearSession, \A r \in Req : ~Visit(r)
        PROVE  ended' = ended /\ crossed' = crossed
    BY <2>4 DEF ConsoleNext, consoleVars, past, StartLogin, Callback, Refresh, Serve, SendAnswer,
       SetSession, Lose, BreakOff, Revoke, Wait
  <2> QED BY <1>3, <1>4, <2>2, <2>3, <2>4, <2>5
<1> QED BY <1>1, <1>5, <1>6, <1>7, <1>8, <1>9, <1>10, <1>11 DEF ConsoleTypeOK

LEMMA UsableStep ==
  ASSUME Inv, [ConsoleNext]_consoleVars
  PROVE  CookieUsable'
<1>1. /\ CookieUsable /\ ComesOnce /\ seen \subseteq Drawn
      /\ (session # None => session.token \in seen)
      /\ \A t \in Drawn : row'[t].key = row[t].key
  BY InvParts, Frame DEF Inv, ConsoleInv
<1>2. ASSUME NEW a \in answers, SetSession(a) PROVE CookieUsable'
  <2>1. row[a.token].key = a.key /\ row' = row /\ session'.token = a.token /\ session'.key = a.key
    BY <1>1, <1>2 DEF SetSession, ComesOnce, vars
  <2> QED BY <2>1 DEF CookieUsable
<1>3. CASE session' \in {session, None}
  BY <1>1, <1>3 DEF CookieUsable
<1> QED BY <1>2, <1>3, SessionKept

LEMMA ConsoleInitially == ConsoleInit => Inv
<1> SUFFICES ASSUME ConsoleInit PROVE Inv
  OBVIOUS
<1>1. /\ Init /\ Drawn = {} /\ Coming = {} /\ removed = {} /\ raced = {} /\ seen = {} /\ answers = {}
      /\ session = None /\ leaving = None /\ revoking = FALSE /\ ended = {} /\ crossed = {} /\ fault = "none"
      /\ \A r \in Req : visit[r] = None /\ req[r] = Idle /\ req[r].pc = "idle"
                       /\ req[r].now = 0 /\ req[r].token = None
      /\ clock = 0 /\ Delivering = {}
  BY DEF ConsoleInit, Init, Drawn, Idle, Delivering, Coming
<1>2. TypeOK /\ RequestsRefer
  BY <1>1 DEF Init, TypeOK, RequestsRefer, Drawn, Idle, Request, PC, FamiliesOf
<1>3. TableInv
  BY <1>1 DEF Init, TableInv, FamilyCoherent, SuccessorsChain, OneLiveUnlessRaced,
         ClosedStaysClosed, Drawn, Stored
<1>4. ConsoleTypeOK /\ CookieUsable
  BY <1>1, <1>2 DEF ConsoleInit, ConsoleTypeOK, CookieUsable
<1>5. \A r \in Req : Presented(r)
  BY <1>1 DEF Presented
<1>6. ComesOnce /\ FirstComes /\ OneChain /\ CookieFollows /\ NextComes
  BY <1>1 DEF ComesOnce, FirstComes, OneAtFirst, LoginsFirst, OthersCome, OneChain, CookieFollows, NextComes
<1>7. EndedIsDead /\ LastOne /\ Going \subseteq Drawn \cup {None}
  <2>1. \A r \in Req : req[r].new = None
    BY <1>1 DEF Idle
  <2> QED BY <1>1, <2>1 DEF EndedIsDead, Ended, FamiliesOf, LastOne, Going
<1>8. InTime
  BY <1>1 DEF InTime, Late
<1>9. InGrace
  BY <1>1 DEF InGrace
<1> QED BY <1>1, <1>2, <1>3, <1>4, <1>5, <1>6, <1>7, <1>8, <1>9 DEF Inv, ConsoleInv

LEMMA ConsoleInvStep ==
  ASSUME Inv, [ConsoleNext]_consoleVars
  PROVE  Inv'
<1>1. /\ RequestsRefer' /\ TableInv' /\ removed' = {}
  BY ConsoleStore
<1>2. ConsoleTypeOK' /\ CookieUsable'
  BY ConsoleTypeStep, UsableStep
<1>3. \A r \in Req : Presented(r)'
  BY PresentedStep
<1>4. ComesOnce' /\ FirstComes' /\ OneChain' /\ CookieFollows' /\ EndedIsDead'
  BY ComesOnceStep, FirstComesStep, OneChainStep, CookieFollowsStep, EndedStep
<1>6. LastOne' /\ (Going \subseteq Drawn \cup {None})'
  BY LastOneStep, GoingStep
<1>5. NextComes' /\ InTime' /\ InGrace'
  BY NextComesStep, InTimeStep, InGraceStep
<1> QED BY <1>1, <1>2, <1>3, <1>4, <1>5, <1>6 DEF Inv, ConsoleInv

\* The invariant holds however logins, refreshes, answers, losses and logouts of the
\* browser's tabs interleave.
THEOREM ConsoleCorrect == ConsoleSpec => []Inv
<1>1. Inv /\ [ConsoleNext]_consoleVars => Inv'
  BY ConsoleInvStep
<1>2. QED
  BY <1>1, ConsoleInitially, PTL DEF ConsoleSpec

\* Every variable of the console keeps its type; what the histories name was drawn.
THEOREM ConsoleTyped == ConsoleSpec => []ConsoleTypeOK
<1>1. Inv => ConsoleTypeOK
  BY DEF Inv, ConsoleInv
<1>2. QED
  BY <1>1, ConsoleCorrect, PTL

\* The cookie never holds a token with another login's key pair, so no refresh of the
\* console is refused for its DPoP proof.
THEOREM CookieStaysUsable == ConsoleSpec => []CookieUsable
<1>1. Inv => CookieUsable
  BY DEF Inv, ConsoleInv
<1>2. QED
  BY <1>1, ConsoleCorrect, PTL

\* Reuse detection never strikes a session of the console that runs refreshes at the
\* same time, as long as nothing is lost, late or overtaken, and it is not logged out.
THEOREM ConcurrencyAbsorbed == ConsoleSpec => []GraceAbsorbsConcurrency
<1>1. Inv => GraceAbsorbsConcurrency
  BY DEF Inv, ConsoleInv, InGrace, Ended, GraceAbsorbsConcurrency
<1>2. QED
  BY <1>1, ConsoleCorrect, PTL

\* A session logged out of has no live token, but for refreshes under way meanwhile,
\* raced rotations and tokens the browser missed.
THEOREM LogoutIsFinal == ConsoleSpec => []LogoutEndsFamily
<1>1. Inv => LogoutEndsFamily
  <2>1. ended \subseteq Ended
    BY DEF Ended
  <2> QED BY <2>1 DEF Inv, ConsoleInv, EndedIsDead, LogoutEndsFamily
<1>2. QED
  BY <1>1, ConsoleCorrect, PTL

\* The store behind the console keeps its own promises.
THEOREM ConsoleStoreCorrect == ConsoleSpec => [](TypeOK /\ RequestsRefer /\ TableInv)
<1>1. Inv => TypeOK /\ RequestsRefer /\ TableInv
  BY DEF Inv, ConsoleInv, ConsoleTypeOK
<1>2. QED
  BY <1>1, ConsoleCorrect, PTL
=============================================================================
