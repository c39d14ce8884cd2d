---------------------------- MODULE SignIn_proofs ----------------------------
(***************************************************************************)
(* Theorems about SignIn, for any accounts, any number of logins beside    *)
(* that of the tab, and any window, limit and rate of failures.  The       *)
(* throttle comes first, then how the tab moves from page to page, and at  *)
(* last the other actions, group by group.                                 *)
(***************************************************************************)
EXTENDS SignIn, FiniteSetTheorems, TLAPS

-----------------------------------------------------------------------------
(* The throttle *)

Rows(f) == {x \in Age \X (1..MaxPerTick) : x[2] <= f[x[1]]}
Verifying(p) == {r \in Req : p[r] = "verify"}

ThrottleNext ==
  (\E r \in Req : Admit(r) \/ Refuse(r) \/ Fail(r) \/ Leave(r)) \/ Tick

LEMMA RowsFinite == \A f : IsFiniteSet(Rows(f)) /\ Cardinality(Rows(f)) \in Nat
<1> TAKE f
<1>1. IsFiniteSet(Age) /\ IsFiniteSet(1..MaxPerTick)
  BY FS_Interval, SizeAssumption DEF Age
<1>2. IsFiniteSet(Age \X (1..MaxPerTick))
  BY <1>1, FS_Product
<1>3. IsFiniteSet(Rows(f))
  BY <1>2, FS_Subset DEF Rows
<1> QED BY <1>3, FS_CardinalityType

LEMMA VerifyingFinite ==
  \A p : /\ IsFiniteSet(Verifying(p)) /\ Cardinality(Verifying(p)) \in Nat
         /\ Cardinality(Verifying(p)) <= Cardinality(Req)
         /\ Cardinality(Req) \in Nat
BY ReqAssumption, FS_Subset, FS_CardinalityType DEF Verifying

\* A failure that is recorded is one row more.
LEMMA OneMore ==
  ASSUME TypeOK, failures[0] < MaxPerTick, failures' = [failures EXCEPT ![0] = @ + 1]
  PROVE  Cardinality(Rows(failures')) = Cardinality(Rows(failures)) + 1
<1> DEFINE x == <<0, failures[0] + 1>>
<1>1. 0 \in Age
  BY SizeAssumption DEF Age
<1>2. failures[0] \in 0..MaxPerTick
  BY <1>1 DEF TypeOK
<1>3. Rows(failures') = Rows(failures) \cup {x}
  <2>1. ASSUME NEW y \in Age \X (1..MaxPerTick)
        PROVE  y \in Rows(failures') <=> (y \in Rows(failures) \/ y = x)
    <3>1. y = <<y[1], y[2]>> /\ y[1] \in Age /\ y[2] \in 1..MaxPerTick
      OBVIOUS
    <3>2. CASE y[1] = 0
      BY <1>1, <1>2, <3>1, <3>2, SizeAssumption DEF Rows, TypeOK
    <3>3. CASE y[1] # 0
      BY <1>1, <3>1, <3>3 DEF Rows, TypeOK
    <3> QED BY <3>2, <3>3
  <2>2. x \in Age \X (1..MaxPerTick)
    BY <1>1, <1>2, SizeAssumption
  <2> QED BY <2>1, <2>2 DEF Rows
<1>4. x \notin Rows(failures)
  BY <1>2 DEF Rows
<1> HIDE DEF x
<1> QED BY <1>3, <1>4, RowsFinite, FS_AddElement

\* Growing old only loses rows.
LEMMA NoneMore ==
  ASSUME TypeOK, Tick
  PROVE  Cardinality(Rows(failures')) <= Cardinality(Rows(failures))
<1> DEFINE older == [x \in Rows(failures') |-> <<x[1] - 1, x[2]>>]
<1>1. ASSUME NEW x \in Rows(failures')
      PROVE  /\ x = <<x[1], x[2]>> /\ x[1] - 1 \in Age /\ x[1] \in Int
             /\ <<x[1] - 1, x[2]>> \in Rows(failures)
  <2>1. x = <<x[1], x[2]>> /\ x[1] \in Age /\ x[2] \in 1..MaxPerTick
    BY DEF Rows
  <2>2. x[2] <= (IF x[1] = 0 THEN 0 ELSE failures[x[1] - 1])
    BY <2>1 DEF Rows, Tick
  <2>3. x[1] # 0 /\ x[2] <= failures[x[1] - 1]
    BY <2>1, <2>2, SizeAssumption
  <2>4. x[1] - 1 \in Age /\ x[1] \in Int
    BY <2>1, <2>3, SizeAssumption DEF Age
  <2> QED BY <2>1, <2>3, <2>4 DEF Rows
<1>2. older \in Injection(Rows(failures'), Rows(failures))
  <2>1. older \in [Rows(failures') -> Rows(failures)]
    BY <1>1
  <2>2. ASSUME NEW x \in Rows(failures'), NEW y \in Rows(failures'), older[x] = older[y]
        PROVE  x = y
    <3>1. <<x[1] - 1, x[2]>> = <<y[1] - 1, y[2]>>
      BY <2>2
    <3> DEFINE i == x[1] - 1
               j == y[1] - 1
    <3>2. i = j /\ x[2] = y[2]
      <4> HIDE DEF i, j
      <4>1. <<i, x[2]>> = <<j, y[2]>>
        BY <3>1 DEF i, j
      <4> QED BY <4>1
    <3>3. x[1] \in Int /\ y[1] \in Int /\ x = <<x[1], x[2]>> /\ y = <<y[1], y[2]>>
      BY <1>1
    <3>4. x[1] = y[1]
      BY <3>2, <3>3
    <3> QED BY <3>2, <3>3, <3>4, Zenon
  <2> QED BY <2>1, <2>2 DEF Injection, IsInjective
<1> HIDE DEF older
<1> QED BY <1>2, RowsFinite, FS_Injection

LEMMA ThrottleStep ==
  ASSUME TypeOK, GuessesLeft, [ThrottleNext]_vars
  PROVE  TypeOK' /\ GuessesLeft'
<1> DEFINE n == Cardinality(Rows(failures))
           v == Cardinality(Verifying(pc))
           all == Cardinality(Req)
<1>1. /\ n \in Nat /\ Cardinality(Rows(failures')) \in Nat
      /\ v \in Nat /\ all \in Nat
      /\ Cardinality(Verifying(pc')) \in Nat /\ Cardinality(Verifying(pc')) <= all
  BY RowsFinite, VerifyingFinite
<1>2. n + v <= Free + all - 1 /\ Recent = n
  BY DEF GuessesLeft, Recent, Rows, Verifying
<1>3. GuessesLeft' <=> Cardinality(Rows(failures')) + Cardinality(Verifying(pc')) <= Free + all - 1
  BY DEF GuessesLeft, Recent, Rows, Verifying
<1>4. Free \in Nat /\ 0 \in Age
  BY SizeAssumption DEF Age
<1> HIDE DEF n, v, all
<1>5. ASSUME NEW r \in Req, Admit(r) PROVE TypeOK' /\ GuessesLeft'
  <2>1. Rows(failures') = Rows(failures) /\ n < Free
    BY <1>5, <1>2 DEF Admit, Admits
  <2>2. Cardinality(Rows(failures')) = n
    BY <2>1 DEF n
  <2>3. n + Cardinality(Verifying(pc')) <= Free + all - 1
    BY <2>1, <1>1, <1>4
  <2> QED BY <2>2, <2>3, <1>3, <1>5 DEF Admit, TypeOK
<1>6. ASSUME NEW r \in Req, Fail(r) \/ Leave(r)
      PROVE  /\ pc' \in [Req -> {"idle", "verify"}]
             /\ Cardinality(Verifying(pc')) = v - 1
  <2>1. /\ pc[r] = "verify" /\ pc' = [pc EXCEPT ![r] = "idle"]
    BY <1>6 DEF Fail, Leave
  <2>2. Verifying(pc') = Verifying(pc) \ {r} /\ r \in Verifying(pc)
    BY <2>1 DEF Verifying, TypeOK
  <2>3. Cardinality(Verifying(pc')) = v - 1
    BY <2>2, VerifyingFinite, FS_RemoveElement DEF v
  <2> QED BY <2>1, <2>3 DEF TypeOK
<1>7. ASSUME NEW r \in Req, Fail(r) PROVE TypeOK' /\ GuessesLeft'
  <2>1. Cardinality(Rows(failures')) = n + 1
    BY <1>7, OneMore DEF Fail, n
  <2>2. GuessesLeft'
    BY <2>1, <1>6, <1>7, <1>1, <1>2, <1>3, <1>4
  <2>3. failures' \in [Age -> 0..MaxPerTick]
    BY <1>7, <1>4, SizeAssumption DEF Fail, TypeOK
  <2> QED BY <2>2, <2>3, <1>6, <1>7 DEF TypeOK
<1>8. ASSUME NEW r \in Req, Leave(r) PROVE TypeOK' /\ GuessesLeft'
  <2>1. failures' = failures
    BY <1>8 DEF Leave
  <2>2. Cardinality(Rows(failures')) = n
    BY <2>1 DEF n
  <2>3. GuessesLeft'
    BY <2>2, <1>6, <1>8, <1>1, <1>2, <1>3, <1>4
  <2> QED BY <2>1, <2>3, <1>6, <1>8 DEF TypeOK
<1>9. ASSUME Tick PROVE TypeOK' /\ GuessesLeft'
  <2>1. Cardinality(Rows(failures')) <= n /\ pc' = pc
    BY <1>9, NoneMore DEF n, Tick
  <2>2. Cardinality(Verifying(pc')) = v
    BY <2>1 DEF v
  <2>3. GuessesLeft'
    BY <2>1, <2>2, <1>1, <1>2, <1>3, <1>4
  <2>4. failures' \in [Age -> 0..MaxPerTick]
    <3>1. ASSUME NEW a \in Age
          PROVE  (IF a = 0 THEN 0 ELSE failures[a - 1]) \in 0..MaxPerTick
      <4>1. a # 0 => a - 1 \in Age
        BY SizeAssumption DEF Age
      <4> QED BY <4>1, SizeAssumption DEF TypeOK
    <3> QED BY <3>1, <1>9 DEF Tick
  <2> QED BY <2>1, <2>3, <2>4 DEF TypeOK
<1>10. ASSUME UNCHANGED vars PROVE TypeOK' /\ GuessesLeft'
  <2>1. failures' = failures /\ pc' = pc
    BY <1>10 DEF vars
  <2>2. Cardinality(Rows(failures')) = n /\ Cardinality(Verifying(pc')) = v
    BY <2>1 DEF n, v
  <2> QED BY <2>1, <2>2, <1>2, <1>3 DEF TypeOK
<1> QED BY <1>5, <1>7, <1>8, <1>9, <1>10 DEF ThrottleNext, Refuse

-----------------------------------------------------------------------------
(* The pages *)

WebShape ==
  /\ keys \subseteq User /\ enrolled \in BOOLEAN
  /\ adrift \subseteq [op : {"register", "delete"}, user : User]
  /\ cookie \in User \cup {None} /\ alive \in BOOLEAN
  /\ page \in Pages /\ back \in Backs /\ profile \in User \cup {None} /\ effect \in BOOLEAN
  /\ sent \in Backs \cup {None}
  /\ prompt \in [by : By, to : Backs] \cup {None}
  /\ verify \in [By -> [user : User, to : Backs] \cup {None}]
  /\ leaving \in {"no", "asked", "done"} /\ landed \subseteq Answer
  /\ nav \in Visit \cup {None} /\ load \in Visit \cup {None}
  /\ list \in (SUBSET User) \cup {None} /\ fresh \in BOOLEAN
  /\ asked \in Query \cup {None} /\ change \in Change \cup {None} /\ dismissed \in BOOLEAN
  /\ behind \in BOOLEAN /\ astray \in BOOLEAN

Waiting == sent # None => pc[Tab] = "verify"

Pending == change # None /\ change.done

WebInv == WebShape /\ OnTheWay /\ ListOwn

LEMMA AskedAnew == \A u \in User \cup {None} : [user |-> u, read |-> None] \in Query
<1> TAKE u \in User \cup {None}
<1> DEFINE R == (SUBSET User) \cup {None}
<1>1. None \in R
  OBVIOUS
<1> HIDE DEF R
<1>2. [user |-> u, read |-> None] \in [user : User \cup {None}, read : R]
  BY <1>1
<1> QED BY <1>2 DEF R, Query

\* A session stays on its way while nothing moves the tab.
LEMMA NotMoved ==
  ASSUME OnTheWay, UNCHANGED <<page, profile, landed, nav, astray>>, cookie' \in {cookie, None}
  PROVE  OnTheWay'
BY DEF OnTheWay

\* The list stays its account's while it is not asked for, does not arrive and is not
\* changed; what is pending may only grow.
LEMMA NotListed ==
  ASSUME ListOwn, UNCHANGED <<keys, page, profile, list, asked, behind>>, Pending => Pending'
  PROVE  ListOwn'
<1>1. Mine(profile)' = Mine(profile)
  BY DEF Mine
<1> QED BY <1>1 DEF ListOwn, Pending

\* A page asked for is one there is, and an account page that of the session in the cookie.
LEMMA Asking ==
  ASSUME WebShape, NEW p \in {"login", "mfa", "setup", "account"}, NEW b \in Backs
  PROVE  /\ Requested(p, b) \in Visit
         /\ Requested(p, b).page = "account" => Requested(p, b).user = cookie
<1> DEFINE q == Middleware(p, cookie)
           at == IF q = "account" /\ ~alive THEN "failed" ELSE q
           to == CASE q = "login" /\ p # "login" -> p
                   [] q \in {"account", "mfa"} -> "account"
                   [] OTHER -> b
           who == IF q = "account" THEN cookie ELSE None
<1>1. q \in {"login", "mfa", "setup", "account"}
  BY DEF Middleware
<1>2. at \in Pages /\ to \in Backs /\ who \in User \cup {None}
  <2>1. at \in Pages
    BY <1>1 DEF Pages
  <2>2. to \in Backs
    BY <1>1 DEF Backs
  <2>3. who \in User \cup {None}
    BY DEF WebShape
  <2> QED BY <2>1, <2>2, <2>3
<1>3. Requested(p, b) = [page |-> at, back |-> to, user |-> who]
  BY DEF Requested
<1>4. at = "account" => who = cookie
  OBVIOUS
<1> HIDE DEF at, to, who
<1> QED BY <1>2, <1>3, <1>4 DEF Visit

\* Whoever calls the router puts the session on its way.
LEMMA Pushing ==
  ASSUME WebShape, NEW p \in {"login", "mfa", "setup", "account"}, NEW b \in Backs,
         Push(p, b), cookie' = cookie
  PROVE  nav' \in Visit /\ astray' = FALSE /\ OnTheWay'
<1>1. nav' \in Visit /\ (nav'.page = "account" => nav'.user = cookie) /\ astray' = FALSE
  BY Asking DEF Push
<1>2. nav' # None
  BY <1>1, NoneAssumption
<1> QED BY <1>1, <1>2 DEF OnTheWay

\* What is shown in the end is a page there is.
LEMMA Showing ==
  ASSUME NEW v \in Visit, NEW q \in Rendered(v)
  PROVE  q \in Pages /\ v.back \in Backs /\ v.user \in User \cup {None}
         /\ (q = "account" => v.page = "account")
BY DEF Visit, Rendered, Pages

MoveNext ==
  \/ Show \/ Loaded
  \/ \E p \in {"login", "mfa", "setup", "account"} : Open(p)
  \/ \E m \in landed : GoOn(m) \/ CutOff(m)

\* The list asked for when an account page is shown is its account's, or it is behind.
LEMMA ListAsked ==
  ASSUME WebShape, NEW u \in User \cup {None},
         page' = "account" => profile' = u,
         page' = "account" /\ ~behind' =>
           asked' = [user |-> cookie, read |-> None] /\ cookie \in {u, None}
  PROVE  ListOwn'
<1>1. SUFFICES ASSUME page' = "account", ~behind' PROVE ListOwn'
  BY DEF ListOwn
<1>2. asked' = [user |-> cookie, read |-> None] /\ cookie \in {profile', None}
  BY <1>1
<1>3. asked' # None
  BY <1>2, AskedAnew, NoneAssumption DEF WebShape
<1> QED BY <1>2, <1>3 DEF ListOwn

LEMMA ShowKeeps == ASSUME WebInv, Show PROVE WebInv' /\ UNCHANGED <<vars, sent>>
<1> USE DEF WebInv
<1>1. /\ UNCHANGED <<vars, keys, enrolled, adrift, cookie, alive, sent, verify, landed, load, astray,
                     list, fresh, change, dismissed>>
      /\ nav \in Visit /\ nav # None /\ nav' = None
  BY DEF Show, server, session, WebShape
<1>2. PICK q \in Rendered(nav) :
        /\ page' = q /\ back' = nav.back
        /\ profile' = IF q = "account" THEN nav.user ELSE None
        /\ effect' = \/ q \in {"login", "setup"} /\ (q # page \/ effect)
                     \/ q = "setup" /\ nav.back # back
        /\ prompt' = IF prompt # None /\ q # "login" /\ prompt.by = "autofill" THEN None ELSE prompt
        /\ leaving' = IF leaving = "done" /\ q # "account" THEN "no" ELSE leaving
        /\ asked' = IF Asks(q) THEN [user |-> cookie, read |-> None] ELSE asked
        /\ behind' = (q = "account" /\ (~Asks(q) \/ cookie \notin {nav.user, None}))
  BY DEF Show
<1>3. /\ q \in Pages /\ nav.back \in Backs /\ nav.user \in User \cup {None}
      /\ q = "account" => nav.page = "account"
  BY <1>1, Showing
<1>4. WebShape'
  <2>1. profile' \in User \cup {None} /\ effect' \in BOOLEAN /\ behind' \in BOOLEAN
    BY <1>2, <1>3
  <2>2. prompt' \in [by : By, to : Backs] \cup {None}
    <3>1. prompt' \in {prompt, None}
      BY <1>2
    <3> QED BY <3>1, Zenon DEF WebShape
  <2>3. leaving' \in {"no", "asked", "done"}
    BY <1>2 DEF WebShape
  <2>4. asked' \in Query \cup {None}
    <3>1. [user |-> cookie, read |-> None] \in Query /\ asked \in Query \cup {None}
      BY AskedAnew DEF WebShape
    <3>2. asked' = asked \/ asked' = [user |-> cookie, read |-> None]
      BY <1>2
    <3> QED BY <3>1, <3>2, Zenon
  <2> QED BY <1>1, <1>2, <1>3, <2>1, <2>2, <2>3, <2>4 DEF WebShape
<1>5. OnTheWay'
  <2>1. page' = "account" => profile' = nav.user /\ nav.page = "account"
    BY <1>2, <1>3
  <2> QED BY <1>1, <2>1 DEF OnTheWay
<1>6. ListOwn'
  <2>1. page' = "account" => profile' = nav.user
    BY <1>2
  <2>2. page' = "account" /\ ~behind' =>
          asked' = [user |-> cookie, read |-> None] /\ cookie \in {nav.user, None}
    BY <1>2
  <2> QED BY <1>3, <2>1, <2>2, ListAsked
<1> QED BY <1>1, <1>4, <1>5, <1>6

LEMMA Leftover == WebShape => Unanswered \subseteq [op : {"register", "delete"}, user : User]
BY DEF WebShape, Unanswered, Change

LEMMA LoadedKeeps ==
  ASSUME WebInv, Loaded
  PROVE  WebInv' /\ UNCHANGED vars /\ sent' = None
<1> USE DEF WebInv
<1>1. /\ UNCHANGED <<vars, keys, enrolled, cookie, alive, dismissed>>
      /\ load \in Visit /\ load' = None /\ nav' = None /\ landed' = {}
      /\ sent' = None /\ verify' = [by \in By |-> None] /\ leaving' = "no" /\ prompt' = None
      /\ list' = None /\ fresh' = FALSE /\ change' = None /\ adrift' = adrift \cup Unanswered
  BY DEF Loaded, session, WebShape
<1>2. PICK q \in Rendered(load) :
        /\ page' = q /\ back' = load.back
        /\ profile' = IF q = "account" THEN load.user ELSE None
        /\ effect' = (q \in {"login", "setup"})
        /\ asked' = IF q \in {"setup", "account"} THEN [user |-> cookie, read |-> None] ELSE None
        /\ behind' = (q = "account" /\ cookie \notin {load.user, None})
        /\ astray' = (q = "account" /\ load.user # cookie)
  BY DEF Loaded
<1>3. q \in Pages /\ load.back \in Backs /\ load.user \in User \cup {None}
  BY <1>1, Showing
<1>4. WebShape'
  <2>1. profile' \in User \cup {None}
    BY <1>2, <1>3
  <2>2. effect' \in BOOLEAN /\ behind' \in BOOLEAN /\ astray' \in BOOLEAN
    BY <1>2
  <2>3. asked' \in Query \cup {None}
    <3>1. [user |-> cookie, read |-> None] \in Query
      BY AskedAnew DEF WebShape
    <3>2. asked' = None \/ asked' = [user |-> cookie, read |-> None]
      BY <1>2
    <3> QED BY <3>1, <3>2, Zenon
  <2>4. adrift' \subseteq [op : {"register", "delete"}, user : User]
    BY <1>1, Leftover, Zenon DEF WebShape
  <2>5. verify' \in [By -> [user : User, to : Backs] \cup {None}]
    BY <1>1
  <2> QED BY <1>1, <1>2, <1>3, <2>1, <2>2, <2>3, <2>4, <2>5 DEF WebShape
<1>5. OnTheWay'
  <2>1. ASSUME page' = "account", ~astray' PROVE profile' = cookie'
    BY <1>1, <1>2, <2>1
  <2> QED BY <1>1, <2>1 DEF OnTheWay
<1>6. ListOwn'
  <2>1. page' = "account" => profile' = load.user
    BY <1>2
  <2>2. page' = "account" /\ ~behind' =>
          asked' = [user |-> cookie, read |-> None] /\ cookie \in {load.user, None}
    BY <1>2
  <2> QED BY <1>3, <2>1, <2>2, ListAsked
<1> QED BY <1>1, <1>4, <1>5, <1>6

LEMMA MoveStep ==
  ASSUME WebInv, MoveNext
  PROVE  WebInv' /\ UNCHANGED vars /\ sent' \in {sent, None}
<1>1. CASE Show
  BY <1>1, ShowKeeps
<1>2. CASE Loaded
  BY <1>2, LoadedKeeps
<1> USE DEF WebInv
<1>3. ASSUME NEW p \in {"login", "mfa", "setup", "account"}, Open(p)
      PROVE  WebInv' /\ UNCHANGED vars /\ sent' \in {sent, None}
  <2>1. /\ UNCHANGED <<vars, keys, enrolled, adrift, cookie, alive, page, back, profile, effect, list,
                       fresh, asked, behind, sent, verify, leaving, landed, nav, astray, prompt,
                       change, dismissed>>
        /\ load' = Requested(p, "account")
    BY <1>3 DEF Open, server, session, screen, query, requests
  <2>2. load' \in Visit
    BY <2>1, Asking DEF Backs
  <2>3. WebShape'
    BY <2>1, <2>2 DEF WebShape
  <2>4. OnTheWay' /\ ListOwn'
    BY <2>1, NotMoved, NotListed DEF Pending
  <2> QED BY <2>1, <2>3, <2>4
<1>4. ASSUME NEW m \in landed, GoOn(m)
      PROVE  WebInv' /\ UNCHANGED vars /\ sent' \in {sent, None}
  <2>1. /\ UNCHANGED <<vars, keys, enrolled, adrift, cookie, alive, page, back, profile, effect, list,
                       fresh, asked, behind, sent, verify, leaving, load, prompt, change, dismissed>>
        /\ landed' = landed \ {m} /\ Push(m.to, m.back)
    BY <1>4 DEF GoOn, server, session, screen, query, requests
  <2>2. m.to \in {"login", "mfa", "setup", "account"} /\ m.back \in Backs
    BY DEF WebShape, Answer, Backs
  <2>3. nav' \in Visit /\ astray' = FALSE /\ OnTheWay'
    BY <2>1, <2>2, Pushing
  <2>4. WebShape'
    <3>1. nav' \in Visit \cup {None} /\ astray' \in BOOLEAN
      BY <2>3
    <3> QED BY <2>1, <3>1 DEF WebShape
  <2>5. ListOwn'
    BY <2>1, NotListed DEF Pending
  <2> QED BY <2>1, <2>3, <2>4, <2>5
<1>5. ASSUME NEW m \in landed, CutOff(m)
      PROVE  WebInv' /\ UNCHANGED vars /\ sent' \in {sent, None}
  <2>1. /\ UNCHANGED <<vars, keys, enrolled, adrift, cookie, alive, page, back, profile, effect, list,
                       fresh, asked, behind, sent, verify, nav, load, prompt, change, dismissed>>
        /\ landed' = landed \ {m} /\ astray' = (astray \/ m.by \in SignIns)
        /\ leaving' \in {"no", leaving}
    BY <1>5 DEF CutOff, server, session, screen, query
  <2>2. astray' \in BOOLEAN /\ leaving' \in {"no", "asked", "done"}
    BY <2>1 DEF WebShape
  <2>3. WebShape'
    BY <2>1, <2>2 DEF WebShape
  <2>4. OnTheWay'
    <3>1. SUFFICES ASSUME cookie' # None, ~astray' PROVE OnTheWay'
      BY DEF OnTheWay
    <3>2. ~astray /\ m.by \notin SignIns
      BY <2>1, <3>1
    <3> QED BY <2>1, <3>1, <3>2 DEF OnTheWay
  <2>5. ListOwn'
    BY <2>1, NotListed DEF Pending
  <2> QED BY <2>1, <2>3, <2>4, <2>5
<1> QED BY <1>1, <1>2, <1>3, <1>4, <1>5 DEF MoveNext

\* An answer that brings a cookie, or none, and will move the tab.
LEMMA Landing ==
  ASSUME NEW by \in SignIns \cup {"challenge", "logout"}, NEW to \in Backs \cup {"login"},
         NEW b \in Backs, landed \subseteq Answer,
         landed' = landed \cup {[by |-> by, to |-> to, back |-> b]}
  PROVE  /\ landed' \subseteq Answer /\ landed \subseteq landed'
         /\ by \in SignIns => \E m \in landed' : m.by \in SignIns
<1> DEFINE x == [by |-> by, to |-> to, back |-> b]
<1>1. x \in Answer /\ x.by = by
  BY DEF Answer
<1> HIDE DEF x
<1> QED BY <1>1 DEF x

-----------------------------------------------------------------------------
(* The password form *)

PasswordNext ==
  SubmitPassword \/ WrongPassword \/ RightPassword \/ SubmitCode \/ Elsewhere \/ TimePasses

LEMMA PasswordStep ==
  ASSUME WebInv, PasswordNext
  PROVE  WebInv' /\ [ThrottleNext]_vars
<1> USE DEF WebInv
<1>1. CASE SubmitPassword \/ WrongPassword
  <2>1. /\ UNCHANGED <<keys, enrolled, adrift, cookie, alive, page, back, profile, effect, list, fresh,
                       asked, behind, verify, leaving, landed, nav, load, astray, prompt, change,
                       dismissed>>
        /\ sent' \in {back, None}
    BY <1>1 DEF SubmitPassword, WrongPassword, server, session, screen, query, moves
  <2>2. sent' \in Backs \cup {None}
    BY <2>1, Zenon DEF WebShape
  <2>3. WebShape'
    BY <2>1, <2>2 DEF WebShape
  <2>4. OnTheWay' /\ ListOwn'
    BY <2>1, NotMoved, NotListed DEF Pending
  <2>5. ThrottleNext
    BY <1>1, TabAssumption DEF SubmitPassword, WrongPassword, ThrottleNext
  <2> QED BY <2>3, <2>4, <2>5
<1>2. CASE RightPassword
  <2>1. ThrottleNext
    BY <1>2, TabAssumption DEF RightPassword, ThrottleNext
  <2>2. /\ UNCHANGED <<keys, enrolled, adrift, page, back, profile, effect, list, fresh, asked, behind,
                       verify, leaving, nav, load, astray, prompt, change, dismissed>>
        /\ sent \in Backs /\ sent' = None
    BY <1>2 DEF RightPassword, WebShape, server, screen, query
  <2>3. ListOwn'
    BY <2>2, NotListed DEF Pending
  <2>4. CASE /\ UNCHANGED session
             /\ landed' = landed \cup {[by |-> "challenge", to |-> "mfa", back |-> sent]}
    <3>1. landed' \subseteq Answer /\ landed \subseteq landed'
      BY <2>2, <2>4, Landing DEF Backs, WebShape
    <3>2. cookie' = cookie /\ alive' = alive
      BY <2>4 DEF session
    <3>3. WebShape'
      BY <2>2, <3>1, <3>2 DEF WebShape
    <3>4. OnTheWay'
      BY <2>2, <3>1, <3>2 DEF OnTheWay
    <3> QED BY <2>1, <2>3, <3>3, <3>4
  <2>5. CASE /\ cookie' = Target /\ alive' = TRUE
             /\ landed' = landed \cup {[by |-> "password", to |-> "setup", back |-> sent]}
    <3>1. landed' \subseteq Answer /\ \E m \in landed' : m.by \in SignIns
      BY <2>2, <2>5, Landing DEF Backs, WebShape, SignIns
    <3>2. WebShape'
      BY <2>2, <2>5, <3>1, TabAssumption DEF WebShape
    <3>3. OnTheWay'
      BY <3>1 DEF OnTheWay
    <3> QED BY <2>1, <2>3, <3>2, <3>3
  <2>6. CASE UNCHANGED <<session, landed>>
    <3>1. UNCHANGED <<cookie, alive, landed>>
      BY <2>6 DEF session
    <3>2. WebShape'
      BY <2>2, <3>1 DEF WebShape
    <3>3. OnTheWay'
      BY <2>2, <3>1, NotMoved
    <3> QED BY <2>1, <2>3, <3>2, <3>3
  <2> QED BY <1>2, <2>4, <2>5, <2>6 DEF RightPassword
<1>3. CASE SubmitCode \/ Elsewhere \/ TimePasses
  <2>1. UNCHANGED <<keys, enrolled, adrift, cookie, alive, page, back, profile, effect, sent, prompt,
                    verify, leaving, landed, nav, load, list, fresh, asked, change, dismissed, behind,
                    astray>>
    BY <1>3 DEF SubmitCode, allVars, Elsewhere, TimePasses, web, server, session, screen, query,
                requests, moves
  <2>2. WebShape'
    BY <2>1 DEF WebShape
  <2>3. OnTheWay' /\ ListOwn'
    BY <2>1, NotMoved, NotListed DEF Pending
  <2>4. [ThrottleNext]_vars
    BY <1>3 DEF SubmitCode, allVars, Elsewhere, TimePasses, ThrottleNext
  <2> QED BY <2>2, <2>3, <2>4
<1> QED BY <1>1, <1>2, <1>3 DEF PasswordNext

-----------------------------------------------------------------------------
(* Passkeys at the login page *)

CeremonyNext ==
  \/ StartAutofill \/ PressButton \/ CancelPrompt
  \/ \E u \in User : Pick(u)
  \/ \E by \in By : SignedIn(by) \/ NotSignedIn(by)

LEMMA CeremonyStep ==
  ASSUME WebInv, CeremonyNext
  PROVE  WebInv' /\ UNCHANGED <<vars, sent>>
<1> USE DEF WebInv
<1>1. CASE StartAutofill \/ PressButton \/ CancelPrompt
  <2>1. /\ UNCHANGED <<vars, keys, enrolled, adrift, cookie, alive, page, back, profile, list, fresh,
                       asked, behind, sent, verify, leaving, landed, nav, load, astray, change,
                       dismissed>>
        /\ effect' \in {effect, FALSE}
        /\ prompt' \in {[by |-> "autofill", to |-> "account"], [by |-> "button", to |-> back], None}
    BY <1>1 DEF StartAutofill, PressButton, CancelPrompt, server, session, screen, query, requests,
                moves
  <2>2. prompt' \in [by : By, to : Backs] \cup {None}
    <3>1. back \in Backs /\ "account" \in Backs
      BY DEF Backs, WebShape
    <3>2. /\ [by |-> "autofill", to |-> "account"] \in [by : By, to : Backs]
          /\ [by |-> "button", to |-> back] \in [by : By, to : Backs]
      BY <3>1 DEF By
    <3>3. \/ prompt' = [by |-> "autofill", to |-> "account"]
          \/ prompt' = [by |-> "button", to |-> back] \/ prompt' = None
      BY <2>1
    <3> QED BY <3>2, <3>3, Zenon
  <2>3. WebShape'
    <3>1. effect' \in BOOLEAN
      BY <2>1, Zenon DEF WebShape
    <3> QED BY <2>1, <2>2, <3>1 DEF WebShape
  <2>4. OnTheWay' /\ ListOwn'
    BY <2>1, NotMoved, NotListed DEF Pending
  <2> QED BY <2>1, <2>3, <2>4
<1>2. ASSUME NEW u \in User, Pick(u) PROVE WebInv' /\ UNCHANGED <<vars, sent>>
  <2>1. /\ UNCHANGED <<vars, keys, enrolled, adrift, cookie, alive, page, back, profile, effect, list,
                       fresh, asked, behind, sent, leaving, landed, nav, load, astray, change,
                       dismissed>>
        /\ prompt' = None /\ prompt # None
        /\ verify' = [verify EXCEPT ![prompt.by] = [user |-> u, to |-> prompt.to]]
    BY <1>2 DEF Pick, server, session, screen, query, moves
  <2>2. prompt.by \in By /\ prompt.to \in Backs
    BY <2>1 DEF WebShape
  <2>3. verify' \in [By -> [user : User, to : Backs] \cup {None}]
    BY <2>1, <2>2 DEF WebShape
  <2>4. WebShape'
    BY <2>1, <2>3 DEF WebShape
  <2>5. OnTheWay' /\ ListOwn'
    BY <2>1, NotMoved, NotListed DEF Pending
  <2> QED BY <2>1, <2>4, <2>5
<1>3. ASSUME NEW by \in By, SignedIn(by) PROVE WebInv' /\ UNCHANGED <<vars, sent>>
  <2>1. /\ UNCHANGED <<vars, keys, enrolled, adrift, page, back, profile, effect, list, fresh, asked,
                       behind, sent, leaving, nav, load, astray, prompt, change, dismissed>>
        /\ verify' = [verify EXCEPT ![by] = None] /\ verify[by] # None
        /\ cookie' = verify[by].user /\ alive' = TRUE
        /\ landed' = landed \cup {[by |-> by, to |-> verify[by].to, back |-> "account"]}
    BY <1>3 DEF SignedIn, server, screen, query
  <2>2. verify[by].user \in User /\ verify[by].to \in Backs
    BY <2>1 DEF WebShape
  <2>3. verify' \in [By -> [user : User, to : Backs] \cup {None}]
    BY <2>1 DEF WebShape
  <2>4. landed' \subseteq Answer /\ \E m \in landed' : m.by \in SignIns
    BY <2>1, <2>2, Landing DEF Backs, WebShape, SignIns
  <2>5. WebShape'
    BY <2>1, <2>2, <2>3, <2>4 DEF WebShape
  <2>6. OnTheWay'
    BY <2>4 DEF OnTheWay
  <2>7. ListOwn'
    BY <2>1, NotListed DEF Pending
  <2> QED BY <2>1, <2>5, <2>6, <2>7
<1>4. ASSUME NEW by \in By, NotSignedIn(by) PROVE WebInv' /\ UNCHANGED <<vars, sent>>
  <2>1. /\ UNCHANGED <<vars, keys, enrolled, adrift, cookie, alive, page, back, profile, effect, list,
                       fresh, asked, behind, sent, leaving, landed, nav, load, astray, prompt, change,
                       dismissed>>
        /\ verify' = [verify EXCEPT ![by] = None]
    BY <1>4 DEF NotSignedIn, server, session, screen, query, moves
  <2>2. verify' \in [By -> [user : User, to : Backs] \cup {None}]
    BY <2>1 DEF WebShape
  <2>3. WebShape'
    BY <2>1, <2>2 DEF WebShape
  <2>4. OnTheWay' /\ ListOwn'
    BY <2>1, NotMoved, NotListed DEF Pending
  <2> QED BY <2>1, <2>3, <2>4
<1> QED BY <1>1, <1>2, <1>3, <1>4 DEF CeremonyNext

-----------------------------------------------------------------------------
(* Passkeys of the account *)

ChangeNext ==
  \/ SkipSetup \/ NotNow \/ Register \/ ChangeRow("rename") \/ ChangeRow("delete")
  \/ ChangeServed \/ ChangeAnswered \/ ChangeFailed
  \/ \E c \in adrift : ChangeDrifts(c)

LEMMA AnsweredKeeps ==
  ASSUME WebInv, ChangeAnswered
  PROVE  WebInv' /\ UNCHANGED <<vars, sent>>
<1> USE DEF WebInv
<1>1. /\ UNCHANGED <<vars, keys, enrolled, adrift, cookie, alive, page, back, profile, effect, sent,
                     verify, leaving, landed, load, prompt, dismissed>>
      /\ change \in Change /\ change' = None
  BY DEF ChangeAnswered, server, session, screen, requests, WebShape
<1>2. CASE change.to # None
  <2>1. Push(change.to, "account") /\ UNCHANGED <<list, fresh, asked>>
        /\ behind' = (behind \/ page = "account")
    BY <1>2 DEF ChangeAnswered
  <2>2. change.to \in {"login", "mfa", "setup", "account"} /\ "account" \in Backs
    BY <1>1, <1>2 DEF Backs, Change
  <2>3. nav' \in Visit /\ astray' = FALSE /\ OnTheWay'
    BY <1>1, <2>1, <2>2, Pushing
  <2>4. behind' \in BOOLEAN
    BY <2>1
  <2>5. WebShape'
    <3>1. nav' \in Visit \cup {None} /\ astray' \in BOOLEAN
      BY <2>3
    <3>2. change' \in Change \cup {None}
      BY <1>1
    <3> QED BY <1>1, <2>1, <2>4, <3>1, <3>2 DEF WebShape
  <2>6. ListOwn'
    BY <1>1, <2>1 DEF ListOwn
  <2> QED BY <1>1, <2>3, <2>5, <2>6
<1>3. CASE change.to = None
  <2>1. Invalidate /\ UNCHANGED <<nav, astray>>
    BY <1>3 DEF ChangeAnswered
  <2>2. /\ list' = list /\ fresh' \in {fresh, FALSE} /\ behind' \in {behind, TRUE, FALSE}
        /\ asked' \in {asked, [user |-> cookie, read |-> None]}
    BY <2>1 DEF Invalidate
  <2>3. asked' \in Query \cup {None}
    <3>1. cookie \in User \cup {None} /\ asked \in Query \cup {None}
      BY DEF WebShape
    <3>2. [user |-> cookie, read |-> None] \in Query
      BY <3>1, AskedAnew
    <3>3. asked' = asked \/ asked' = [user |-> cookie, read |-> None]
      BY <2>2
    <3> QED BY <3>1, <3>2, <3>3, Zenon
  <2>4. WebShape'
    <3>1. fresh' \in BOOLEAN /\ behind' \in BOOLEAN
      BY <2>2, Zenon DEF WebShape
    <3> QED BY <1>1, <2>1, <2>2, <2>3, <3>1 DEF WebShape
  <2>5. OnTheWay'
    BY <1>1, <2>1, NotMoved
  <2>6. ListOwn'
    <3>1. page' = "account" /\ ~behind' =>
            asked' = [user |-> cookie, read |-> None] /\ cookie \in {profile, None}
      BY <1>1, <2>1 DEF Invalidate
    <3>2. profile \in User \cup {None} /\ profile' = profile
      BY <1>1 DEF WebShape
    <3> QED BY <3>1, <3>2, ListAsked
  <2> QED BY <1>1, <2>4, <2>5, <2>6
<1> QED BY <1>2, <1>3

LEMMA ChangeStep ==
  ASSUME WebInv, ChangeNext
  PROVE  WebInv' /\ UNCHANGED <<vars, sent>>
<1> USE DEF WebInv
<1>1. CASE SkipSetup \/ NotNow
  <2>1. /\ UNCHANGED <<vars, keys, enrolled, adrift, cookie, alive, page, back, profile, list, fresh,
                       asked, behind, sent, verify, leaving, landed, load, prompt, change>>
        /\ Push(back, "account")
    BY <1>1 DEF SkipSetup, NotNow, server, session, screen, query, requests
  <2>2. effect' \in {effect, FALSE} /\ dismissed' \in {dismissed, TRUE}
    BY <1>1 DEF SkipSetup, NotNow, screen
  <2>3. back \in {"login", "mfa", "setup", "account"} /\ "account" \in Backs
    BY DEF WebShape, Backs
  <2>4. nav' \in Visit /\ astray' = FALSE /\ OnTheWay'
    BY <2>1, <2>3, Pushing
  <2>5. WebShape'
    <3>1. effect' \in BOOLEAN /\ dismissed' \in BOOLEAN
      BY <2>2, Zenon DEF WebShape
    <3>2. nav' \in Visit \cup {None} /\ astray' \in BOOLEAN
      BY <2>4
    <3> QED BY <2>1, <3>1, <3>2 DEF WebShape
  <2>6. ListOwn'
    BY <2>1, NotListed DEF Pending
  <2> QED BY <2>1, <2>4, <2>5, <2>6
<1>2. ASSUME Register \/ ChangeRow("rename") \/ ChangeRow("delete")
      PROVE  WebInv' /\ UNCHANGED <<vars, sent>>
  <2>1. /\ UNCHANGED <<vars, keys, enrolled, adrift, cookie, alive, page, back, profile, effect, list,
                       fresh, asked, behind, sent, verify, leaving, landed, nav, load, astray,
                       dismissed>>
        /\ change = None /\ prompt' \in {prompt, None}
    BY <1>2 DEF Register, ChangeRow, server, session, screen, query, requests, moves
  <2>2. change' \in Change
    <3>1. ASSUME Register PROVE change' \in Change
      <4>1. cookie \in User /\ back \in Backs
        BY <3>1 DEF Register, WebShape
      <4>2. change' = [op |-> "register", user |-> cookie, done |-> FALSE,
                       to |-> IF page = "setup" THEN back ELSE None]
        BY <3>1 DEF Register
      <4> QED BY <4>1, <4>2 DEF Change
    <3>2. ASSUME NEW op \in {"rename", "delete"}, ChangeRow(op) PROVE change' \in Change
      BY <3>2 DEF ChangeRow, Change, WebShape
    <3> QED BY <1>2, <3>1, <3>2
  <2>3. WebShape'
    <3>1. prompt' \in [by : By, to : Backs] \cup {None}
      BY <2>1, Zenon DEF WebShape
    <3> QED BY <2>1, <2>2, <3>1 DEF WebShape
  <2>4. OnTheWay' /\ ListOwn'
    BY <2>1, NotMoved, NotListed DEF Pending
  <2> QED BY <2>1, <2>3, <2>4
<1>3. CASE ChangeServed
  <2>1. /\ UNCHANGED <<vars, enrolled, cookie, alive, page, back, profile, effect, list, fresh, asked,
                       behind, sent, verify, leaving, landed, nav, load, astray, prompt, dismissed>>
        /\ change \in Change /\ change # None
        /\ change' = [change EXCEPT !.done = TRUE]
        /\ adrift' \subseteq adrift
    BY <1>3 DEF ChangeServed, session, screen, query, requests, moves, WebShape
  <2>2. change' \in Change /\ change'.done /\ change.user \in User
    BY <2>1 DEF Change
  <2>3. keys' \subseteq User
    <3>1. change.op \in {"register", "rename", "delete"} /\ keys' = Changed(change)
      BY <1>3, <2>1 DEF ChangeServed, Change
    <3> QED BY <2>2, <3>1 DEF Changed, WebShape
  <2>4. WebShape'
    BY <2>1, <2>2, <2>3 DEF WebShape
  <2>5. change' # None
    BY <2>2, NoneAssumption
  <2>6. ListOwn'
    BY <2>1, <2>2, <2>5 DEF ListOwn
  <2>7. OnTheWay'
    BY <2>1, NotMoved
  <2> QED BY <2>1, <2>4, <2>6, <2>7
<1>4. CASE ChangeAnswered
  BY <1>4, AnsweredKeeps
<1>5. CASE ChangeFailed
  <2>1. /\ UNCHANGED <<vars, keys, enrolled, cookie, alive, page, back, profile, effect, list, fresh,
                       asked, sent, verify, leaving, landed, nav, load, astray, prompt, dismissed>>
        /\ change \in Change /\ change # None /\ change' = None
        /\ behind' = (behind \/ (change.done /\ page = "account"))
        /\ adrift' \in {adrift, adrift \cup Unanswered}
    BY <1>5 DEF ChangeFailed, session, screen, requests, moves, WebShape
  <2>2. behind' \in BOOLEAN
    BY <2>1
  <2>3. adrift' \subseteq [op : {"register", "delete"}, user : User]
    BY <2>1, Leftover, Zenon DEF WebShape
  <2>4. WebShape'
    BY <2>1, <2>2, <2>3 DEF WebShape
  <2>5. OnTheWay'
    BY <2>1, NotMoved
  <2>6. ListOwn'
    <3>1. SUFFICES ASSUME page' = "account", ~behind' PROVE ListOwn'
      BY DEF ListOwn
    <3>2. ~behind /\ ~change.done
      BY <2>1, <3>1
    <3>3. Mine(profile)' = Mine(profile)
      BY <2>1 DEF Mine
    <3> QED BY <2>1, <3>1, <3>2, <3>3 DEF ListOwn
  <2> QED BY <2>1, <2>4, <2>5, <2>6
<1>6. ASSUME NEW c \in adrift, ChangeDrifts(c) PROVE WebInv' /\ UNCHANGED <<vars, sent>>
  <2>1. /\ UNCHANGED <<vars, enrolled, cookie, alive, page, back, profile, effect, list, fresh, asked,
                       sent, verify, leaving, landed, nav, load, astray, prompt, change, dismissed>>
        /\ adrift' = adrift \ {c}
        /\ \/ keys' = Changed(c) /\ behind' = (behind \/ page = "account")
           \/ UNCHANGED <<keys, behind>>
    BY <1>6 DEF ChangeDrifts, session, screen, requests, moves
  <2>2. keys' \subseteq User
    <3>1. c.op \in {"register", "delete"} /\ c.user \in User
      BY DEF WebShape
    <3> QED BY <2>1, <3>1 DEF Changed, WebShape
  <2>3. behind' \in BOOLEAN
    BY <2>1 DEF WebShape
  <2>4. WebShape'
    BY <2>1, <2>2, <2>3 DEF WebShape
  <2>5. OnTheWay'
    BY <2>1, NotMoved
  <2>6. ListOwn'
    <3>1. CASE keys' = Changed(c) /\ behind' = (behind \/ page = "account")
      BY <2>1, <3>1 DEF ListOwn
    <3>2. CASE UNCHANGED <<keys, behind>>
      BY <2>1, <3>2, NotListed DEF Pending
    <3> QED BY <2>1, <3>1, <3>2
  <2> QED BY <2>1, <2>4, <2>5, <2>6
<1> QED BY <1>1, <1>2, <1>3, <1>4, <1>5, <1>6 DEF ChangeNext

-----------------------------------------------------------------------------
(* The list and the session *)

OtherNext ==
  \/ ListRead \/ ListArrives \/ ListFails \/ Age60
  \/ LogOut \/ LoggedOut \/ LogOutFails \/ Revoked \/ CookieExpires

LEMMA ListReadKeeps == ASSUME WebInv, ListRead PROVE WebInv' /\ UNCHANGED <<vars, sent>>
<1> USE DEF WebInv
<1>1. /\ UNCHANGED <<vars, keys, enrolled, adrift, cookie, alive, page, back, profile, effect, list,
                     fresh, behind, sent, verify, leaving, landed, nav, load, astray, prompt, change,
                     dismissed>>
      /\ asked \in Query /\ asked # None /\ asked.user \in User /\ asked.read = None
      /\ asked' = [asked EXCEPT !.read = Mine(asked.user)]
  BY DEF ListRead, server, session, screen, requests, moves, WebShape, Query
<1>2. Mine(asked.user) \in (SUBSET User) \cup {None}
  BY DEF Mine, WebShape
<1>3. /\ asked' \in Query /\ asked'.user = asked.user
      /\ asked'.read = Mine(asked.user)
  <2> DEFINE R == (SUBSET User) \cup {None}
  <2>1. asked \in [user : User \cup {None}, read : R] /\ Mine(asked.user) \in R
    BY <1>1, <1>2 DEF Query
  <2> HIDE DEF R
  <2>2. /\ asked' \in [user : User \cup {None}, read : R] /\ asked'.user = asked.user
        /\ asked'.read = Mine(asked.user)
    BY <1>1, <2>1
  <2> QED BY <2>2 DEF R, Query
<1>4. WebShape'
  BY <1>1, <1>3 DEF WebShape
<1>5. OnTheWay'
  BY <1>1, NotMoved
<1>6. asked' # None
  BY <1>3, NoneAssumption
<1>7. ListOwn'
  <2>1. SUFFICES ASSUME page' = "account", ~behind' PROVE ListOwn'
    BY DEF ListOwn
  <2>2. asked.user \in {profile, None}
    BY <1>1, <2>1 DEF ListOwn
  <2>3. asked'.user = profile' /\ asked'.read = Mine(profile)'
    BY <1>1, <1>3, <2>2, TabAssumption DEF Mine
  <2> QED BY <1>6, <2>3 DEF ListOwn
<1> QED BY <1>1, <1>4, <1>5, <1>7

LEMMA OtherStep ==
  ASSUME WebInv, OtherNext
  PROVE  WebInv' /\ UNCHANGED <<vars, sent>>
<1> USE DEF WebInv
<1>1. CASE ListRead
  BY <1>1, ListReadKeeps
<1>2. CASE ListArrives
  <2>1. /\ UNCHANGED <<vars, keys, enrolled, adrift, cookie, alive, page, back, profile, effect,
                       behind, sent, verify, leaving, landed, nav, load, astray, prompt, change,
                       dismissed>>
        /\ asked \in Query /\ asked # None /\ asked.read # None
        /\ list' = asked.read /\ fresh' = TRUE /\ asked' = None
    BY <1>2 DEF ListArrives, server, session, screen, requests, moves, WebShape
  <2>2. list' \in (SUBSET User) \cup {None}
    BY <2>1 DEF Query
  <2>3. WebShape'
    BY <2>1, <2>2 DEF WebShape
  <2>4. OnTheWay'
    BY <2>1, NotMoved
  <2>5. ListOwn'
    BY <2>1 DEF ListOwn, Mine
  <2> QED BY <2>1, <2>3, <2>4, <2>5
<1>3. CASE ListFails
  <2>1. /\ UNCHANGED <<vars, keys, enrolled, adrift, cookie, alive, page, back, profile, effect, list,
                       fresh, sent, verify, leaving, landed, nav, load, astray, prompt, change,
                       dismissed>>
        /\ asked' = None /\ behind' = (behind \/ page = "account")
    BY <1>3 DEF ListFails, server, session, screen, requests, moves
  <2>2. behind' \in BOOLEAN
    BY <2>1
  <2>3. WebShape'
    BY <2>1, <2>2 DEF WebShape
  <2>4. OnTheWay' /\ ListOwn'
    BY <2>1, NotMoved DEF ListOwn
  <2> QED BY <2>1, <2>3, <2>4
<1>4. CASE Age60 \/ LogOut \/ LogOutFails \/ Revoked \/ CookieExpires
  <2>1. /\ UNCHANGED <<vars, keys, enrolled, adrift, page, back, profile, effect, list, asked, behind,
                       sent, verify, landed, nav, load, astray, prompt, change, dismissed>>
        /\ cookie' \in {cookie, None} /\ alive' \in {alive, FALSE} /\ fresh' \in {fresh, FALSE}
        /\ leaving' \in {leaving, "asked", "no"}
    BY <1>4 DEF Age60, LogOut, LogOutFails, Revoked, CookieExpires,
                server, session, screen, query, requests, moves
  <2>2. WebShape'
    <3>1. alive' \in BOOLEAN /\ fresh' \in BOOLEAN
      BY <2>1, Zenon DEF WebShape
    <3>2. cookie' \in User \cup {None}
      BY <2>1, Zenon DEF WebShape
    <3>3. leaving' \in {"no", "asked", "done"}
      BY <2>1 DEF WebShape
    <3> QED BY <2>1, <3>1, <3>2, <3>3 DEF WebShape
  <2>3. OnTheWay' /\ ListOwn'
    BY <2>1, NotMoved, NotListed DEF Pending
  <2> QED BY <2>1, <2>2, <2>3
<1>5. CASE LoggedOut
  <2>1. /\ UNCHANGED <<vars, keys, enrolled, adrift, page, back, profile, effect, list, fresh, asked,
                       behind, sent, verify, nav, load, astray, prompt, change, dismissed>>
        /\ cookie' = None /\ alive' = FALSE /\ leaving' = "done"
        /\ landed' = landed \cup {[by |-> "logout", to |-> "login", back |-> "account"]}
    BY <1>5 DEF LoggedOut, server, screen, query
  <2>2. landed' \subseteq Answer
    <3>1. "account" \in Backs /\ landed \subseteq Answer
      BY DEF Backs, WebShape
    <3>2. [by |-> "logout", to |-> "login", back |-> "account"] \in Answer
      BY <3>1 DEF Answer
    <3> QED BY <2>1, <3>1, <3>2
  <2>3. WebShape'
    <3>1. cookie' \in User \cup {None} /\ alive' \in BOOLEAN /\ leaving' \in {"no", "asked", "done"}
      BY <2>1
    <3> QED BY <2>1, <2>2, <3>1 DEF WebShape
  <2>4. OnTheWay' /\ ListOwn'
    BY <2>1, NotListed DEF OnTheWay, Pending
  <2> QED BY <2>1, <2>3, <2>4
<1> QED BY <1>1, <1>2, <1>3, <1>4, <1>5 DEF OtherNext

-----------------------------------------------------------------------------
(* The whole *)

\* A password request under way is one of the throttle's, which nobody else ends.
LEMMA WaitingStep ==
  ASSUME TypeOK, WebShape, Waiting, [WebNext]_allVars
  PROVE  Waiting'
<1>1. CASE PasswordNext
  <2>1. ASSUME SubmitPassword PROVE pc'[Tab] = "verify"
    BY <2>1, TabAssumption DEF SubmitPassword, Admit, TypeOK
  <2>2. ASSUME WrongPassword \/ RightPassword PROVE sent' = None
    BY <2>2 DEF WrongPassword, RightPassword
  <2>3. ASSUME SubmitCode \/ TimePasses PROVE pc' = pc /\ sent' = sent
    BY <2>3 DEF SubmitCode, TimePasses, Tick, allVars, vars, web, requests
  <2>4. ASSUME Elsewhere PROVE sent' = sent /\ (sent # None => pc'[Tab] = pc[Tab])
    <3>1. sent' = sent
      BY <2>4 DEF Elsewhere, web, requests
    <3>2. PICK r \in Req : \/ r # Tab /\ Admit(r)
                           \/ Refuse(r)
                           \/ (r # Tab \/ sent = None) /\ (Fail(r) \/ Leave(r))
      BY <2>4 DEF Elsewhere
    <3>3. ASSUME sent # None PROVE pc'[Tab] = pc[Tab]
      <4>1. (r # Tab /\ (Admit(r) \/ Fail(r) \/ Leave(r))) \/ Refuse(r)
        BY <3>2, <3>3
      <4> QED BY <4>1, TabAssumption DEF Admit, Fail, Leave, Refuse, vars, TypeOK
    <3> QED BY <3>1, <3>3
  <2> QED BY <1>1, <2>1, <2>2, <2>3, <2>4 DEF PasswordNext, Waiting
<1>2. CASE ~PasswordNext /\ WebNext
  <2>1. pc' = pc /\ sent' \in {sent, None}
    BY <1>2 DEF PasswordNext, WebNext, Show, Loaded, Open, GoOn, CutOff, StartAutofill, PressButton,
                CancelPrompt, Pick, ChangeRow, SignedIn, NotSignedIn, SkipSetup, NotNow, Register,
                ChangeServed, ChangeAnswered, ChangeFailed, ChangeDrifts, ListRead, ListArrives,
                ListFails, Age60, LogOut, LoggedOut, LogOutFails, Revoked, CookieExpires, vars,
                requests
  <2> QED BY <2>1 DEF Waiting
<1>3. CASE UNCHANGED allVars
  BY <1>3 DEF allVars, vars, web, requests, Waiting
<1> QED BY <1>1, <1>2, <1>3

LEMMA SignInStep == SignInInv /\ [WebNext]_allVars => SignInInv'
<1> SUFFICES ASSUME SignInInv, [WebNext]_allVars PROVE SignInInv'
  OBVIOUS
<1>1. TypeOK /\ GuessesLeft /\ WebInv /\ Waiting
  BY DEF SignInInv, WebTypeOK, WebInv, WebShape, Waiting
<1>2. WebInv' /\ [ThrottleNext]_vars
  <2>1. CASE PasswordNext
    BY <1>1, <2>1, PasswordStep
  <2>2. CASE CeremonyNext
    BY <1>1, <2>2, CeremonyStep
  <2>3. CASE ChangeNext
    BY <1>1, <2>3, ChangeStep
  <2>4. CASE OtherNext
    BY <1>1, <2>4, OtherStep
  <2>5. CASE MoveNext
    BY <1>1, <2>5, MoveStep
  <2>6. CASE UNCHANGED allVars
    <3>1. UNCHANGED <<vars, keys, enrolled, adrift, cookie, alive, page, back, profile, effect, sent,
                      prompt, verify, leaving, landed, nav, load, list, fresh, asked, change,
                      dismissed, behind, astray>>
      BY <2>6 DEF allVars, web, server, session, screen, query, requests, moves
    <3>2. OnTheWay' /\ ListOwn'
      BY <1>1, <3>1, NotMoved, NotListed DEF WebInv, Pending
    <3> QED BY <1>1, <3>1, <3>2 DEF WebInv, WebShape
  <2> QED BY <2>1, <2>2, <2>3, <2>4, <2>5, <2>6
          DEF WebNext, PasswordNext, CeremonyNext, ChangeNext, OtherNext, MoveNext
<1>3. TypeOK' /\ GuessesLeft'
  BY <1>1, <1>2, ThrottleStep
<1>4. Waiting'
  BY <1>1, WaitingStep DEF WebInv
<1> QED BY <1>2, <1>3, <1>4 DEF SignInInv, WebTypeOK, WebInv, WebShape, Waiting

LEMMA SignInInit == WebInit => SignInInv
<1> SUFFICES ASSUME WebInit PROVE SignInInv
  OBVIOUS
<1>1. TypeOK
  BY SizeAssumption DEF WebInit, Init, TypeOK
<1>2. GuessesLeft
  <2>1. Rows(failures) = {} /\ Verifying(pc) = {}
    BY DEF WebInit, Init, Rows, Verifying, Age
  <2>2. Cardinality(Rows(failures)) = 0 /\ Cardinality(Verifying(pc)) = 0
    BY <2>1, FS_EmptySet
  <2>3. Cardinality(Req) \in Nat
    BY VerifyingFinite
  <2> QED BY <2>2, <2>3, SizeAssumption DEF GuessesLeft, Recent, Rows, Verifying
<1>3. WebTypeOK
  BY <1>1 DEF WebInit, WebTypeOK, Pages, Backs
<1>4. OnTheWay /\ ListOwn
  BY DEF WebInit, OnTheWay, ListOwn
<1> QED BY <1>2, <1>3, <1>4 DEF SignInInv

-----------------------------------------------------------------------------
\* The inductive invariant of the tab and of the throttle behind it.
THEOREM SignInCorrect == WebSpec => []SignInInv
BY SignInInit, SignInStep, PTL DEF WebSpec

\* The tab's state keeps its shape, and its password request is one of the throttle's.
THEOREM SignInTyped == WebSpec => []WebTypeOK
<1>1. SignInInv => WebTypeOK
  BY DEF SignInInv
<1> QED BY <1>1, SignInCorrect, PTL

\* However many logins race past the count, a window holds no more failures than the
\* free ones and one for every other login in progress (login-attempts.service.ts:13).
THEOREM GuessesStayBounded == WebSpec => []GuessesBounded
<1>1. ASSUME SignInInv PROVE GuessesBounded
  <2>1. Cardinality(Rows(failures)) + Cardinality(Verifying(pc)) <= Free + Cardinality(Req) - 1
    BY <1>1 DEF SignInInv, GuessesLeft, Recent, Rows, Verifying
  <2>2. Cardinality(Rows(failures)) <= Free + Cardinality(Req) - 1
    BY <2>1, RowsFinite, VerifyingFinite, SizeAssumption
  <2> QED BY <2>2 DEF GuessesBounded, Recent, Rows
<1> QED BY <1>1, SignInCorrect, PTL

\* Once every answer has called the router and the page it asked for is shown, an
\* account page shows the profile of the session in the cookie, whatever answers to
\* sign-ins and logouts arrived on whatever page in whatever order.
THEOREM ProfilesAreOwn == WebSpec => []ProfileIsOwn
<1>1. SignInInv => ProfileIsOwn
  BY DEF SignInInv, OnTheWay, ProfileIsOwn
<1> QED BY <1>1, SignInCorrect, PTL

\* The passkeys an account page shows are those of its account, unless it was opened
\* on a list read before or lost an answer (passkey-manager.tsx).
THEOREM ListsAreCurrent == WebSpec => []ListCurrentUnlessBehind
<1>1. SignInInv => ListCurrentUnlessBehind
  BY DEF SignInInv, ListOwn, ListCurrentUnlessBehind, Mine
<1> QED BY <1>1, SignInCorrect, PTL
=============================================================================
