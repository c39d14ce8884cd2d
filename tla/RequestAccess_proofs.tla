------------------------ MODULE RequestAccess_proofs ------------------------
(***************************************************************************)
(* Theorems about RequestAccess, for any requests, services, clients,      *)
(* users, roles and sessions. Its parts come first, each alone:            *)
(* SigningKeys for any services, requests and number of keys, Clients for  *)
(* any clients, callers and number of secrets, Roles for any users, roles, *)
(* permissions and editors. KeysInv is inductive as it stands; the         *)
(* argument about Roles has two halves that share no variable but the      *)
(* seed: what the permissions of a role are, and what roles the seeded     *)
(* user has. What is proved of a part carries over to the composition,     *)
(* since every step of that is a step or a stutter of each of them         *)
(* (ComponentSteps).                                                       *)
(***************************************************************************)
EXTENDS RequestAccess, TLAPS

-----------------------------------------------------------------------------
(* SigningKeys *)
(* With no row inserted, no key is cached, used or retired.                *)
LEMMA KeysInitially == KeysInit => KeysInv
BY NoServiceAssumption DEF KeysInit, KeysInv, KeysTypeOK, SignsWithPublished,
      RetiredNotUsed, Idling, NoKid

LEMMA KeysStep == KeysInv /\ [KeysNext]_keyVars => KeysInv'
<1> SUFFICES ASSUME KeysInv, [KeysNext]_keyVars PROVE KeysInv'
  OBVIOUS
<1> USE NoServiceAssumption DEF KeysInv, KeysTypeOK, SignsWithPublished, RetiredNotUsed,
        Idling, NoKid, Jwks, Active
<1> DEFINE UseType == [pc : {"idle", "select", "import", "insert", "ready"},
                       task : {"sign", "rotate"},
                       svc : Services \cup {NoService},
                       kid : Kids \cup {0}]
<1>1. ASSUME NEW r \in Requests, NEW s \in Services, BeginUse(r, s) PROVE KeysInv'
  <2>1. KeysTypeOK'
    BY <1>1 DEF BeginUse
  <2>2. QED
    BY <2>1, <1>1 DEF BeginUse
<1>2. ASSUME NEW r \in Requests, SelectActive(r) PROVE KeysInv'
  <2>1. CASE Active = {} /\ use' = [use EXCEPT ![r].pc = "insert"]
    BY <1>2, <2>1 DEF SelectActive
  <2>2. CASE \E k \in Active :
                use' = [use EXCEPT ![r].kid = k,
                          ![r].pc = IF k \in cache[use[r].svc] THEN "ready" ELSE "import"]
    <3> PICK k \in Active :
           use' = [use EXCEPT ![r].kid = k,
                     ![r].pc = IF k \in cache[use[r].svc] THEN "ready" ELSE "import"]
      BY <2>2
    <3>1. /\ k \in Kids
          /\ status[k] = "active"
          /\ k \notin retired[r]
      BY <1>2 DEF SelectActive
    <3>2. KeysTypeOK'
      <4>1. use[r] \in UseType /\ use[r].svc \in Services
        BY <1>2 DEF SelectActive
      <4>2. PICK p \in {"ready", "import"} : use' = [use EXCEPT ![r].kid = k, ![r].pc = p]
        OBVIOUS
      <4>3. use' = [use EXCEPT ![r] = [use[r] EXCEPT !.kid = k, !.pc = p]]
        BY <4>2
      <4>4. [use[r] EXCEPT !.kid = k, !.pc = p] \in UseType
        BY <4>1, <3>1
      <4> DEFINE u == [use[r] EXCEPT !.kid = k, !.pc = p]
      <4>5. u \in UseType /\ u.svc \in Services /\ u.kid \in Kids
        BY <4>1, <4>4, <3>1
      <4>6. UNCHANGED <<status, cache, retired>> /\ use' = [use EXCEPT ![r] = u]
        BY <1>2, <4>3 DEF SelectActive
      <4> HIDE DEF u
      <4>7. use' \in [Requests -> UseType]
        BY <4>5, <4>6
      <4>8. \A q \in Requests : use'[q] = IF q = r THEN u ELSE use[q]
        BY <4>6
      <4>9. QED
        BY <4>5, <4>6, <4>7, <4>8
    <3>3. \A q \in Requests : use'[q].pc \in {"import", "ready"} =>
             (q = r /\ use'[q].kid = k) \/ (q # r /\ use'[q] = use[q])
      BY <1>2, <3>1 DEF SelectActive
    <3>4. UNCHANGED <<status, cache, retired>>
      BY <1>2 DEF SelectActive
    <3>5. SignsWithPublished' /\ RetiredNotUsed'
      BY <3>1, <3>3, <3>4
    <3>6. QED
      BY <3>2, <3>4, <3>5
  <2>3. QED
    BY <1>2, <2>1, <2>2 DEF SelectActive
<1>3. ASSUME NEW r \in Requests, ImportKey(r) PROVE KeysInv'
  BY <1>3 DEF ImportKey
<1>4. ASSUME NEW r \in Requests, InsertKey(r) PROVE KeysInv'
  <2> PICK k \in Kids :
        /\ status[k] = "none"
        /\ status' = [status EXCEPT ![k] = "active"]
        /\ cache' = [cache EXCEPT ![use[r].svc] = @ \cup {k}]
        /\ use' = [use EXCEPT ![r] = IF use[r].task = "sign"
                                     THEN [@ EXCEPT !.pc = "ready", !.kid = k]
                                     ELSE Idling]
    BY <1>4 DEF InsertKey
  <2>1. \A q \in Requests : k \notin retired[q]
    OBVIOUS
  <2>2. KeysTypeOK'
    <3>1. use[r] \in UseType /\ use[r].svc \in Services
      BY <1>4 DEF InsertKey
    <3> DEFINE u == IF use[r].task = "sign" THEN [use[r] EXCEPT !.pc = "ready", !.kid = k]
                                            ELSE Idling
    <3>2. /\ use' = [use EXCEPT ![r] = u]
          /\ u \in UseType
          /\ u.svc \in Services \/ u.pc = "idle"
          /\ u.pc \in {"import", "ready"} => u.kid \in Kids
      BY <3>1
    <3> HIDE DEF u
    <3>3. QED
      BY <1>4, <3>2 DEF InsertKey
  <2>3. \A q \in Requests : use'[q].pc \in {"import", "ready"} =>
           (q = r /\ use'[q].kid = k) \/ (q # r /\ use'[q] = use[q])
    BY <1>4 DEF InsertKey
  <2>4. QED
    BY <1>4, <2>1, <2>2, <2>3 DEF InsertKey
<1>5. ASSUME NEW r \in Requests, Sign(r) PROVE KeysInv'
  BY <1>5 DEF Sign
<1>6. ASSUME NEW r \in Requests, AbandonKey(r) PROVE KeysInv'
  BY <1>6 DEF AbandonKey
<1>7. ASSUME NEW r \in Requests, NEW s \in Services, RetireKeys(r, s) PROVE KeysInv'
  <2>1. KeysTypeOK'
    BY <1>7 DEF RetireKeys
  <2>2. \A k \in Kids : /\ k \in Jwks => k \in Jwks'
                        /\ status[k] = "rotated" => status'[k] = "rotated"
    BY <1>7 DEF RetireKeys
  <2>3. \A q \in Requests : use'[q].pc \in {"import", "ready"} => use'[q] = use[q]
    BY <1>7 DEF RetireKeys
  <2>4. QED
    BY <1>7, <2>1, <2>2, <2>3 DEF RetireKeys
<1>8. ASSUME NEW s \in Services, Restart(s) PROVE KeysInv'
  BY <1>8 DEF Restart
<1>9. CASE UNCHANGED keyVars
  BY <1>9 DEF keyVars
<1>10. QED
  BY <1>1, <1>2, <1>3, <1>4, <1>5, <1>6, <1>7, <1>8, <1>9 DEF KeysNext, KeyStep

(* KeysInv always holds. *)
THEOREM KeysCorrect == KeysSpec => []KeysInv
BY KeysInitially, KeysStep, PTL DEF KeysSpec

(* signing-key.service.ts: what a request signs with is in the JWKS that   *)
(* every verifier reads.                                                   *)
THEOREM OnlyPublishedKeysSign == KeysSpec => []SignsWithPublished
<1>1. KeysInv => SignsWithPublished
  BY DEF KeysInv
<1>2. QED
  BY <1>1, KeysCorrect, PTL

(* signing-key.service.ts: a key retired by a rotation signs nothing that  *)
(* was asked for later, in whatever cache it still is.                     *)
THEOREM RetiredKeysRest == KeysSpec => []RetiredNotUsed
<1>1. KeysInv => RetiredNotUsed
  BY DEF KeysInv
<1>2. QED
  BY <1>1, KeysCorrect, PTL

-----------------------------------------------------------------------------
(* Clients *)
(* What a request that writes the row of c leaves behind: whoever else was *)
(* at work with c is touched, and who is not touched sees what he saw.     *)
LEMMA Rewritten ==
    ASSUME ClientsInv, ClientsTypeOK',
           NEW r \in Callers, NEW c \in Clients, Touch(r, c),
           task[r].pc = "idle",
           \A d \in Clients \ {c} : client'[d] = client[d],
           \A q \in Callers \ {r} : task'[q] = task[q],
           \/ task'[r] = task[r]
           \/ /\ task'[r].pc = "reply" /\ task'[r].client = c
              /\ client'[c].st = "live" /\ client'[c].secret = task'[r].secret
    PROVE  ClientsInv'
<1> USE NoClientAssumption DEF ClientsInv, ClientsTypeOK
<1>1. \A q \in Callers \ touched' : q # r =>
         /\ q \notin touched
         /\ task'[q] = task[q]
         /\ task[q].pc # "idle" => client'[task[q].client] = client[task[q].client]
  BY DEF Touch
<1>2. CurrentUnlessTouched'
  BY <1>1 DEF CurrentUnlessTouched
<1>3. \A q \in Callers \ touched' :
         task'[q].pc \in {"verify", "authed"} =>
            client'[task'[q].client] = task'[q].row /\ task'[q].row.st = "live"
  BY <1>1
<1>4. \A q \in Callers : task'[q].pc = "idle" => task'[q].client = NoClient
  OBVIOUS
<1>5. QED
  BY <1>2, <1>3, <1>4

\* A request that stops, or begins to answer, is a task all the same.
LEMMA TaskTypes ==
    /\ Unborn \in Row /\ [Unborn EXCEPT !.st = "gone"] \in Row
    /\ Resting \in Task /\ Resting.pc = "idle" /\ Resting.client = NoClient
    /\ \A c \in Clients, s \in Secrets :
          LET t == [Resting EXCEPT !.pc = "reply", !.client = c, !.secret = s]
          IN  t \in Task /\ t.pc = "reply" /\ t.client = c /\ t.secret = s
<1>1. 0 \in Secrets
  BY MaxSecretsAssumption DEF Secrets
<1>2. Unborn \in Row /\ [Unborn EXCEPT !.st = "gone"] \in Row
  BY <1>1 DEF Unborn, Row
<1>3. Resting \in Task /\ Resting.pc = "idle" /\ Resting.client = NoClient
  BY <1>1, <1>2 DEF Resting, Task
<1>4. ASSUME NEW c \in Clients, NEW s \in Secrets
      PROVE  LET t == [Resting EXCEPT !.pc = "reply", !.client = c, !.secret = s]
             IN  t \in Task /\ t.pc = "reply" /\ t.client = c /\ t.secret = s
  BY <1>2 DEF Resting, Task
<1>5. QED
  BY <1>2, <1>3, <1>4

\* A request that ends touches nobody else.
LEMMA Ended ==
    ASSUME ClientsInv, NEW r \in Callers,
           task' = [task EXCEPT ![r] = Resting], touched' = touched \ {r},
           held' \in SUBSET Secrets, UNCHANGED <<client, drawn>>
    PROVE  ClientsInv'
<1>1. \A q \in Callers : task'[q] = IF q = r THEN Resting ELSE task[q]
  BY DEF ClientsInv, ClientsTypeOK
<1>2. ClientsTypeOK'
  BY <1>1, TaskTypes DEF ClientsInv, ClientsTypeOK
<1>3. \A q \in Callers \ touched' :
         task'[q].pc # "idle" => q \notin touched /\ task'[q] = task[q] /\ client' = client
  <2> SUFFICES ASSUME NEW q \in Callers \ touched', task'[q].pc # "idle"
               PROVE  q \notin touched /\ task'[q] = task[q] /\ client' = client
    OBVIOUS
  <2>1. Resting.pc = "idle"
    BY DEF Resting
  <2>2. q # r
    BY <1>1, <2>1
  <2>3. QED
    BY <1>1, <2>2
<1>4. CurrentUnlessTouched'
  BY <1>3 DEF ClientsInv, ClientsTypeOK, CurrentUnlessTouched
<1>5. \A q \in Callers : task'[q].pc = "idle" => task'[q].client = NoClient
  <2>1. Resting.client = NoClient
    BY DEF Resting
  <2>2. QED
    BY <1>1, <2>1 DEF ClientsInv
<1>6. QED
  BY <1>2, <1>3, <1>4, <1>5 DEF ClientsInv

\* A request that is about to answer.
LEMMA Replied ==
    ASSUME ClientsInv, NEW r \in Callers, NEW c \in Clients, Reply(r, c), Touch(r, c),
           held' = held, client' \in [Clients -> Row]
    PROVE  /\ ClientsTypeOK'
           /\ drawn + 1 \in Secrets
           /\ task'[r].pc = "reply" /\ task'[r].client = c /\ task'[r].secret = drawn + 1
           /\ \A q \in Callers \ {r} : task'[q] = task[q]
<1>1. drawn + 1 \in Secrets
  BY MaxSecretsAssumption DEF Reply, ClientsInv, ClientsTypeOK, Secrets
<1> DEFINE t == [Resting EXCEPT !.pc = "reply", !.client = c, !.secret = drawn + 1]
<1>2. t \in Task /\ t.pc = "reply" /\ t.client = c /\ t.secret = drawn + 1
  BY <1>1, TaskTypes
<1>3. task' = [task EXCEPT ![r] = t]
  BY DEF Reply
<1> HIDE DEF t
<1>4. \A q \in Callers : task'[q] = IF q = r THEN t ELSE task[q]
  BY <1>3 DEF ClientsInv, ClientsTypeOK
<1>5. task' \in [Callers -> Task]
  BY <1>2, <1>3 DEF ClientsInv, ClientsTypeOK
<1>6. QED
  BY <1>1, <1>2, <1>4, <1>5 DEF Reply, Touch, ClientsInv, ClientsTypeOK

LEMMA ClientsStep == ClientsInv /\ [ClientsNext]_clientVars => ClientsInv'
<1> SUFFICES ASSUME ClientsInv, [ClientsNext]_clientVars PROVE ClientsInv'
  OBVIOUS
<1> USE NoClientAssumption, MaxSecretsAssumption
<1>1. ASSUME NEW r \in Callers, NEW c \in Clients, CreateClient(r, c) PROVE ClientsInv'
  <2>1. PICK a \in BOOLEAN, g \in BOOLEAN :
           client' = [client EXCEPT ![c] = [st |-> "live", secret |-> drawn + 1,
                                            auth |-> a, grant |-> g]]
    BY <1>1 DEF CreateClient
  <2>2. drawn + 1 \in Secrets
    BY <1>1 DEF CreateClient, Reply, ClientsInv, ClientsTypeOK, Secrets
  <2>3. client' \in [Clients -> Row]
    BY <2>1, <2>2 DEF ClientsInv, ClientsTypeOK, Row
  <2>4. client'[c].st = "live" /\ client'[c].secret = drawn + 1
    BY <2>1 DEF ClientsInv, ClientsTypeOK
  <2>5. QED
    BY <1>1, <2>1, <2>3, <2>4, Replied, Rewritten DEF CreateClient, ClientsInv, ClientsTypeOK
<1>2. ASSUME NEW r \in Callers, NEW c \in Clients, RotateSecret(r, c) PROVE ClientsInv'
  <2>1. client[c] \in Row
    BY DEF ClientsInv, ClientsTypeOK
  <2>2. drawn + 1 \in Secrets
    BY <1>2 DEF RotateSecret, Reply, ClientsInv, ClientsTypeOK, Secrets
  <2>3. [client[c] EXCEPT !.secret = drawn + 1] \in Row
    BY <2>1, <2>2 DEF Row
  <2>4. client' = [client EXCEPT ![c] = [client[c] EXCEPT !.secret = drawn + 1]]
    BY <1>2 DEF RotateSecret
  <2>5. client' \in [Clients -> Row]
    BY <2>3, <2>4 DEF ClientsInv, ClientsTypeOK
  <2>6. client'[c].st = "live" /\ client'[c].secret = drawn + 1
    BY <1>2, <2>1, <2>4 DEF RotateSecret, ClientsInv, ClientsTypeOK, Row
  <2>7. QED
    BY <1>2, <2>4, <2>5, <2>6, Replied, Rewritten DEF RotateSecret, ClientsInv, ClientsTypeOK
<1>3. ASSUME NEW r \in Callers, NEW c \in Clients, UpdateClient(r, c) PROVE ClientsInv'
  <2>1. PICK a \in BOOLEAN, g \in BOOLEAN :
           client' = [client EXCEPT ![c].auth = a, ![c].grant = g]
    BY <1>3 DEF UpdateClient
  <2>2. [client[c] EXCEPT !.auth = a, !.grant = g] \in Row
    <3>1. client[c] \in Row
      BY DEF ClientsInv, ClientsTypeOK
    <3>2. QED
      BY <2>1, <3>1 DEF Row
  <2>3. client' = [client EXCEPT ![c] = [client[c] EXCEPT !.auth = a, !.grant = g]]
    BY <2>1 DEF ClientsInv, ClientsTypeOK
  <2>4. ClientsTypeOK'
    BY <1>3, <2>2, <2>3 DEF UpdateClient, Touch, ClientsInv, ClientsTypeOK
  <2>5. QED
    BY <1>3, <2>3, <2>4, Rewritten DEF UpdateClient, ClientsInv, ClientsTypeOK
<1>4. ASSUME NEW r \in Callers, NEW c \in Clients, DeleteClient(r, c) PROVE ClientsInv'
  <2>1. ClientsTypeOK'
    <3>1. client' \in [Clients -> Row]
      BY <1>4, TaskTypes DEF DeleteClient, ClientsInv, ClientsTypeOK
    <3>2. QED
      BY <1>4, <3>1 DEF DeleteClient, Touch, ClientsInv, ClientsTypeOK
  <2>2. QED
    BY <1>4, <2>1, Rewritten DEF DeleteClient, ClientsInv, ClientsTypeOK
<1>5. ASSUME NEW r \in Callers, NEW c \in Clients, ReadClient(r, c) PROVE ClientsInv'
  <2>1. PICK s \in held : task' = [task EXCEPT ![r] = [pc |-> "verify", client |-> c,
                                               secret |-> s, row |-> client[c]]]
    BY <1>5 DEF ReadClient
  <2>2. [pc |-> "verify", client |-> c, secret |-> s, row |-> client[c]] \in Task
    BY DEF ClientsInv, ClientsTypeOK, Task
  <2>3. ClientsTypeOK'
    BY <1>5, <2>1, <2>2 DEF ReadClient, ClientsInv, ClientsTypeOK
  <2>4. QED
    BY <1>5, <2>1, <2>3 DEF ReadClient, ClientsInv, ClientsTypeOK, CurrentUnlessTouched
<1>6. ASSUME NEW r \in Callers, DeliverSecret(r) PROVE ClientsInv'
  <2>1. task[r] \in Task /\ held \in SUBSET Secrets
    BY DEF ClientsInv, ClientsTypeOK
  <2>2. held' \in SUBSET Secrets
    BY <1>6, <2>1 DEF DeliverSecret, Task
  <2>3. QED
    BY <1>6, <2>2, Ended DEF DeliverSecret
<1>7. ASSUME NEW r \in Callers, VerifySecret(r) PROVE ClientsInv'
  <2>1. CASE task[r].row.secret = task[r].secret
    <3>1. task[r] \in Task /\ task[r].pc = "verify"
      BY <1>7 DEF VerifySecret, ClientsInv, ClientsTypeOK
    <3>2. \A q \in Callers : task'[q] = IF q = r THEN [task[r] EXCEPT !.pc = "authed"]
                                                ELSE task[q]
      BY <1>7, <2>1 DEF VerifySecret, ClientsInv, ClientsTypeOK
    <3>3. [task[r] EXCEPT !.pc = "authed"] \in Task
      BY <3>1 DEF Task
    <3>4. ClientsTypeOK'
      BY <1>7, <2>1, <3>1, <3>3 DEF VerifySecret, ClientsInv, ClientsTypeOK, Task
    <3>5. QED
      BY <1>7, <2>1, <3>1, <3>2, <3>4 DEF VerifySecret, ClientsInv, CurrentUnlessTouched, Task
  <2>2. CASE task[r].row.secret # task[r].secret
    BY <1>7, <2>2, Ended DEF VerifySecret, ClientsInv, ClientsTypeOK
  <2>3. QED
    BY <2>1, <2>2
<1>8. ASSUME NEW r \in Callers, LeaveClient(r) PROVE ClientsInv'
  BY <1>8, Ended DEF LeaveClient, ClientsInv, ClientsTypeOK
<1>9. CASE UNCHANGED clientVars
  BY <1>9 DEF clientVars, ClientsInv, ClientsTypeOK, CurrentUnlessTouched
<1>10. QED
  BY <1>1, <1>2, <1>3, <1>4, <1>5, <1>6, <1>7, <1>8, <1>9 DEF ClientsNext, AdministerClient

(* Before the first registration nobody is at work.                        *)
LEMMA ClientsInitially == ClientsInit => ClientsInv
<1>1. 0 \in Secrets
  BY MaxSecretsAssumption DEF Secrets
<1>2. ASSUME ClientsInit
      PROVE  ClientsTypeOK /\ \A r \in Callers : task[r].pc = "idle" /\ task[r].client = NoClient
  <2>1. \A r \in Callers : task[r] = Resting
    BY <1>2 DEF ClientsInit
  <2>2. Resting \in Task /\ Resting.pc = "idle" /\ Resting.client = NoClient /\ Unborn \in Row
    BY TaskTypes
  <2> HIDE DEF Resting
  <2>3. QED
    BY <1>1, <1>2, <2>1, <2>2 DEF ClientsInit, ClientsTypeOK
<1>3. QED
  BY <1>2 DEF ClientsInv, CurrentUnlessTouched

(* client.service.ts: an answer, and a client let in, have the secret of   *)
(* the row unless somebody rewrote it meanwhile.                           *)
THEOREM SecretsAreCurrent == ClientsSpec => []CurrentUnlessTouched
<1>1. ClientsInv => CurrentUnlessTouched
  BY DEF ClientsInv
<1>2. QED
  BY <1>1, ClientsInitially, ClientsStep, PTL DEF ClientsSpec

-----------------------------------------------------------------------------
(* Roles *)
LEMMA Constants == "admin" \in Names /\ "super_admin" \in Names /\ AdminPerms \subseteq Perms
                   /\ SystemRoles \subseteq Names /\ NoEdit \in Edits /\ NoEdit.pc = "idle"
BY RolesAssumption DEF Names, NoEdit, Edits

LEMMA RolesInitially == RolesInit => RolesInv
<1> SUFFICES ASSUME RolesInit PROVE RolesInv
  OBVIOUS
<1>1. \A e \in Editors : edit[e] = NoEdit
  BY DEF RolesInit
<1>2. RolesTypeOK
  <2>1. seed \in Seeds
    BY DEF RolesInit, Seeds
  <2>2. edit \in [Editors -> Edits]
    BY Constants DEF RolesInit
  <2>3. QED
    BY <2>1, <2>2 DEF RolesInit, RolesTypeOK
<1>3. SetUnlessOverlapped
  BY DEF RolesInit, SetUnlessOverlapped
<1>4. Alone
  BY <1>1, Constants DEF Alone, Filling
<1>5. OnTheThrone
  BY DEF RolesInit, OnTheThrone
<1>6. QED
  BY <1>2, <1>3, <1>4, <1>5 DEF RolesInv

(* A step that changes neither the permissions of roles nor the editors    *)
(* between their statements keeps what relates them.                       *)
LEMMA SamePermissions ==
    ASSUME RolesInv, rolePerms' = rolePerms, meant' = meant, mixed' = mixed,
           \A e \in Editors : edit'[e] = edit[e] \/ (edit[e].pc # "fill" /\ edit'[e].pc # "fill")
    PROVE  SetUnlessOverlapped' /\ Alone'
<1>1. \A n \in Names : Filling(n)' = Filling(n)
  BY DEF Filling
<1>2. SetUnlessOverlapped'
  BY <1>1 DEF RolesInv, SetUnlessOverlapped
<1>3. \A n \in Names : \A e \in Filling(n) : edit'[e] = edit[e]
  BY DEF Filling
<1>4. Alone'
  BY <1>1, <1>3 DEF RolesInv, Alone
<1>5. QED
  BY <1>2, <1>4

LEMMA SameRows ==
    ASSUME RolesInv, UNCHANGED <<rolePerms, meant, mixed, edit>>
    PROVE  SetUnlessOverlapped' /\ Alone'
<1>1. \A n \in Names : Filling(n)' = Filling(n)
  BY DEF Filling
<1>2. SetUnlessOverlapped'
  BY <1>1 DEF RolesInv, SetUnlessOverlapped
<1>3. Alone'
  BY <1>1 DEF RolesInv, Alone
<1>4. QED
  BY <1>2, <1>3

LEMMA AskKeeps == ASSUME RolesInv, NEW e \in Editors, NEW n \in Names, NEW want \in SUBSET Perms,
                         AskPermissions(e, n, want)
                  PROVE  RolesInv'
<1> USE DEF AskPermissions, roleRows
<1>1. edit' \in [Editors -> Edits]
  BY DEF RolesInv, RolesTypeOK, Edits
<1>2. RolesTypeOK'
  BY <1>1 DEF RolesInv, RolesTypeOK, Edits
<1>3. SetUnlessOverlapped' /\ Alone'
  <2>1. \A d \in Editors : edit'[d] = edit[d] \/ (edit[d].pc # "fill" /\ edit'[d].pc # "fill")
    <3>1. \A d \in Editors \ {e} : edit'[d] = edit[d]
      BY DEF RolesInv, RolesTypeOK
    <3>2. edit[e].pc = "idle" /\ edit'[e].pc = "clear"
      BY DEF RolesInv, RolesTypeOK
    <3>3. ASSUME NEW d \in Editors
          PROVE  edit'[d] = edit[d] \/ (edit[d].pc # "fill" /\ edit'[d].pc # "fill")
      <4>1. CASE d = e
        BY <3>2, <4>1
      <4>2. CASE d # e
        BY <3>1, <4>2
      <4>3. QED
        BY <4>1, <4>2
    <3>4. QED
      BY <3>3
  <2>2. QED
    BY <2>1, SamePermissions
<1>4. OnTheThrone'
  BY DEF RolesInv, OnTheThrone
<1>5. QED
  BY <1>2, <1>3, <1>4 DEF RolesInv

LEMMA ClearKeeps == ASSUME RolesInv, NEW e \in Editors, ClearPermissions(e) PROVE RolesInv'
<1>0. PICK n \in Names : n = edit[e].role
  BY DEF RolesInv, RolesTypeOK, Edits
<1>1. edit[e] \in Edits /\ n \in Names /\ edit[e].want \in SUBSET Perms
  BY DEF RolesInv, RolesTypeOK, Edits
<1>2. edit' = [edit EXCEPT ![e] = [edit[e] EXCEPT !.pc = "fill"]]
  BY DEF ClearPermissions
<1>3. RolesTypeOK'
  <2>1. [edit[e] EXCEPT !.pc = "fill"] \in Edits
    BY <1>1 DEF Edits
  <2>2. edit' \in [Editors -> Edits]
    BY <1>2, <2>1 DEF RolesInv, RolesTypeOK, Edits
  <2>3. mixed' \in SUBSET Names
    BY <1>0, <1>1 DEF ClearPermissions, RolesInv, RolesTypeOK
  <2>4. QED
    BY <1>1, <2>2, <2>3 DEF ClearPermissions, RolesInv, RolesTypeOK, Edits
<1>4. /\ \A d \in Editors \ {e} : edit'[d] = edit[d]
      /\ edit'[e].pc = "fill" /\ edit'[e].role = n /\ edit'[e].want = edit[e].want
  BY <1>0, <1>1, <1>2 DEF RolesInv, RolesTypeOK, Edits
<1>5. /\ Filling(n)' = Filling(n) \cup {e}
      /\ \A m \in Names \ {n} : Filling(m)' = Filling(m)
  BY <1>4 DEF Filling, ClearPermissions
<1>6. /\ rolePerms'[n] = {} /\ meant'[n] = edit[e].want
      /\ \A m \in Names \ {n} : rolePerms'[m] = rolePerms[m] /\ meant'[m] = meant[m]
                                /\ (m \in mixed' <=> m \in mixed)
  BY <1>0, <1>1 DEF ClearPermissions, RolesInv, RolesTypeOK
<1>7. n \notin mixed' => Filling(n) = {}
  BY <1>0 DEF ClearPermissions
<1>8. SetUnlessOverlapped'
  <2>1. Filling(n)' # {}
    BY <1>5
  <2>2. ASSUME NEW m \in Names, m \notin mixed', Filling(m)' = {} PROVE rolePerms'[m] = meant'[m]
    <3>1. ASSUME m = n PROVE FALSE
      BY <2>1, <2>2, <3>1
    <3>2. Filling(m) = {} /\ m \notin mixed
      BY <1>5, <1>6, <2>2, <3>1
    <3>3. rolePerms[m] = meant[m]
      BY <3>2 DEF RolesInv, SetUnlessOverlapped
    <3>4. QED
      BY <1>6, <3>1, <3>3
  <2>3. QED
    BY <2>2 DEF SetUnlessOverlapped
<1>9. Alone'
  <2>1. SUFFICES ASSUME NEW m \in Names, m \notin mixed', NEW d \in Filling(m)'
                 PROVE  Filling(m)' = {d} /\ rolePerms'[m] = {} /\ meant'[m] = edit'[d].want
    BY DEF Alone
  <2>2. CASE m = n
    BY <1>4, <1>5, <1>6, <1>7, <2>1, <2>2
  <2>3. CASE m # n
    <3>1. d \in Filling(m) /\ m \notin mixed /\ d # e
      BY <1>5, <1>6, <2>1, <2>3 DEF Filling
    <3>2. Filling(m) = {d} /\ rolePerms[m] = {} /\ meant[m] = edit[d].want
      BY <3>1 DEF RolesInv, Alone
    <3>3. d \in Editors
      BY <3>1 DEF Filling
    <3>4. QED
      BY <1>4, <1>5, <1>6, <2>1, <2>3, <3>1, <3>2, <3>3
  <2>4. QED
    BY <2>2, <2>3
<1>10. OnTheThrone'
  BY DEF ClearPermissions, RolesInv, OnTheThrone
<1>11. QED
  BY <1>3, <1>8, <1>9, <1>10 DEF RolesInv

\* An editor that ends leaves its role to the others.
LEMMA EditEnds == ASSUME RolesInv, NEW e \in Editors, edit' = [edit EXCEPT ![e] = NoEdit]
                  PROVE  /\ edit' \in [Editors -> Edits]
                         /\ edit'[e].pc = "idle"
                         /\ \A d \in Editors \ {e} : edit'[d] = edit[d]
                         /\ \A n \in Names : Filling(n)' = Filling(n) \ {e}
<1>1. edit' \in [Editors -> Edits]
  BY Constants DEF RolesInv, RolesTypeOK, Edits
<1>2. edit'[e] = NoEdit /\ \A d \in Editors \ {e} : edit'[d] = edit[d]
  BY DEF RolesInv, RolesTypeOK
<1>3. edit'[e].pc = "idle"
  BY <1>2, Constants
<1>4. \A n \in Names : Filling(n)' = Filling(n) \ {e}
  BY <1>2, <1>3 DEF Filling
<1>5. QED
  BY <1>1, <1>2, <1>3, <1>4

LEMMA FillKeeps == ASSUME RolesInv, NEW e \in Editors, FillPermissions(e) PROVE RolesInv'
<1>0. PICK n \in Names : n = edit[e].role
  BY DEF RolesInv, RolesTypeOK, Edits
<1>1. edit[e] \in Edits /\ n \in Names /\ edit[e].want \in SUBSET Perms /\ edit[e].pc = "fill"
  BY DEF RolesInv, RolesTypeOK, Edits, FillPermissions
<1>2. /\ edit' \in [Editors -> Edits]
      /\ edit'[e].pc = "idle"
      /\ \A d \in Editors \ {e} : edit'[d] = edit[d]
      /\ \A m \in Names : Filling(m)' = Filling(m) \ {e}
  BY EditEnds DEF FillPermissions
<1>3. /\ rolePerms' \in [Names -> SUBSET Perms]
      /\ \A m \in Names \ {n} : rolePerms'[m] = rolePerms[m]
      /\ rolePerms[n] = {} => rolePerms'[n] = edit[e].want
  BY <1>0, <1>1 DEF FillPermissions, RolesInv, RolesTypeOK
<1>4. RolesTypeOK'
  BY <1>2, <1>3 DEF FillPermissions, RolesInv, RolesTypeOK, Edits
<1>5. n \notin mixed => Filling(n) = {e} /\ rolePerms[n] = {} /\ meant[n] = edit[e].want
  BY <1>0, <1>1 DEF RolesInv, Alone, Filling
<1>6. UNCHANGED <<meant, mixed, cut, stripped, rootRow, seed, userRoles>>
  BY DEF FillPermissions
<1>7. \A m \in Names \ {n} : e \notin Filling(m)
  BY <1>0 DEF Filling
<1>8. SetUnlessOverlapped'
  BY <1>1, <1>2, <1>3, <1>5, <1>6, <1>7 DEF RolesInv, SetUnlessOverlapped
<1>9. Alone'
  <2>1. SUFFICES ASSUME NEW m \in Names, m \notin mixed', NEW d \in Filling(m)'
                 PROVE  Filling(m)' = {d} /\ rolePerms'[m] = {} /\ meant'[m] = edit'[d].want
    BY DEF Alone
  <2>2. d \in Filling(m) /\ d # e /\ d \in Editors /\ m \notin mixed
    BY <1>2, <1>6, <2>1 DEF Filling
  <2>3. Filling(m) = {d} /\ rolePerms[m] = {} /\ meant[m] = edit[d].want
    BY <2>2 DEF RolesInv, Alone
  <2>4. m # n
    BY <1>0, <1>1, <2>2, <2>3 DEF Filling
  <2>5. QED
    BY <1>2, <1>3, <1>6, <2>1, <2>2, <2>3, <2>4
<1>10. OnTheThrone'
  BY <1>6 DEF RolesInv, OnTheThrone
<1>11. QED
  BY <1>4, <1>8, <1>9, <1>10 DEF RolesInv

LEMMA AbandonKeeps == ASSUME RolesInv, NEW e \in Editors, AbandonEdit(e) PROVE RolesInv'
<1>0. PICK n \in Names : n = edit[e].role
  BY DEF RolesInv, RolesTypeOK, Edits
<1>1. edit[e] \in Edits /\ n \in Names
  BY DEF RolesInv, RolesTypeOK, Edits
<1>2. /\ edit' \in [Editors -> Edits]
      /\ edit'[e].pc = "idle"
      /\ \A d \in Editors \ {e} : edit'[d] = edit[d]
      /\ \A m \in Names : Filling(m)' = Filling(m) \ {e}
  BY EditEnds DEF AbandonEdit
<1>3. /\ UNCHANGED <<roles, permissions, rolePerms, userRoles, rootRow, seed, meant, cut, stripped>>
      /\ mixed \subseteq mixed' /\ mixed' \subseteq mixed \cup {n}
      /\ edit[e].pc = "fill" => n \in mixed'
  BY <1>0 DEF AbandonEdit, roleRows
<1>4. RolesTypeOK'
  BY <1>1, <1>2, <1>3 DEF RolesInv, RolesTypeOK, Edits
<1>5. \A m \in Names \ mixed' : m \notin mixed /\ e \notin Filling(m)
  BY <1>0, <1>3 DEF Filling
<1>6. SetUnlessOverlapped'
  BY <1>2, <1>3, <1>5 DEF RolesInv, SetUnlessOverlapped
<1>7. Alone'
  <2>1. SUFFICES ASSUME NEW m \in Names, m \notin mixed', NEW d \in Filling(m)'
                 PROVE  Filling(m)' = {d} /\ rolePerms'[m] = {} /\ meant'[m] = edit'[d].want
    BY DEF Alone
  <2>2. d \in Filling(m) /\ d # e /\ d \in Editors /\ m \notin mixed
    BY <1>2, <1>5, <2>1 DEF Filling
  <2>3. Filling(m) = {d} /\ rolePerms[m] = {} /\ meant[m] = edit[d].want
    BY <2>2 DEF RolesInv, Alone
  <2>4. QED
    BY <1>2, <1>3, <2>1, <2>2, <2>3
<1>8. OnTheThrone'
  BY <1>3 DEF RolesInv, OnTheThrone
<1>9. QED
  BY <1>4, <1>6, <1>7, <1>8 DEF RolesInv

LEMMA StatementsKeep ==
    ASSUME RolesInv,
           \/ \E n \in Customs : CreateRole(n)
           \/ \E u \in Users, n \in Names : AssignRole(u, n) \/ RemoveRole(u, n)
    PROVE  RolesInv'
<1>1. ASSUME NEW n \in Customs, CreateRole(n) PROVE RolesInv'
  <2>1. RolesTypeOK'
    BY <1>1 DEF CreateRole, RolesInv, RolesTypeOK, Names
  <2>2. SetUnlessOverlapped' /\ Alone'
    <3>1. UNCHANGED <<rolePerms, meant, mixed, edit>>
      BY <1>1 DEF CreateRole
    <3>2. QED
      BY <3>1, SameRows
  <2>3. OnTheThrone'
    BY <1>1 DEF CreateRole, RolesInv, OnTheThrone
  <2>4. QED
    BY <2>1, <2>2, <2>3 DEF RolesInv
<1>2. ASSUME NEW u \in Users, NEW n \in Names, AssignRole(u, n) PROVE RolesInv'
  <2>1. RolesTypeOK'
    BY <1>2 DEF AssignRole, RolesInv, RolesTypeOK
  <2>2. SetUnlessOverlapped' /\ Alone'
    <3>1. UNCHANGED <<rolePerms, meant, mixed, edit>>
      BY <1>2 DEF AssignRole
    <3>2. QED
      BY <3>1, SameRows
  <2>3. userRoles[Root] \subseteq userRoles'[Root]
    BY <1>2, RolesAssumption DEF AssignRole, RolesInv, RolesTypeOK
  <2>4. OnTheThrone'
    BY <1>2, <2>3 DEF AssignRole, RolesInv, OnTheThrone
  <2>5. QED
    BY <2>1, <2>2, <2>4 DEF RolesInv
<1>3. ASSUME NEW u \in Users, NEW n \in Names, RemoveRole(u, n) PROVE RolesInv'
  <2>1. RolesTypeOK'
    BY <1>3 DEF RemoveRole, RolesInv, RolesTypeOK
  <2>2. SetUnlessOverlapped' /\ Alone'
    <3>1. UNCHANGED <<rolePerms, meant, mixed, edit>>
      BY <1>3 DEF RemoveRole
    <3>2. QED
      BY <3>1, SameRows
  <2>3. stripped' \/ (userRoles'[Root] = userRoles[Root] /\ stripped' = stripped)
    <3>1. CASE u = Root
      <4>1. stripped' = (stripped \/ u = Root)
        BY <1>3 DEF RemoveRole
      <4>2. QED
        BY <3>1, <4>1
    <3>2. CASE u # Root
      <4>1. userRoles'[Root] = userRoles[Root]
        BY <1>3, <3>2, RolesAssumption DEF RemoveRole, RolesInv, RolesTypeOK
      <4>2. stripped' = (stripped \/ u = Root)
        BY <1>3 DEF RemoveRole
      <4>3. stripped' = stripped
        BY <3>2, <4>2 DEF RolesInv, RolesTypeOK
      <4>4. QED
        BY <4>1, <4>3
    <3>3. QED
      BY <3>1, <3>2
  <2>4. OnTheThrone'
    BY <1>3, <2>3 DEF RemoveRole, RolesInv, OnTheThrone
  <2>5. QED
    BY <2>1, <2>2, <2>4 DEF RolesInv
<1>4. QED
  BY <1>1, <1>2, <1>3

\* What the seed may turn to next.
LEMMA SeedPlaces ==
    /\ \A todo \in SUBSET SystemRoles : SeedTo("roles", todo) => seed' \in Seeds /\ seed'.pc = "roles"
    /\ \A pc \in {"permissions", "grants"}, todo \in SUBSET Perms :
          SeedTo(pc, todo) => seed' \in Seeds /\ seed'.pc = pc
    /\ \A pc \in {"off", "user", "super", "admin", "done"} :
          SeedTo(pc, {}) => seed' \in Seeds /\ seed'.pc = pc
BY DEF SeedTo, Seeds

LEMMA SeedGrantKeeps == ASSUME RolesInv, SeedGrant PROVE RolesInv'
<1>1. seed.pc = "grants" /\ seed \in Seeds
  BY DEF SeedGrant, RolesInv, RolesTypeOK
<1>2. CASE seed.todo = {}
  <2>1. seed' \in Seeds /\ seed'.pc = "user"
    <3>1. SeedTo("user", {})
      BY <1>2 DEF SeedGrant
    <3>2. QED
      BY <3>1, SeedPlaces
  <2>2. RolesTypeOK'
    BY <1>2, <2>1 DEF SeedGrant, RolesInv, RolesTypeOK
  <2>3. SetUnlessOverlapped' /\ Alone'
    <3>1. UNCHANGED <<rolePerms, meant, mixed, edit>>
      BY <1>2 DEF SeedGrant
    <3>2. QED
      BY <3>1, SameRows
  <2>4. OnTheThrone'
    BY <1>1, <1>2, <2>1 DEF SeedGrant, RolesInv, OnTheThrone
  <2>5. QED
    BY <2>2, <2>3, <2>4 DEF RolesInv
<1>3. CASE seed.todo # {}
  <2>1. PICK p \in seed.todo :
           /\ SeedTo("grants", seed.todo \ {p})
           /\ rolePerms' = [rolePerms EXCEPT !["admin"] = @ \cup {p}]
           /\ meant' = [meant EXCEPT !["admin"] = @ \cup {p}]
           /\ mixed' = IF Filling("admin") = {} THEN mixed ELSE mixed \cup {"admin"}
    BY <1>3 DEF SeedGrant
  <2>2. UNCHANGED <<roles, permissions, userRoles, rootRow, edit, cut, stripped>>
    BY DEF SeedGrant
  <2>3. p \in Perms
    BY <1>1, <2>1 DEF Seeds
  <2>4. seed' \in Seeds /\ seed'.pc = "grants"
    <3>1. seed.todo \ {p} \in SUBSET Perms
      BY <1>1 DEF Seeds
    <3>2. QED
      BY <2>1, <3>1, SeedPlaces
  <2>5. RolesTypeOK'
    <3>1. /\ rolePerms' \in [Names -> SUBSET Perms]
          /\ meant' \in [Names -> SUBSET Perms]
          /\ mixed' \in SUBSET Names
      BY <2>1, <2>3, Constants DEF RolesInv, RolesTypeOK
    <3>2. QED
      BY <2>2, <2>4, <3>1 DEF RolesInv, RolesTypeOK
  <2>6. \A n \in Names : Filling(n)' = Filling(n)
    BY <2>2 DEF Filling
  <2>7. \A n \in Names \ mixed' :
           /\ n \notin mixed
           /\ n = "admin" => Filling(n) = {}
           /\ n # "admin" => rolePerms'[n] = rolePerms[n] /\ meant'[n] = meant[n]
    BY <2>1 DEF RolesInv, RolesTypeOK
  <2>8. SetUnlessOverlapped'
    <3>1. rolePerms["admin"] = meant["admin"] => rolePerms'["admin"] = meant'["admin"]
      BY <2>1, Constants DEF RolesInv, RolesTypeOK
    <3>2. QED
      BY <2>6, <2>7, <3>1 DEF RolesInv, SetUnlessOverlapped
  <2>9. Alone'
    BY <2>2, <2>6, <2>7 DEF RolesInv, Alone
  <2>10. OnTheThrone'
    BY <1>1, <2>2, <2>4 DEF RolesInv, OnTheThrone
  <2>11. QED
    BY <2>5, <2>8, <2>9, <2>10 DEF RolesInv
<1>4. QED
  BY <1>2, <1>3

(* The rest of the script leaves the permissions of roles alone: what is   *)
(* left is where it goes, and the seeded user.                             *)
LEMMA SeedElsewhere ==
    ASSUME RolesInv, UNCHANGED <<rolePerms, edit, meant, mixed, stripped>>,
           roles' \in SUBSET Names, permissions' \in SUBSET Perms,
           userRoles' \in [Users -> SUBSET Names], rootRow' \in {"none", "seeded", "registered"},
           cut' \in BOOLEAN,
           seed' \in Seeds, OnTheThrone'
    PROVE  RolesInv'
<1>2. RolesTypeOK'
  BY DEF RolesInv, RolesTypeOK
<1>3. SetUnlessOverlapped' /\ Alone'
  BY SameRows
<1>4. QED
  BY <1>2, <1>3 DEF RolesInv

\* Until it comes to the user, the script only matters to who has no row yet.
LEMMA SeedEarly ==
    ASSUME RolesInv, seed.pc \notin {"super", "admin"}, UNCHANGED <<userRoles, rootRow, stripped>>,
           cut' = cut, seed'.pc \notin {"super", "admin", "done"}
    PROVE  OnTheThrone'
BY DEF RolesInv, OnTheThrone

LEMMA SeedRowsKeep == ASSUME RolesInv, StartSeed \/ SeedRole \/ SeedPermission PROVE RolesInv'
<1>1. seed \in Seeds /\ roles \in SUBSET Names /\ permissions \in SUBSET Perms
      /\ userRoles \in [Users -> SUBSET Names] /\ rootRow \in {"none", "seeded", "registered"}
      /\ cut \in BOOLEAN
  BY DEF RolesInv, RolesTypeOK
<1>2. /\ UNCHANGED <<rolePerms, userRoles, rootRow, edit, meant, mixed, cut, stripped>>
      /\ seed.pc \notin {"super", "admin"}
  BY DEF StartSeed, SeedRole, SeedPermission, roleRows
<1>3. /\ seed' \in Seeds /\ seed'.pc \in {"roles", "permissions", "grants"}
      /\ roles' \in SUBSET Names /\ permissions' \in SUBSET Perms
  <2>1. CASE StartSeed
    <3>1. SeedTo("roles", SystemRoles) /\ UNCHANGED <<roles, permissions>>
      BY <2>1 DEF StartSeed, roleRows
    <3>2. QED
      BY <1>1, <3>1, SeedPlaces
  <2>2. CASE SeedRole
    <3>1. PICK n \in seed.todo :
             /\ roles' = roles \cup {n}
             /\ IF seed.todo = {n} THEN SeedTo("permissions", Perms)
                                   ELSE SeedTo("roles", seed.todo \ {n})
      BY <2>2 DEF SeedRole
    <3>2. seed.todo \in SUBSET SystemRoles /\ permissions' = permissions
      BY <1>1, <2>2 DEF SeedRole, Seeds
    <3>3. roles' \in SUBSET Names
      BY <1>1, <3>1, <3>2, Constants
    <3>4. seed' \in Seeds /\ seed'.pc \in {"roles", "permissions"}
      BY <3>1, <3>2, SeedPlaces
    <3>5. QED
      BY <1>1, <3>2, <3>3, <3>4
  <2>3. CASE SeedPermission
    <3>1. seed.todo \in SUBSET Perms /\ roles' = roles
      BY <1>1, <2>3 DEF SeedPermission, Seeds
    <3>2. CASE seed.todo = {}
      <4>1. SeedTo("grants", AdminPerms) /\ permissions' = permissions
        BY <2>3, <3>2 DEF SeedPermission
      <4>2. QED
        BY <1>1, <3>1, <4>1, Constants, SeedPlaces
    <3>3. CASE seed.todo # {}
      <4>1. PICK p \in seed.todo : permissions' = permissions \cup {p}
                                   /\ SeedTo("permissions", seed.todo \ {p})
        BY <2>3, <3>3 DEF SeedPermission
      <4>2. seed.todo \ {p} \in SUBSET Perms /\ permissions' \in SUBSET Perms
        BY <1>1, <3>1, <4>1
      <4>3. seed' \in Seeds /\ seed'.pc = "permissions"
        BY <4>1, <4>2, SeedPlaces
      <4>4. QED
        BY <1>1, <3>1, <4>2, <4>3
    <3>4. QED
      BY <3>2, <3>3
  <2>4. QED
    BY <2>1, <2>2, <2>3
<1>4. OnTheThrone'
  BY <1>2, <1>3, SeedEarly
<1>5. QED
  BY <1>1, <1>2, <1>3, <1>4, SeedElsewhere

\* Nobody registers with the address while the seed gives its own user the roles.
LEMMA RegisterRootKeeps == ASSUME RolesInv, RegisterRoot PROVE RolesInv'
<1>1. RolesTypeOK /\ OnTheThrone
  BY DEF RolesInv
<1>2. rootRow = "none" /\ rootRow' = "registered"
      /\ UNCHANGED <<roles, permissions, rolePerms, userRoles, seed, edit, meant, mixed,
                     cut, stripped>>
  BY DEF RegisterRoot
<1>3. OnTheThrone'
  BY <1>1, <1>2 DEF OnTheThrone
<1>4. QED
  BY <1>1, <1>2, <1>3, SeedElsewhere DEF RolesTypeOK

LEMMA SeedUserKeeps == ASSUME RolesInv, SeedUser \/ SeedMembership \/ SeedDies PROVE RolesInv'
<1>1. seed \in Seeds /\ roles \in SUBSET Names /\ permissions \in SUBSET Perms
      /\ userRoles \in [Users -> SUBSET Names] /\ rootRow \in {"none", "seeded", "registered"}
      /\ cut \in BOOLEAN
  BY DEF RolesInv, RolesTypeOK
<1>2. UNCHANGED <<roles, permissions, rolePerms, edit, meant, mixed, stripped>>
  BY DEF SeedUser, SeedMembership, SeedDies, roleRows
<1>3. CASE SeedUser
  <2>1. /\ seed.pc = "user" /\ UNCHANGED <<userRoles, cut>>
        /\ rootRow' = IF rootRow = "none" THEN "seeded" ELSE rootRow
        /\ SeedTo(IF rootRow = "none" THEN "super" ELSE "done", {})
    BY <1>3 DEF SeedUser
  <2>2. seed' \in Seeds /\ seed'.pc = IF rootRow = "none" THEN "super" ELSE "done"
    BY <2>1, SeedPlaces
  <2>3. OnTheThrone'
    BY <1>2, <2>1, <2>2 DEF RolesInv, OnTheThrone
  <2>4. QED
    BY <1>1, <1>2, <2>1, <2>2, <2>3, SeedElsewhere
<1>4. CASE SeedMembership
  <2>1. PICK n \in {"super_admin", "admin"} :
           /\ seed.pc = IF n = "admin" THEN "admin" ELSE "super"
           /\ userRoles' = [userRoles EXCEPT ![Root] = @ \cup {n}]
           /\ SeedTo(IF n = "admin" THEN "done" ELSE "admin", {})
    BY <1>4 DEF SeedMembership
  <2>2. UNCHANGED <<rootRow, cut>>
    BY <1>4 DEF SeedMembership
  <2>3. seed' \in Seeds /\ seed'.pc = IF n = "admin" THEN "done" ELSE "admin"
    BY <2>1, SeedPlaces
  <2>4. userRoles' \in [Users -> SUBSET Names]
        /\ userRoles'[Root] = userRoles[Root] \cup {n}
    BY <1>1, <2>1, Constants, RolesAssumption
  <2>5. OnTheThrone'
    BY <1>2, <2>1, <2>2, <2>3, <2>4 DEF RolesInv, OnTheThrone
  <2>6. QED
    BY <1>1, <1>2, <2>2, <2>3, <2>4, <2>5, SeedElsewhere
<1>5. CASE SeedDies
  <2>1. UNCHANGED <<userRoles, rootRow>> /\ SeedTo("off", {})
    BY <1>5 DEF SeedDies, roleRows
  <2>2. cut' = (cut \/ seed.pc \in {"super", "admin"}) /\ seed.pc # "done"
    BY <1>5 DEF SeedDies
  <2>3. seed' \in Seeds /\ seed'.pc = "off"
    BY <2>1, SeedPlaces
  <2>4. CASE cut \/ seed.pc \in {"super", "admin"}
    <3>1. cut' = TRUE
      BY <2>2, <2>4
    <3>2. OnTheThrone'
      BY <3>1 DEF OnTheThrone
    <3>3. QED
      BY <1>1, <1>2, <2>1, <2>3, <3>1, <3>2, SeedElsewhere
  <2>5. CASE ~cut /\ seed.pc \notin {"super", "admin"}
    <3>1. cut' = FALSE /\ cut = FALSE
      BY <1>1, <2>2, <2>5
    <3>2. OnTheThrone'
      BY <1>2, <2>1, <2>2, <2>3, <2>5, <3>1 DEF RolesInv, OnTheThrone
    <3>3. QED
      BY <1>1, <1>2, <2>1, <2>3, <3>1, <3>2, SeedElsewhere
  <2>6. QED
    BY <2>4, <2>5
<1>6. QED
  BY <1>3, <1>4, <1>5

LEMMA RolesStep == RolesInv /\ [RolesNext]_roleVars => RolesInv'
<1> SUFFICES ASSUME RolesInv, [RolesNext]_roleVars PROVE RolesInv'
  OBVIOUS
<1>1. CASE Seeding
  BY <1>1, SeedRowsKeep, SeedGrantKeeps, SeedUserKeeps DEF Seeding
<1>6. CASE RegisterRoot
  BY <1>6, RegisterRootKeeps
<1>2. CASE \/ \E n \in Customs : CreateRole(n)
           \/ \E u \in Users, n \in Names : AssignRole(u, n) \/ RemoveRole(u, n)
  BY <1>2, StatementsKeep
<1>3. CASE \E e \in Editors : EditStep(e)
  BY <1>3, ClearKeeps, FillKeeps, AbandonKeeps DEF EditStep
<1>4. CASE \E e \in Editors, n \in Names, want \in SUBSET Perms : AskPermissions(e, n, want)
  BY <1>4, AskKeeps
<1>5. CASE UNCHANGED roleVars
  BY <1>5 DEF roleVars, roleRows, RolesInv, RolesTypeOK, SetUnlessOverlapped, Alone, OnTheThrone, Filling
<1>7. QED
  BY <1>1, <1>2, <1>3, <1>4, <1>5, <1>6 DEF RolesNext

(* rbac.service.ts: the permissions of a role are those it was last given, *)
(* unless two requests overlapped at it or one died between its statements. *)
THEOREM RolesAreSet == RolesSpec => []SetUnlessOverlapped
<1>1. RolesInv => SetUnlessOverlapped
  BY DEF RolesInv
<1>2. QED
  BY <1>1, RolesInitially, RolesStep, PTL DEF RolesSpec

(* seed.ts: a completed seed leaves the seeded user with both roles,       *)
(* unless an earlier one died while it gave them, or they were taken.      *)
THEOREM RootReigns == RolesSpec => []RootReignsUnlessCut
<1>1. RolesInv => RootReignsUnlessCut
  BY DEF RolesInv, OnTheThrone, RootReignsUnlessCut
<1>2. QED
  BY <1>1, RolesInitially, RolesStep, PTL DEF RolesSpec

(* Both at once: what a role may do, and who may repair it. *)
THEOREM RolesStandUp == RolesSpec => []RolesStand
<1>1. SetUnlessOverlapped /\ RootReignsUnlessCut => RolesStand
  BY DEF RolesStand
<1>2. QED
  BY <1>1, RolesAreSet, RootReigns, PTL

-----------------------------------------------------------------------------
(* The composition *)

(* Every step is one of each component, or leaves it alone.                *)
LEMMA ComponentSteps ==
    ASSUME [AccessNext]_vars
    PROVE  [KeysNext]_keyVars /\ [ClientsNext]_clientVars /\ [RolesNext]_roleVars
<1> USE RequestsAssumption
<1>1. CASE (Seeding \/ RegisterRoot) /\ UNCHANGED <<keyVars, clientVars, accessVars>>
  BY <1>1 DEF RolesNext
<1>2. ASSUME NEW s \in Services, Restart(s) /\ UNCHANGED <<clientVars, roleVars, accessVars>>
      PROVE  [KeysNext]_keyVars /\ [ClientsNext]_clientVars /\ [RolesNext]_roleVars
  BY <1>2 DEF KeysNext
<1>3. ASSUME NEW s \in Sessions, NEW u \in Users, OpenSession(s, u)
      PROVE  [KeysNext]_keyVars /\ [ClientsNext]_clientVars /\ [RolesNext]_roleVars
  BY <1>3 DEF OpenSession
<1>4. ASSUME NEW s \in Sessions, ExpireSession(s)
      PROVE  [KeysNext]_keyVars /\ [ClientsNext]_clientVars /\ [RolesNext]_roleVars
  BY <1>4 DEF ExpireSession
<1>5. CASE DeleteExpired
  BY <1>5 DEF DeleteExpired
<1>6. ASSUME NEW r \in Requests, RequireSession(r) \/ EndSession(r) \/ PermitAdministration(r)
      PROVE  [KeysNext]_keyVars /\ [ClientsNext]_clientVars /\ [RolesNext]_roleVars
  BY <1>6 DEF RequireSession, EndSession, PermitAdministration
<1>7. ASSUME NEW r \in Requests, AdministerRoles(r) \/ ReplacePermissions(r)
      PROVE  [KeysNext]_keyVars /\ [ClientsNext]_clientVars /\ [RolesNext]_roleVars
  BY <1>7 DEF AdministerRoles, ReplacePermissions, RolesNext, EditStep
<1>8. ASSUME NEW r \in Requests, AdministerClients(r) \/ AnswerWithSecret(r) \/ AuthenticateClient(r)
      PROVE  [KeysNext]_keyVars /\ [ClientsNext]_clientVars /\ [RolesNext]_roleVars
  BY <1>8 DEF AdministerClients, AnswerWithSecret, AuthenticateClient, ClientsNext, AdministerClient
<1>9. ASSUME NEW r \in Requests, IssueToClient(r) \/ SignBundle(r) \/ DeliverBundle(r) \/ UseKey(r)
      PROVE  [KeysNext]_keyVars /\ [ClientsNext]_clientVars /\ [RolesNext]_roleVars
  BY <1>9 DEF IssueToClient, SignBundle, DeliverBundle, UseKey, KeysNext, ClientsNext
<1>10. ASSUME NEW r \in Requests, GiveUp(r)
       PROVE  [KeysNext]_keyVars /\ [ClientsNext]_clientVars /\ [RolesNext]_roleVars
  BY <1>10 DEF GiveUp, KeysNext, ClientsNext, RolesNext, EditStep
<1>11. ASSUME NEW r \in Requests, NEW s \in Sessions, FindSession(r, s)
       PROVE  [KeysNext]_keyVars /\ [ClientsNext]_clientVars /\ [RolesNext]_roleVars
  BY <1>11 DEF FindSession
<1>12. ASSUME NEW r \in Requests, NEW c \in Clients, ResolveClient(r, c)
       PROVE  [KeysNext]_keyVars /\ [ClientsNext]_clientVars /\ [RolesNext]_roleVars
  BY <1>12 DEF ResolveClient, ClientsNext
<1>13. ASSUME NEW r \in Requests, NEW s \in Services, ClientCredentials(r, s) \/ RotateKeys(r, s)
       PROVE  [KeysNext]_keyVars /\ [ClientsNext]_clientVars /\ [RolesNext]_roleVars
  BY <1>13 DEF ClientCredentials, RotateKeys, KeysNext
<1>14. ASSUME NEW r \in Requests, NEW u \in Users, NEW c \in Clients, NEW s \in Services,
              BeginBundle(r, u, c, s)
       PROVE  [KeysNext]_keyVars /\ [ClientsNext]_clientVars /\ [RolesNext]_roleVars
  BY <1>14 DEF BeginBundle, KeysNext
<1>15. ASSUME NEW c \in Clients, EndRefresh(c)
       PROVE  [KeysNext]_keyVars /\ [ClientsNext]_clientVars /\ [RolesNext]_roleVars
  BY <1>15 DEF EndRefresh
<1>16. ASSUME NEW t \in AccessToken, ExpireToken(t)
       PROVE  [KeysNext]_keyVars /\ [ClientsNext]_clientVars /\ [RolesNext]_roleVars
  BY <1>16 DEF ExpireToken
<1>17. CASE UNCHANGED vars
  BY <1>17 DEF vars
<1>18. QED
  BY <1>1, <1>2, <1>3, <1>4, <1>5, <1>6, <1>7, <1>8, <1>9, <1>10, <1>11, <1>12, <1>13,
     <1>14, <1>15, <1>16, <1>17 DEF AccessNext

-----------------------------------------------------------------------------
(* What stays true of a request while another one moves. *)

(* No published key is withdrawn.                                          *)
LEMMA JwksGrows == ASSUME KeysInv, [KeysNext]_keyVars PROVE Jwks \subseteq Jwks'
<1> USE DEF Jwks, KeysInv, KeysTypeOK
<1>1. ASSUME NEW r \in Requests, KeyStep(r) \/ Sign(r) \/ AbandonKey(r) PROVE Jwks \subseteq Jwks'
  BY <1>1 DEF KeyStep, SelectActive, ImportKey, InsertKey, Sign, AbandonKey
<1>2. ASSUME NEW r \in Requests, NEW s \in Services, BeginUse(r, s) \/ RetireKeys(r, s)
      PROVE  Jwks \subseteq Jwks'
  BY <1>2 DEF BeginUse, RetireKeys
<1>3. ASSUME NEW s \in Services, Restart(s) PROVE Jwks \subseteq Jwks'
  BY <1>3 DEF Restart
<1>4. QED
  BY <1>1, <1>2, <1>3 DEF KeysNext, keyVars

(* No user is deleted.                                                     *)
LEMMA UsersStay == ASSUME [RolesNext]_roleVars, NEW u, UserExists(u) PROVE UserExists(u)'
<1>1. rootRow # "none" => rootRow' # "none"
  BY DEF RolesNext, RegisterRoot, Seeding, StartSeed, SeedRole, SeedPermission, SeedGrant, SeedUser,
         SeedMembership, SeedDies, CreateRole, AssignRole, RemoveRole, EditStep,
         ClearPermissions, FillPermissions, AbandonEdit, AskPermissions, roleVars, roleRows
<1>2. QED
  BY <1>1 DEF UserExists

LEMMA OthersStay ==
    ASSUME NEW q \in Requests, Sound(q), AccessInv, [AccessNext]_vars,
           use'[q] = use[q], task'[q] = task[q], edit'[q] = edit[q], visit'[q] = visit[q]
    PROVE  Sound(q)'
<1>1. Jwks \subseteq Jwks' /\ (UserExists(visit[q].who) => UserExists(visit[q].who)')
  BY ComponentSteps, JwksGrows, UsersStay DEF AccessInv
<1>2. QED
  BY <1>1 DEF Sound, AtWork, UserExists

LEMMA TokensStay ==
    ASSUME AccessInv, [AccessNext]_vars, NEW t \in issued PROVE Known(t)'
<1>1. Jwks \subseteq Jwks' /\ (UserExists(t.sub) => UserExists(t.sub)')
  BY ComponentSteps, JwksGrows, UsersStay DEF AccessInv
<1>2. QED
  BY <1>1 DEF AccessInv, Known, UserExists

(* A step of request r: it remains to look at r, at the tables and at new  *)
(* tokens.                                                                 *)
LEMMA OneMoved ==
    ASSUME AccessInv, [AccessNext]_vars, NEW r \in Requests,
           \A q \in Requests \ {r} : /\ use'[q] = use[q] /\ task'[q] = task[q]
                                    /\ edit'[q] = edit[q] /\ visit'[q] = visit[q],
           Sound(r)', TablesOK', \A t \in issued' \ issued : Known(t)'
    PROVE  AccessInv'
<1>1. KeysInv' /\ ClientsInv' /\ RolesInv'
  BY ComponentSteps, KeysStep, ClientsStep, RolesStep DEF AccessInv
<1>2. \A q \in Requests \ {r} : Sound(q)'
  BY OthersStay DEF AccessInv
<1>3. \A q \in Requests : Sound(q)'
  BY <1>2
<1>4. \A t \in issued' : Known(t)'
  BY TokensStay
<1>5. QED
  BY <1>1, <1>3, <1>4 DEF AccessInv

(* A step that no request takes.                                           *)
LEMMA NoneMoved ==
    ASSUME AccessInv, [AccessNext]_vars,
           \A q \in Requests : /\ use'[q] = use[q] /\ task'[q] = task[q]
                              /\ edit'[q] = edit[q] /\ visit'[q] = visit[q],
           TablesOK', issued' \subseteq issued
    PROVE  AccessInv'
<1>1. KeysInv' /\ ClientsInv' /\ RolesInv'
  BY ComponentSteps, KeysStep, ClientsStep, RolesStep DEF AccessInv
<1>2. \A q \in Requests : Sound(q)'
  BY OthersStay DEF AccessInv
<1>3. \A t \in issued' : Known(t)'
  BY TokensStay
<1>4. QED
  BY <1>1, <1>2, <1>3 DEF AccessInv

-----------------------------------------------------------------------------
(* The actions. *)

LEMMA SessionsKeep ==
    ASSUME AccessInv, [AccessNext]_vars,
           \/ (Seeding \/ RegisterRoot) /\ UNCHANGED <<keyVars, clientVars, accessVars>>
           \/ \E s \in Services : Restart(s) /\ UNCHANGED <<clientVars, roleVars, accessVars>>
           \/ \E s \in Sessions, u \in Users : OpenSession(s, u)
           \/ \E s \in Sessions : ExpireSession(s)
           \/ DeleteExpired
           \/ \E c \in Clients : EndRefresh(c)
           \/ \E t \in AccessToken : ExpireToken(t)
    PROVE  AccessInv'
<1>1. TablesOK
  BY DEF AccessInv
<1>2. CASE (Seeding \/ RegisterRoot) /\ UNCHANGED <<keyVars, clientVars, accessVars>>
  <2>1. edit' = edit
    BY <1>2 DEF Seeding, StartSeed, SeedRole, SeedPermission, SeedGrant, SeedUser,
                SeedMembership, SeedDies, RegisterRoot
  <2>2. QED
    BY <1>1, <1>2, <2>1, NoneMoved DEF TablesOK, keyVars, clientVars, accessVars
<1>3. CASE \E s \in Services : Restart(s) /\ UNCHANGED <<clientVars, roleVars, accessVars>>
  BY <1>1, <1>3, NoneMoved DEF TablesOK, Restart, clientVars, roleVars, accessVars
<1>4. ASSUME NEW s \in Sessions, NEW u \in Users, OpenSession(s, u) PROVE AccessInv'
  <2>1. TablesOK'
    BY <1>1, <1>4 DEF TablesOK, OpenSession, SessionRow
  <2>2. QED
    BY <1>4, <2>1, NoneMoved DEF OpenSession, keyVars, clientVars, roleVars
<1>5. ASSUME NEW s \in Sessions, ExpireSession(s) PROVE AccessInv'
  <2>1. TablesOK'
    BY <1>1, <1>5 DEF TablesOK, ExpireSession, SessionRow
  <2>2. QED
    BY <1>5, <2>1, NoneMoved DEF ExpireSession, keyVars, clientVars, roleVars
<1>6. CASE DeleteExpired
  <2>1. TablesOK'
    BY <1>1, <1>6 DEF TablesOK, DeleteExpired, SessionRow
  <2>2. QED
    BY <1>6, <2>1, NoneMoved DEF DeleteExpired, keyVars, clientVars, roleVars
<1>7. ASSUME NEW c \in Clients, EndRefresh(c) PROVE AccessInv'
  <2>1. TablesOK'
    BY <1>1, <1>7 DEF TablesOK, EndRefresh
  <2>2. QED
    BY <1>7, <2>1, NoneMoved DEF EndRefresh, keyVars, clientVars, roleVars
<1>8. ASSUME NEW t \in AccessToken, ExpireToken(t) PROVE AccessInv'
  <2>1. TablesOK'
    BY <1>1, <1>8 DEF TablesOK, ExpireToken
  <2>2. QED
    BY <1>8, <2>1, NoneMoved DEF ExpireToken, keyVars, clientVars, roleVars
<1>9. QED
  BY <1>2, <1>3, <1>4, <1>5, <1>6, <1>7, <1>8

(* Where a request may go next, with whatever it carries already.          *)
LEMMA Moving ==
    ASSUME AccessInv, NEW r \in Requests
    PROVE  /\ Outside \in Visit /\ Outside.pc = "out"
           /\ visit[r] \in Visit
           /\ \A pc \in {"out", "in", "leaving", "roles", "clients", "client", "credentials",
                          "bundle", "signed", "renewal", "renewed", "rotate"} : [visit[r] EXCEPT !.pc = pc] \in Visit
BY DEF AccessInv, TablesOK, Visit, Outside

(* Signing in, asking for permission and ending a session touch no key, no *)
(* client and no role.                                                     *)
LEMMA VisitsKeep ==
    ASSUME AccessInv, [AccessNext]_vars, NEW r \in Requests,
           \/ RequireSession(r) \/ EndSession(r) \/ PermitAdministration(r)
           \/ \E s \in Sessions : FindSession(r, s)
    PROVE  AccessInv'
<1>1. TablesOK /\ Sound(r)
  BY DEF AccessInv
<1>2. CASE RequireSession(r)
  <2>1. PICK u \in Users : visit' = [visit EXCEPT ![r].pc = "in", ![r].who = u]
    BY <1>2 DEF RequireSession
  <2>2. visit'[r] \in Visit /\ visit'[r].pc = "in"
    BY <1>1, <2>1 DEF TablesOK, Visit
  <2>3. TablesOK'
    BY <1>1, <1>2, <2>1, <2>2 DEF TablesOK, RequireSession
  <2>4. Sound(r)'
    BY <1>1, <1>2, <2>2 DEF RequireSession, Sound, AtWork, keyVars, clientVars, roleVars
  <2>5. QED
    BY <1>1, <1>2, <2>1, <2>3, <2>4, OneMoved
       DEF RequireSession, TablesOK, keyVars, clientVars, roleVars
<1>3. CASE EndSession(r)
  <2>1. visit' = [visit EXCEPT ![r] = Outside]
    BY <1>3 DEF EndSession, Leave
  <2>2. TablesOK'
    BY <1>1, <1>3, <2>1, Moving DEF TablesOK, EndSession, SessionRow
  <2>3. Sound(r)'
    BY <1>1, <1>3, <2>1, Moving DEF EndSession, TablesOK, Sound, AtWork, keyVars, clientVars, roleVars
  <2>4. QED
    BY <1>1, <1>3, <2>1, <2>2, <2>3, OneMoved
       DEF EndSession, TablesOK, keyVars, clientVars, roleVars
<1>4. CASE PermitAdministration(r)
  <2>1. PICK pc \in {"roles", "clients"} : visit' = [visit EXCEPT ![r].pc = pc]
    BY <1>4 DEF PermitAdministration, Goto
  <2>2. TablesOK'
    BY <1>1, <1>4, <2>1, Moving DEF TablesOK, PermitAdministration
  <2>3. visit'[r].pc = pc
    BY <1>1, <2>1 DEF TablesOK, Visit
  <2>4. Sound(r)'
    BY <1>1, <1>4, <2>3 DEF PermitAdministration, Sound, AtWork, keyVars, clientVars, roleVars
  <2>5. QED
    BY <1>1, <1>4, <2>1, <2>2, <2>4, OneMoved
       DEF PermitAdministration, TablesOK, keyVars, clientVars, roleVars
<1>5. ASSUME NEW s \in Sessions, FindSession(r, s) PROVE AccessInv'
  <2>1. visit'[r] \in Visit /\ visit'[r].pc = "leaving"
    BY <1>1, <1>5 DEF FindSession, TablesOK, Visit
  <2>2. TablesOK'
    BY <1>1, <1>5, <2>1 DEF TablesOK, FindSession
  <2>3. Sound(r)'
    BY <1>1, <1>5, <2>1 DEF FindSession, Sound, AtWork, keyVars, clientVars, roleVars
  <2>4. QED
    BY <1>1, <1>5, <2>2, <2>3, OneMoved
       DEF FindSession, TablesOK, keyVars, clientVars, roleVars
<1>6. QED
  BY <1>2, <1>3, <1>4, <1>5

(* The work of an administrator.                                           *)
LEMMA AdministrationKeeps ==
    ASSUME AccessInv, [AccessNext]_vars, NEW r \in Requests,
           \/ AdministerRoles(r) \/ ReplacePermissions(r)
           \/ AdministerClients(r) \/ AnswerWithSecret(r)
    PROVE  AccessInv'
<1> USE RequestsAssumption
<1>1. TablesOK /\ Sound(r) /\ task \in [Requests -> Task] /\ edit \in [Requests -> Edits]
  BY DEF AccessInv, ClientsInv, ClientsTypeOK, RolesInv, RolesTypeOK
<1>2. ASSUME AdministerRoles(r) PROVE AccessInv'
  <2>1. CASE /\ \/ \E n \in Customs : CreateRole(n)
                \/ \E u \in Users, n \in Names : AssignRole(u, n) \/ RemoveRole(u, n)
             /\ Leave(r)
    <3>1. edit' = edit /\ visit' = [visit EXCEPT ![r] = Outside]
      BY <2>1 DEF CreateRole, AssignRole, RemoveRole, Leave
    <3>2. TablesOK'
      BY <1>1, <1>2, <3>1, Moving DEF TablesOK, AdministerRoles
    <3>3. Sound(r)'
      BY <1>1, <1>2, <3>1, Moving DEF AdministerRoles, TablesOK, Sound, AtWork, keyVars, clientVars
    <3>4. QED
      BY <1>1, <1>2, <3>1, <3>2, <3>3, OneMoved DEF AdministerRoles, TablesOK, keyVars, clientVars
  <2>2. CASE UNCHANGED visit /\ \E n \in Names, want \in SUBSET Perms : AskPermissions(r, n, want)
    <3>1. \A q \in Requests \ {r} : edit'[q] = edit[q]
      BY <1>1, <2>2 DEF AskPermissions
    <3>2. TablesOK'
      BY <1>1, <1>2, <2>2 DEF TablesOK, AdministerRoles
    <3>3. Sound(r)'
      BY <1>1, <1>2, <2>2 DEF AdministerRoles, Sound, AtWork, keyVars, clientVars
    <3>4. QED
      BY <1>2, <2>2, <3>1, <3>2, <3>3, OneMoved DEF AdministerRoles, keyVars, clientVars
  <2>3. QED
    BY <1>2, <2>1, <2>2 DEF AdministerRoles
<1>3. ASSUME ReplacePermissions(r) PROVE AccessInv'
  <2>1. visit[r].pc = "roles"
    BY <1>1, <1>3 DEF ReplacePermissions, ClearPermissions, FillPermissions, Sound, AtWork
  <2>2. \/ visit' = visit
        \/ edit'[r].pc = "idle" /\ visit' = [visit EXCEPT ![r] = Outside]
    BY <1>1, <1>3 DEF ReplacePermissions, FillPermissions, Leave, NoEdit
  <2>3. \A q \in Requests \ {r} : edit'[q] = edit[q]
    BY <1>1, <1>3 DEF ReplacePermissions, ClearPermissions, FillPermissions
  <2>4. TablesOK'
    BY <1>1, <1>3, <2>2, Moving DEF TablesOK, ReplacePermissions
  <2>5. Sound(r)'
    BY <1>1, <1>3, <2>1, <2>2, Moving
       DEF ReplacePermissions, TablesOK, Sound, AtWork, keyVars, clientVars
  <2>6. QED
    BY <1>1, <1>3, <2>2, <2>3, <2>4, <2>5, OneMoved
       DEF ReplacePermissions, TablesOK, keyVars, clientVars
<1>4. ASSUME AdministerClients(r) PROVE AccessInv'
  <2>1. PICK c \in Clients :
           \/ (CreateClient(r, c) \/ RotateSecret(r, c)) /\ UNCHANGED <<visit, refresh>>
           \/ UpdateClient(r, c) /\ Leave(r) /\ UNCHANGED refresh
           \/ DeleteClient(r, c) /\ Leave(r) /\ refresh' = [refresh EXCEPT ![c] = "none"]
    BY <1>4 DEF AdministerClients
  <2>2. \/ visit' = visit /\ task'[r].pc = "reply"
        \/ task'[r].pc = "idle" /\ visit' = [visit EXCEPT ![r] = Outside]
    BY <1>1, <2>1 DEF CreateClient, RotateSecret, UpdateClient, DeleteClient, Reply, Resting, Leave
  <2>3. \A q \in Requests \ {r} : task'[q] = task[q]
    BY <1>1, <2>1 DEF CreateClient, RotateSecret, UpdateClient, DeleteClient, Reply
  <2>4. refresh' \in [Clients -> {"none", "live", "ended"}]
    BY <1>1, <2>1 DEF TablesOK
  <2>5. TablesOK'
    BY <1>1, <1>4, <2>2, <2>4, Moving DEF TablesOK, AdministerClients
  <2>6. Sound(r)'
    BY <1>1, <1>4, <2>2, Moving
       DEF AdministerClients, TablesOK, Sound, AtWork, keyVars, roleVars
  <2>7. QED
    BY <1>1, <1>4, <2>2, <2>3, <2>5, <2>6, OneMoved
       DEF AdministerClients, TablesOK, keyVars, roleVars
<1>5. ASSUME AnswerWithSecret(r) PROVE AccessInv'
  <2>1. visit' = [visit EXCEPT ![r] = Outside] /\ task' = [task EXCEPT ![r] = Resting]
    BY <1>5 DEF AnswerWithSecret, DeliverSecret, Leave
  <2>2. visit[r].pc = "clients"
    BY <1>1, <1>5 DEF AnswerWithSecret, DeliverSecret, Sound
  <2>3. TablesOK'
    BY <1>1, <1>5, <2>1, Moving DEF TablesOK, AnswerWithSecret
  <2>4. Sound(r)'
    BY <1>1, <1>5, <2>1, <2>2, Moving
       DEF AnswerWithSecret, TablesOK, Sound, AtWork, Resting, keyVars, roleVars
  <2>5. QED
    BY <1>1, <1>5, <2>1, <2>3, <2>4, OneMoved
       DEF AnswerWithSecret, TablesOK, keyVars, roleVars
<1>6. QED
  BY <1>2, <1>3, <1>4, <1>5

(* Clients authenticate, and are given tokens of their own.                *)
LEMMA ClientsKeep ==
    ASSUME AccessInv, [AccessNext]_vars, NEW r \in Requests,
           \/ \E c \in Clients : ResolveClient(r, c)
           \/ AuthenticateClient(r)
           \/ \E s \in Services : ClientCredentials(r, s)
           \/ IssueToClient(r)
    PROVE  AccessInv'
<1> USE RequestsAssumption
<1>1. /\ TablesOK /\ Sound(r)
      /\ task \in [Requests -> Task]
      /\ \A q \in Requests : task[q].pc # "idle" => task[q].client \in Clients
      /\ DOMAIN use = Requests
  BY DEF AccessInv, ClientsInv, ClientsTypeOK, KeysInv, KeysTypeOK
<1>2. ASSUME NEW c \in Clients, ResolveClient(r, c) PROVE AccessInv'
  <2>1. PICK s \in held :
           task' = [task EXCEPT ![r] = [pc |-> "verify", client |-> c, secret |-> s,
                                        row |-> client[c]]]
    BY <1>2 DEF ResolveClient, ReadClient
  <2>2. visit' = [visit EXCEPT ![r].pc = "client"] /\ visit[r].pc = "out"
    BY <1>2 DEF ResolveClient, Goto
  <2>3. TablesOK'
    BY <1>1, <1>2, <2>2, Moving DEF TablesOK, ResolveClient
  <2>4. Sound(r)'
    BY <1>1, <1>2, <2>1, <2>2, Moving
       DEF ResolveClient, TablesOK, Sound, AtWork, keyVars, roleVars
  <2>5. QED
    BY <1>1, <1>2, <2>1, <2>2, <2>3, <2>4, OneMoved
       DEF ResolveClient, TablesOK, keyVars, roleVars
<1>3. ASSUME AuthenticateClient(r) PROVE AccessInv'
  <2>1. /\ visit[r].pc = "client"
        /\ \A q \in Requests \ {r} : task'[q] = task[q]
        /\ \/ task'[r].pc = "authed" /\ visit' = [visit EXCEPT ![r] = visit[r]]
           \/ task'[r].pc = "idle" /\ visit' = [visit EXCEPT ![r] = Outside]
    <3>1. task[r].pc = "verify" /\ visit[r].pc = "client"
      BY <1>1, <1>3 DEF AuthenticateClient, VerifySecret, Sound
    <3>2. CASE task' = [task EXCEPT ![r].pc = "authed"]
      BY <1>1, <1>3, <3>1, <3>2 DEF AuthenticateClient, Task
    <3>3. CASE task' = [task EXCEPT ![r] = Resting]
      BY <1>1, <1>3, <3>1, <3>3 DEF AuthenticateClient, Resting
    <3>4. QED
      BY <1>3, <3>2, <3>3 DEF AuthenticateClient, VerifySecret
  <2>2. TablesOK'
    BY <1>1, <1>3, <2>1, Moving DEF TablesOK, AuthenticateClient
  <2>3. Sound(r)'
    BY <1>1, <1>3, <2>1, Moving
       DEF AuthenticateClient, TablesOK, Sound, AtWork, keyVars, roleVars
  <2>4. QED
    BY <1>1, <1>3, <2>1, <2>2, <2>3, OneMoved
       DEF AuthenticateClient, TablesOK, keyVars, roleVars
<1>4. ASSUME NEW s \in Services, ClientCredentials(r, s) PROVE AccessInv'
  <2>1. /\ use' = [use EXCEPT ![r] = [Idling EXCEPT !.pc = "select", !.svc = s]]
        /\ visit' = [visit EXCEPT ![r].pc = "credentials"]
        /\ visit[r].pc = "client" /\ task[r].pc = "authed"
    BY <1>4 DEF ClientCredentials, BeginUse, Goto
  <2>2. TablesOK'
    BY <1>1, <1>4, <2>1, Moving DEF TablesOK, ClientCredentials
  <2>3. use'[r].pc = "select" /\ use'[r].task = "sign"
    BY <1>1, <2>1 DEF Idling
  <2>4. visit'[r].pc = "credentials"
    BY <1>1, <2>1 DEF TablesOK, Visit
  <2>5. Sound(r)'
    BY <1>1, <1>4, <2>1, <2>3, <2>4 DEF ClientCredentials, Sound, AtWork, clientVars, roleVars
  <2>6. QED
    BY <1>1, <1>4, <2>1, <2>2, <2>5, OneMoved
       DEF ClientCredentials, TablesOK, clientVars, roleVars
<1>5. ASSUME IssueToClient(r) PROVE AccessInv'
  <2>1. /\ use' = [use EXCEPT ![r] = Idling] /\ use[r].pc = "ready"
        /\ task' = [task EXCEPT ![r] = Resting] /\ task[r].pc # "idle"
        /\ visit' = [visit EXCEPT ![r] = Outside] /\ visit[r].pc = "credentials"
    BY <1>5 DEF IssueToClient, Sign, LeaveClient, Leave
  <2>2. use[r].kid \in Jwks /\ Jwks' = Jwks /\ Jwks \subseteq Kids
    BY <1>5, <2>1 DEF AccessInv, KeysInv, SignsWithPublished, IssueToClient, Sign, Jwks
  <2>3. PICK t : t = [sub |-> task[r].client, kid |-> use[r].kid]
    OBVIOUS
  <2>4. t.sub \in Clients /\ t \in AccessToken
    BY <1>1, <2>1, <2>2, <2>3 DEF AccessToken
  <2>5. Known(t)'
    BY <2>2, <2>3, <2>4, SubjectsAssumption DEF Known
  <2>6. issued' = issued \cup {t}
    BY <1>5, <2>3 DEF IssueToClient
  <2>7. TablesOK'
    BY <1>1, <1>5, <2>1, <2>4, <2>6, Moving DEF TablesOK, IssueToClient
  <2>8. Sound(r)'
    BY <1>1, <1>5, <2>1, Moving
       DEF IssueToClient, TablesOK, Sound, AtWork, Idling, Resting, roleVars
  <2>9. \A q \in Requests \ {r} : /\ use'[q] = use[q] /\ task'[q] = task[q]
                                 /\ edit'[q] = edit[q] /\ visit'[q] = visit[q]
    BY <1>1, <1>5, <2>1 DEF IssueToClient, TablesOK, roleVars
  <2>10. QED
    BY <2>5, <2>6, <2>7, <2>8, <2>9, OneMoved
<1>6. QED
  BY <1>2, <1>3, <1>4, <1>5

(* Keys are found, imported, drawn and rotated.                            *)
LEMMA KeysKeep ==
    ASSUME AccessInv, [AccessNext]_vars, NEW r \in Requests,
           UseKey(r) \/ \E s \in Services : RotateKeys(r, s)
    PROVE  AccessInv'
<1>1. /\ TablesOK /\ Sound(r) /\ DOMAIN use = Requests
      /\ use[r].pc \in {"idle", "select", "import", "insert", "ready"}
  BY DEF AccessInv, KeysInv, KeysTypeOK
<1>2. ASSUME UseKey(r) PROVE AccessInv'
  <2>1. /\ use[r].pc # "idle"
        /\ \A q \in Requests \ {r} : use'[q] = use[q]
        /\ \/ use'[r].pc # "idle" /\ use'[r].task = use[r].task
           \/ use'[r].pc = "idle" /\ use[r].task = "rotate"
    <3> USE DEF AccessInv, KeysInv, KeysTypeOK
    <3>1. CASE SelectActive(r)
      <4>1. CASE use' = [use EXCEPT ![r].pc = "insert"]
        BY <1>1, <3>1, <4>1 DEF SelectActive
      <4>2. CASE \E k \in Active :
                   use' = [use EXCEPT ![r].kid = k,
                                      ![r].pc = IF k \in cache[use[r].svc] THEN "ready"
                                                                            ELSE "import"]
        <5>1. PICK k \in Active :
                 use' = [use EXCEPT ![r].kid = k,
                                    ![r].pc = IF k \in cache[use[r].svc] THEN "ready" ELSE "import"]
          BY <4>2
        <5>2. CASE k \in cache[use[r].svc]
          BY <1>1, <3>1, <5>1, <5>2 DEF SelectActive
        <5>3. CASE k \notin cache[use[r].svc]
          BY <1>1, <3>1, <5>1, <5>3 DEF SelectActive
        <5>4. QED
          BY <5>2, <5>3
      <4>3. QED
        BY <3>1, <4>1, <4>2 DEF SelectActive
    <3>2. CASE ImportKey(r)
      BY <1>1, <3>2 DEF ImportKey
    <3>3. CASE InsertKey(r)
      BY <1>1, <3>3 DEF InsertKey, Idling
    <3>4. QED
      BY <1>2, <3>1, <3>2, <3>3 DEF UseKey, KeyStep
  <2>2. \/ use'[r].pc # "idle" /\ visit' = visit
        \/ use'[r].pc = "idle" /\ visit' = [visit EXCEPT ![r] = Outside]
    BY <1>1, <1>2 DEF UseKey, TablesOK
  <2>3. TablesOK'
    BY <1>1, <1>2, <2>2, Moving DEF TablesOK, UseKey
  <2>4. Jwks \subseteq Jwks'
    BY ComponentSteps, JwksGrows DEF AccessInv
  <2>5. Sound(r)'
    BY <1>1, <1>2, <2>1, <2>2, <2>4, Moving
       DEF UseKey, TablesOK, Sound, AtWork, UserExists, clientVars, roleVars, roleRows
  <2>6. QED
    BY <1>1, <1>2, <2>1, <2>2, <2>3, <2>5, OneMoved
       DEF UseKey, TablesOK, clientVars, roleVars
<1>3. ASSUME NEW s \in Services, RotateKeys(r, s) PROVE AccessInv'
  <2>1. /\ use' = [use EXCEPT ![r] = [Idling EXCEPT !.pc = "insert", !.task = "rotate", !.svc = s]]
        /\ visit' = [visit EXCEPT ![r].pc = "rotate"] /\ visit[r].pc = "out"
    BY <1>3 DEF RotateKeys, RetireKeys, Goto
  <2>2. TablesOK'
    BY <1>1, <1>3, <2>1, Moving DEF TablesOK, RotateKeys
  <2>3. visit'[r].pc = "rotate"
    BY <1>1, <2>1 DEF TablesOK, Visit
  <2>4. Sound(r)'
    BY <1>1, <1>3, <2>1, <2>3 DEF RotateKeys, Sound, AtWork, clientVars, roleVars
  <2>5. QED
    BY <1>1, <1>3, <2>1, <2>2, <2>4, OneMoved
       DEF RotateKeys, TablesOK, clientVars, roleVars
<1>4. QED
  BY <1>2, <1>3

(* An answer with tokens for a user.                                       *)
LEMMA BundlesKeep ==
    ASSUME AccessInv, [AccessNext]_vars, NEW r \in Requests,
           \/ \E u \in Users, c \in Clients, s \in Services : BeginBundle(r, u, c, s)
           \/ SignBundle(r) \/ DeliverBundle(r)
    PROVE  AccessInv'
<1>1. TablesOK /\ Sound(r) /\ DOMAIN use = Requests
  BY DEF AccessInv, KeysInv, KeysTypeOK
<1>2. ASSUME NEW u \in Users, NEW c \in Clients, NEW s \in Services, BeginBundle(r, u, c, s)
      PROVE  AccessInv'
  <2> PICK pc \in {"bundle", "renewal"} :
         visit' = [visit EXCEPT ![r] = [pc |-> pc, who |-> u, client |-> c, kid |-> NoKid]]
    BY <1>2 DEF BeginBundle
  <2>1. /\ use' = [use EXCEPT ![r] = [Idling EXCEPT !.pc = "select", !.svc = s]]
        /\ visit[r].pc = "out" /\ UserExists(u) /\ UNCHANGED rootRow
    BY <1>2 DEF BeginBundle, BeginUse, roleVars, roleRows
  <2>2. TablesOK'
    BY <1>1, <1>2, <2>1 DEF TablesOK, BeginBundle, Visit
  <2>3. use'[r].pc = "select" /\ use'[r].task = "sign"
    BY <1>1, <2>1 DEF Idling
  <2>4. visit'[r].pc \in {"bundle", "renewal"} /\ visit'[r].who = u
    BY <1>1, <2>1 DEF TablesOK
  <2>5. Sound(r)'
    BY <1>1, <1>2, <2>1, <2>3, <2>4
       DEF BeginBundle, Sound, AtWork, UserExists, clientVars, roleVars
  <2>6. QED
    BY <1>1, <1>2, <2>1, <2>2, <2>5, OneMoved
       DEF BeginBundle, TablesOK, clientVars, roleVars
<1>3. ASSUME SignBundle(r) PROVE AccessInv'
  <2>1. /\ use' = [use EXCEPT ![r] = Idling] /\ use[r].pc = "ready"
        /\ visit' = [visit EXCEPT ![r].pc = IF @ = "bundle" THEN "signed" ELSE "renewed",
                                 ![r].kid = use[r].kid]
        /\ visit[r].pc \in {"bundle", "renewal"} /\ UNCHANGED rootRow
    BY <1>3 DEF SignBundle, Sign, roleVars, roleRows
  <2>2. use[r].kid \in Jwks /\ Jwks' = Jwks /\ Jwks \subseteq Kids
    BY <1>3, <2>1 DEF AccessInv, KeysInv, SignsWithPublished, SignBundle, Sign, Jwks
  <2>3. /\ visit'[r] \in Visit /\ visit'[r].pc \in {"signed", "renewed"}
        /\ visit'[r].who = visit[r].who /\ visit'[r].kid = use[r].kid
    BY <1>1, <2>1, <2>2 DEF TablesOK, Visit
  <2>4. TablesOK'
    BY <1>1, <1>3, <2>1, <2>3 DEF TablesOK, SignBundle
  <2>5. Sound(r)'
    BY <1>1, <1>3, <2>1, <2>2, <2>3
       DEF SignBundle, Sound, AtWork, UserExists, Idling, clientVars, roleVars
  <2>6. QED
    BY <1>1, <1>3, <2>1, <2>4, <2>5, OneMoved
       DEF SignBundle, TablesOK, clientVars, roleVars
<1>4. ASSUME DeliverBundle(r) PROVE AccessInv'
  <2>1. PICK t : t = [sub |-> visit[r].who, kid |-> visit[r].kid]
    OBVIOUS
  <2>2. /\ visit' = [visit EXCEPT ![r] = Outside] /\ visit[r].pc \in {"signed", "renewed"}
        /\ issued' = issued \cup {t} /\ UNCHANGED <<rootRow, status>>
    BY <1>4, <2>1 DEF DeliverBundle, Leave, roleVars, roleRows, keyVars
  <2>3. /\ visit[r].who \in Users /\ UserExists(visit[r].who)
        /\ visit[r].kid \in Jwks /\ Jwks' = Jwks /\ Jwks \subseteq Kids
    BY <1>1, <2>2 DEF Sound, Jwks
  <2>4. t \in AccessToken
    BY <2>1, <2>3 DEF AccessToken
  <2>5. Known(t)'
    BY <2>1, <2>2, <2>3 DEF Known, UserExists
  <2>6. TablesOK'
    BY <1>1, <1>4, <2>2, <2>4, Moving DEF TablesOK, DeliverBundle
  <2>7. Sound(r)'
    BY <1>1, <1>4, <2>2, Moving
       DEF DeliverBundle, TablesOK, Sound, AtWork, keyVars, clientVars, roleVars
  <2>8. QED
    BY <1>1, <1>4, <2>2, <2>5, <2>6, <2>7, OneMoved
       DEF DeliverBundle, TablesOK, keyVars, clientVars, roleVars
<1>5. QED
  BY <1>2, <1>3, <1>4

(* A request that ends is nowhere at work.                                 *)
LEMMA GiveUpKeeps ==
    ASSUME AccessInv, [AccessNext]_vars, NEW r \in Requests, GiveUp(r)
    PROVE  AccessInv'
<1> USE RequestsAssumption
<1>1. /\ TablesOK /\ DOMAIN use = Requests /\ DOMAIN task = Requests /\ DOMAIN edit = Requests
  BY DEF AccessInv, KeysInv, KeysTypeOK, ClientsInv, ClientsTypeOK, RolesInv, RolesTypeOK
<1>2. use'[r].pc = "idle" /\ \A q \in Requests \ {r} : use'[q] = use[q]
  BY <1>1 DEF GiveUp, AbandonKey, Idling, keyVars
<1>3. task'[r].pc = "idle" /\ \A q \in Requests \ {r} : task'[q] = task[q]
  BY <1>1 DEF GiveUp, LeaveClient, Resting, clientVars
<1>4. edit'[r].pc = "idle" /\ \A q \in Requests \ {r} : edit'[q] = edit[q]
  BY <1>1 DEF GiveUp, AbandonEdit, NoEdit, roleVars
<1>5. visit' = [visit EXCEPT ![r] = Outside]
  BY DEF GiveUp, Leave
<1>6. TablesOK'
  BY <1>1, <1>5, Moving DEF GiveUp, TablesOK
<1>7. Sound(r)'
  BY <1>1, <1>2, <1>3, <1>4, <1>5, Moving DEF TablesOK, Sound, AtWork
<1>8. QED
  BY <1>1, <1>2, <1>3, <1>4, <1>5, <1>6, <1>7, OneMoved DEF GiveUp, TablesOK

-----------------------------------------------------------------------------
(* The invariant, and what follows from it. *)

LEMMA AccessInitially == AccessInit => AccessInv
<1> SUFFICES ASSUME AccessInit PROVE AccessInv
  OBVIOUS
<1> USE RequestsAssumption DEF AccessInit
<1>1. KeysInv /\ ClientsInv /\ RolesInv
  BY KeysInitially, ClientsInitially, RolesInitially
<1>2. Outside \in Visit
  BY DEF Outside, Visit
<1>3. TablesOK
  BY <1>2 DEF TablesOK, SessionRow
<1>4. ASSUME NEW r \in Requests PROVE Sound(r)
  <2>1. visit[r].pc = "out" /\ use[r].pc = "idle" /\ task[r].pc = "idle" /\ edit[r].pc = "idle"
    BY DEF Outside, KeysInit, Idling, ClientsInit, Resting, RolesInit, NoEdit
  <2>2. QED
    BY <2>1 DEF Sound, AtWork
<1>5. QED
  BY <1>1, <1>3, <1>4 DEF AccessInv

LEMMA AccessStep == AccessInv /\ [AccessNext]_vars => AccessInv'
<1> SUFFICES ASSUME AccessInv, [AccessNext]_vars PROVE AccessInv'
  OBVIOUS
<1>1. CASE UNCHANGED vars
  <2>1. TablesOK'
    BY <1>1 DEF AccessInv, TablesOK, vars, accessVars
  <2>2. QED
    BY <1>1, <2>1, NoneMoved DEF vars, accessVars, keyVars, clientVars, roleVars
<1>2. CASE \/ (Seeding \/ RegisterRoot) /\ UNCHANGED <<keyVars, clientVars, accessVars>>
           \/ \E s \in Services : Restart(s) /\ UNCHANGED <<clientVars, roleVars, accessVars>>
           \/ \E s \in Sessions, u \in Users : OpenSession(s, u)
           \/ \E s \in Sessions : ExpireSession(s)
           \/ DeleteExpired
           \/ \E c \in Clients : EndRefresh(c)
           \/ \E t \in AccessToken : ExpireToken(t)
  BY <1>2, SessionsKeep
<1>3. ASSUME NEW r \in Requests,
             \/ RequireSession(r) \/ EndSession(r) \/ PermitAdministration(r)
             \/ \E s \in Sessions : FindSession(r, s)
      PROVE  AccessInv'
  BY <1>3, VisitsKeep
<1>4. ASSUME NEW r \in Requests,
             \/ AdministerRoles(r) \/ ReplacePermissions(r)
             \/ AdministerClients(r) \/ AnswerWithSecret(r)
      PROVE  AccessInv'
  BY <1>4, AdministrationKeeps
<1>5. ASSUME NEW r \in Requests,
             \/ \E c \in Clients : ResolveClient(r, c)
             \/ AuthenticateClient(r)
             \/ \E s \in Services : ClientCredentials(r, s)
             \/ IssueToClient(r)
      PROVE  AccessInv'
  BY <1>5, ClientsKeep
<1>6. ASSUME NEW r \in Requests, UseKey(r) \/ \E s \in Services : RotateKeys(r, s)
      PROVE  AccessInv'
  BY <1>6, KeysKeep
<1>7. ASSUME NEW r \in Requests,
             \/ \E u \in Users, c \in Clients, s \in Services : BeginBundle(r, u, c, s)
             \/ SignBundle(r) \/ DeliverBundle(r)
      PROVE  AccessInv'
  BY <1>7, BundlesKeep
<1>8. ASSUME NEW r \in Requests, GiveUp(r) PROVE AccessInv'
  BY <1>8, GiveUpKeeps
<1>9. QED
  BY <1>1, <1>2, <1>3, <1>4, <1>5, <1>6, <1>7, <1>8 DEF AccessNext

(* AccessInv always holds.                                                 *)
THEOREM AccessCorrect == AccessSpec => []AccessInv
BY AccessInitially, AccessStep, PTL DEF AccessSpec

(* The tables keep their shape, and a request is at work on keys, on       *)
(* clients or on roles only where its visit says so.                       *)
THEOREM AccessTyped == AccessSpec => []AccessTypeOK
<1>1. AccessInv => AccessTypeOK
  BY DEF AccessInv, AccessTypeOK, KeysInv, ClientsInv, RolesInv, Sound
<1>2. QED
  BY <1>1, AccessCorrect, PTL

(* auth.ts, oauth.introspect.ts, oauth.userinfo.ts: whoever verifies an    *)
(* access token takes one that was delivered and has not expired, whatever *)
(* keys were rotated or processes restarted since.                         *)
THEOREM TokensAccepted == AccessSpec => []IssuedAccepted
<1>1. ASSUME AccessInv PROVE IssuedAccepted
  <2>1. ValidateDpopProof(Own) = "holder"
    BY DEF ValidateDpopProof, Own, Proof
  <2> SUFFICES ASSUME NEW t \in issued
               PROVE  /\ PluginAccepts(t, Own)
                      /\ t.sub \in Users => UserinfoAccepts(t, Own) /\ UserinfoAccepts(t, NoProof)
                      /\ \A hint \in {"access_token", "refresh_token", "none"} :
                            Introspection(t, hint)
    BY DEF IssuedAccepted
  <2>2. t \in AccessToken /\ Verifies(t) /\ Known(t)
    BY <1>1 DEF AccessInv, TablesOK, Known, Verifies
  <2>3. t \notin Clients
    BY <2>2, SubjectsAssumption
  <2>4. FromAccessJwt(t) = "active" /\ FromRefresh(t) = "null"
    BY <2>2, <2>3 DEF FromAccessJwt, FromRefresh
  <2>5. \A hint \in {"access_token", "refresh_token", "none"} : Introspection(t, hint)
    BY <2>4 DEF Introspection
  <2>6. QED
    BY <2>1, <2>2, <2>5 DEF PluginAccepts, UserinfoAccepts, Known
<1>2. QED
  BY <1>1, AccessCorrect, PTL

(* signing-key.service.ts, under all the requests that share its keys: a   *)
(* key retired by a rotation signs nothing that was asked for later.       *)
THEOREM RetiredStayOut == AccessSpec => []RetiredNotUsed
<1>1. AccessInv => RetiredNotUsed
  BY DEF AccessInv, KeysInv
<1>2. QED
  BY <1>1, AccessCorrect, PTL

(* client.service.ts and oauth/client-auth.ts, under the requests that use *)
(* them: a secret answered with, or let in on, is the row's own unless     *)
(* somebody rewrote the row meanwhile.                                     *)
THEOREM SecretsStayCurrent == AccessSpec => []CurrentUnlessTouched
<1>1. AccessInv => CurrentUnlessTouched
  BY DEF AccessInv, ClientsInv
<1>2. QED
  BY <1>1, AccessCorrect, PTL

(* rbac.service.ts and seed.ts, under the requests that edit roles.        *)
THEOREM RolesStayUp == AccessSpec => []RolesStand
<1>1. AccessInv => RolesStand
  BY DEF AccessInv, RolesInv, OnTheThrone, RootReignsUnlessCut, RolesStand
<1>2. QED
  BY <1>1, AccessCorrect, PTL
=============================================================================
