------------------------------ MODULE Passkeys ------------------------------
(***************************************************************************)
(* The passkeys of one user: passkey/passkey.service.ts and deletePasskey  *)
(* of account/account.service.ts.  Nothing here is a transaction.          *)
(*                                                                         *)
(* The authenticator and the WebAuthn library are external and modelled by *)
(* what the code makes of them: a response carries the credential, the     *)
(* challenge it signs and, at a login, the authenticator's counter, and it *)
(* may be sent again.  The library asks the code about the challenge, then *)
(* refuses a counter that is not greater than the one it was given, unless *)
(* both are zero, and verifies the signature.                              *)
(***************************************************************************)
EXTENDS Integers, FiniteSets

CONSTANTS
  Key,         \* credentials that authenticators may create
  Counting,    \* those of them that count; the others always send zero
  Challenge,   \* challenges the server may draw
  Req,         \* requests in progress at the same time
  MaxCounter,  \* bound on an authenticator's counter
  None         \* no value

ASSUME CountingAssumption == Counting \subseteq Key /\ MaxCounter \in Nat
ASSUME NoneAssumption == None \notin Nat /\ None \notin Key /\ None \notin Challenge
ASSUME ReqAssumption == IsFiniteSet(Req)

VARIABLES
  passkey,     \* passkeys: the counter of every stored credential, None without row
  challenge,   \* webauthn_challenges: the kind of every challenge, or "gone"
  password,    \* whether the user has a password
  counter,     \* external: the counter of every credential, None until it is created
  created,     \* external: registration responses that still count, <<key, challenge>>
  signed,      \* external: login responses that still count
  req,         \* the requests in progress
  logins,      \* history: sessions every challenge gave
  registered,  \* history: challenges that registered a passkey
  again,       \* history: those of them that registered another one
  overlapped,  \* history: challenges two requests found before one deleted them,
               \* or whose registration died before it deleted them
  raced        \* history: whether a deletion had counted a passkey that was gone
               \* when it deleted its own

external == <<counter, created, signed>>
history == <<logins, registered, again, overlapped, raced>>
vars == <<passkey, challenge, password, external, req, history>>

-----------------------------------------------------------------------------
Response == [key : Key, challenge : Challenge, counter : 0..MaxCounter]

PC == {"idle", "store", "clear", "challenge", "consume", "update", "session", "count", "delete"}
\* seen: the counter that was read; rows: the passkeys that were counted.
Request == [pc : PC, key : Key \cup {None}, challenge : Challenge \cup {None},
            counter : 0..MaxCounter, seen : 0..MaxCounter, rows : SUBSET Key]
Idle == [pc |-> "idle", key |-> None, challenge |-> None, counter |-> 0, seen |-> 0,
         rows |-> {}]

Drawn == DOMAIN challenge
Stored == {k \in Key : passkey[k] # None}

Begin(r, q) == req[r].pc = "idle" /\ req' = [req EXCEPT ![r] = q]
Goto(r, pc) == req' = [req EXCEPT ![r].pc = pc]
Finish(r) == req' = [req EXCEPT ![r] = Idle]
\* INSERT INTO webauthn_challenges
Offer(x, kind) ==
  /\ x \notin Drawn
  /\ challenge' = [y \in Drawn \cup {x} |-> IF y = x THEN kind ELSE challenge[y]]
\* DELETE FROM webauthn_challenges WHERE id = x.  Responses to x are refused from
\* now on, and forgotten here.
Remove(x) ==
  /\ challenge' = [challenge EXCEPT ![x] = "gone"]
  /\ created' = {c \in created : c[2] # x}
  /\ signed' = {a \in signed : a.challenge # x}

Init ==
  /\ passkey = [k \in Key |-> None]
  /\ challenge = [x \in {} |-> None]
  /\ password \in BOOLEAN
  /\ counter = [k \in Key |-> None]
  /\ created = {} /\ signed = {}
  /\ req = [r \in Req |-> Idle]
  /\ logins = [x \in Challenge |-> 0]
  /\ registered = {} /\ again = {} /\ overlapped = {} /\ raced = FALSE

-----------------------------------------------------------------------------
(* Registration *)

\* generatePasskeyRegistrationOptions
RegistrationOptions(x) ==
  /\ Offer(x, "registration")
  /\ UNCHANGED <<passkey, password, external, req, history>>

\* An authenticator creates a credential for a registration challenge.
CreateCredential(k, x) ==
  /\ x \in Drawn /\ challenge[x] = "registration"
  /\ counter[k] = None
  /\ counter' = [counter EXCEPT ![k] = 0]
  /\ created' = created \cup {<<k, x>>}
  /\ UNCHANGED <<passkey, challenge, password, signed, req, history>>

\* verifyPasskeyRegistration reads some registration challenge of the user, in no
\* order; the response is in order only if it is the one it answers.
RegisterRead(r) ==
  /\ \E c \in created :
       /\ challenge[c[2]] = "registration"
       /\ Begin(r, [Idle EXCEPT !.pc = "store", !.key = c[1], !.challenge = c[2]])
       /\ overlapped' = IF \E s \in Req : req[s].challenge = c[2]
                        THEN overlapped \cup {c[2]} ELSE overlapped
  /\ UNCHANGED <<passkey, challenge, password, external, logins, registered, again, raced>>

\* credential_id is unique: a credential that is stored already is an error.
RegisterStore(r) ==
  LET q == req[r] IN
  /\ q.pc = "store"
  /\ \/ /\ passkey[q.key] = None
        /\ passkey' = [passkey EXCEPT ![q.key] = 0]
        /\ registered' = registered \cup {q.challenge}
        /\ again' = again \cup ({q.challenge} \cap registered)
        /\ Goto(r, "clear")
     \/ passkey[q.key] # None /\ Finish(r) /\ UNCHANGED <<passkey, registered, again>>
  /\ UNCHANGED <<challenge, password, external, logins, overlapped, raced>>

RegisterClear(r) ==
  /\ req[r].pc = "clear"
  /\ Remove(req[r].challenge)
  /\ Finish(r)
  /\ UNCHANGED <<passkey, password, counter, history>>

-----------------------------------------------------------------------------
(* Login *)

\* generatePasskeyAuthenticationOptions
AuthenticationOptions(x) ==
  /\ Offer(x, "authentication")
  /\ UNCHANGED <<passkey, password, external, req, history>>

\* An authenticator signs a challenge with a credential it holds, and counts.
Sign(k, x) ==
  LET n == IF k \in Counting THEN counter[k] + 1 ELSE 0 IN
  /\ counter[k] # None
  /\ x \in Drawn /\ challenge[x] = "authentication"
  /\ n <= MaxCounter
  /\ counter' = [counter EXCEPT ![k] = n]
  /\ signed' = signed \cup {[key |-> k, challenge |-> x, counter |-> n]}
  /\ UNCHANGED <<passkey, challenge, password, created, req, history>>

\* verifyPasskeyAuthentication reads the passkey the response names.
LoginRead(r) ==
  /\ \E a \in signed :
       /\ a.key \in Stored
       /\ Begin(r, [Idle EXCEPT !.pc = "challenge", !.key = a.key,
                      !.challenge = a.challenge, !.counter = a.counter,
                      !.seen = passkey[a.key]])
  /\ UNCHANGED <<passkey, challenge, password, external, history>>

\* expectedChallenge looks for the challenge.
FindChallenge(r) ==
  LET x == req[r].challenge IN
  /\ req[r].pc = "challenge"
  /\ \/ /\ challenge[x] = "authentication"
        /\ Goto(r, "consume")
        /\ overlapped' = IF \E s \in Req : req[s].pc = "consume" /\ req[s].challenge = x
                         THEN overlapped \cup {x} ELSE overlapped
     \/ challenge[x] = "gone" /\ Finish(r) /\ UNCHANGED overlapped
  /\ UNCHANGED <<passkey, challenge, password, external, logins, registered, again, raced>>

\* The library's check of the counter.
Counts(n, stored) == n > stored \/ (n = 0 /\ stored = 0)

\* Mutant of ConsumeChallenge: the challenge stays.
ConsumeNothing(r) ==
  LET q == req[r] IN
  /\ q.pc = "consume"
  /\ IF Counts(q.counter, q.seen) THEN Goto(r, "update") ELSE Finish(r)
  /\ UNCHANGED <<passkey, challenge, password, external, history>>
\* Mutant of ConsumeChallenge: the library is not given the counter that was read.
ConsumeUncounted(r) ==
  LET q == req[r] IN
  /\ q.pc = "consume"
  /\ Remove(q.challenge)
  /\ IF Counts(q.counter, 0) THEN Goto(r, "update") ELSE Finish(r)
  /\ UNCHANGED <<passkey, password, counter, history>>
\* It is deleted, by id, and then the counter is compared with the one that was read.
ConsumeChallenge(r) ==
  LET q == req[r] IN
  /\ q.pc = "consume"
  /\ Remove(q.challenge)
  /\ IF Counts(q.counter, q.seen) THEN Goto(r, "update") ELSE Finish(r)
  /\ UNCHANGED <<passkey, password, counter, history>>

\* Mutant of UpdateCounter: something else than the new counter is written.
UpdateByOneMore(r) ==
  LET q == req[r] IN
  /\ q.pc = "update"
  /\ IF q.key \in Stored
     THEN passkey' = [passkey EXCEPT ![q.key] = q.counter + 1]
     ELSE UNCHANGED passkey
  /\ Goto(r, "session")
  /\ UNCHANGED <<challenge, password, external, history>>
\* The new counter is written whatever the stored one is by now.
UpdateCounter(r) ==
  LET q == req[r] IN
  /\ q.pc = "update"
  /\ IF q.key \in Stored
     THEN passkey' = [passkey EXCEPT ![q.key] = q.counter]
     ELSE UNCHANGED passkey
  /\ Goto(r, "session")
  /\ UNCHANGED <<challenge, password, external, history>>

GiveSession(r) ==
  /\ req[r].pc = "session"
  /\ logins' = [logins EXCEPT ![req[r].challenge] = @ + 1]
  /\ Finish(r)
  /\ UNCHANGED <<passkey, challenge, password, external, registered, again, overlapped, raced>>

-----------------------------------------------------------------------------
(* Deletion *)

\* Mutant of MayDelete: off by one.
MayDeleteEmpty(rows) == Cardinality(rows) > 0 \/ password
\* The last passkey stays unless there is a password.
MayDelete(rows) == Cardinality(rows) # 1 \/ password

\* deletePasskey reads the passkey.
DeleteRead(r) ==
  /\ \E k \in Stored : Begin(r, [Idle EXCEPT !.pc = "count", !.key = k])
  /\ UNCHANGED <<passkey, challenge, password, external, history>>

\* It reads the password and then the passkeys there are.  A password that is set in
\* between would only have it refuse, which ends a request as Abort does.
DeleteCount(r) ==
  /\ req[r].pc = "count"
  /\ MayDelete(Stored)
  /\ req' = [req EXCEPT ![r].pc = "delete", ![r].rows = Stored]
  /\ UNCHANGED <<passkey, challenge, password, external, history>>

DeleteCommit(r) ==
  LET q == req[r] IN
  /\ q.pc = "delete"
  /\ passkey' = [passkey EXCEPT ![q.key] = None]
  /\ raced' = (raced \/ ~(q.rows \subseteq Stored))
  /\ Finish(r)
  /\ UNCHANGED <<challenge, password, external, logins, registered, again, overlapped>>

\* A password reset gives a user without password one; nothing takes it away.
SetPassword ==
  /\ ~password
  /\ password' = TRUE
  /\ UNCHANGED <<passkey, challenge, external, req, history>>

-----------------------------------------------------------------------------
\* A challenge runs out, and deleteExpiredChallenges removes it.
Expire(x) ==
  /\ x \in Drawn /\ challenge[x] # "gone"
  /\ Remove(x)
  /\ UNCHANGED <<passkey, password, counter, req, history>>

\* The process dies, the database fails or a listener throws.
Abort(r) ==
  /\ req[r].pc # "idle"
  /\ overlapped' = IF req[r].pc = "clear" THEN overlapped \cup {req[r].challenge}
                   ELSE overlapped
  /\ Finish(r)
  /\ UNCHANGED <<passkey, challenge, password, external, logins, registered, again, raced>>

Register(r) == RegisterRead(r) \/ RegisterStore(r) \/ RegisterClear(r)
Login(r) ==
  \/ LoginRead(r) \/ FindChallenge(r) \/ ConsumeChallenge(r) \/ UpdateCounter(r)
  \/ GiveSession(r)
Delete(r) == DeleteRead(r) \/ DeleteCount(r) \/ DeleteCommit(r)

Next ==
  \/ \E r \in Req : Register(r) \/ Login(r) \/ Delete(r) \/ Abort(r)
  \/ \E x \in Challenge : RegistrationOptions(x) \/ AuthenticationOptions(x) \/ Expire(x)
  \/ \E k \in Key, x \in Challenge : CreateCredential(k, x) \/ Sign(k, x)
  \/ SetPassword

Spec == Init /\ [][Next]_vars

-----------------------------------------------------------------------------
TypeOK ==
  /\ passkey \in [Key -> 0..MaxCounter \cup {None}]
  /\ Drawn \subseteq Challenge
  /\ challenge \in [Drawn -> {"registration", "authentication", "gone"}]
  /\ password \in BOOLEAN
  /\ counter \in [Key -> 0..MaxCounter \cup {None}]
  /\ created \subseteq Key \X Drawn /\ signed \subseteq Response
  /\ req \in [Req -> Request]
  /\ logins \in [Challenge -> 0..Cardinality(Req)]
  /\ registered \subseteq Drawn /\ again \subseteq registered
  /\ overlapped \subseteq Drawn
  /\ raced \in BOOLEAN

\* A challenge gives one session or registers one passkey, however often and from
\* however many authenticators it is answered, unless two requests found it before
\* one deleted it or a registration died between its passkey and its challenge.
ChallengeOnceUnlessOverlapped ==
  /\ \A x \in Drawn : logins[x] > 1 => x \in overlapped
  /\ again \subseteq overlapped

\* The stored counter of a passkey never goes back, except by a login that had read
\* the passkey before another one stored a counter.
CounterNeverBack ==
  [][\A k \in Stored :
       passkey'[k] # None /\ passkey'[k] < passkey[k]
         => \E r \in Req : /\ req[r].pc = "update" /\ req[r].key = k
                          /\ req'[r].pc = "session" /\ req[r].seen # passkey[k]]_vars

\* A user without a password who ever had a passkey still has one, unless two
\* deletions had counted the same passkeys.
LastKeyKept == registered # {} /\ ~password => Stored # {} \/ raced

-----------------------------------------------------------------------------
(* What carries these: PasskeyInv is inductive. *)

\* A request at a statement has what the statement needs: a drawn challenge of the
\* right kind, a counter that passed, and, for a deletion without password, another
\* number of passkeys than one.
InHand(r) ==
  LET q == req[r] IN
  /\ q.pc \in {"idle", "count", "delete"} => q.challenge = None
  /\ q.pc # "idle" => q.key \in Key
  /\ q.pc \in {"store", "clear"} =>
       q.challenge \in Drawn /\ challenge[q.challenge] \in {"registration", "gone"}
  /\ q.pc \in {"challenge", "consume", "update", "session"} =>
       q.challenge \in Drawn /\ challenge[q.challenge] \in {"authentication", "gone"}
  /\ q.pc = "update" => Counts(q.counter, q.seen)
  /\ q.pc = "delete" => password \/ q.rows \notin {{k} : k \in Key}

\* A response that still counts signs a challenge of a login that is still there.
SignedAsked ==
  \A a \in signed : a.challenge \in Drawn /\ challenge[a.challenge] = "authentication"

\* Every login that found a challenge is on its way to a session or has given it,
\* and only logins that found it side by side make two of them.
HoldersOf(x) == {r \in Req : req[r].pc \in {"consume", "update", "session"}
                             /\ req[r].challenge = x}
LoginOnceEach(x) ==
  /\ logins[x] + Cardinality(HoldersOf(x)) <= Cardinality(Req)
  /\ x \notin Drawn => HoldersOf(x) = {} /\ logins[x] = 0
  /\ x \in Drawn /\ challenge[x] # "gone" =>
       logins[x] = 0 /\ \A r \in HoldersOf(x) : req[r].pc = "consume"
  /\ x \notin overlapped =>
       /\ logins[x] <= 1
       /\ \A r \in HoldersOf(x) : HoldersOf(x) = {r} /\ logins[x] = 0

\* A challenge is in the hands of one registration, which has stored its passkey
\* when it comes to delete the challenge; until it has, the challenge is in hand.
RegistrarsOf(x) == {r \in Req : req[r].pc \in {"store", "clear"} /\ req[r].challenge = x}
RegisterOnceEach(x) ==
  x \notin overlapped =>
    /\ x \notin again
    /\ \A r \in RegistrarsOf(x) :
         RegistrarsOf(x) = {r} /\ (req[r].pc = "clear" <=> x \in registered)
    /\ x \in registered /\ challenge[x] # "gone" => RegistrarsOf(x) # {}

\* A passkey that is deleted was registered once; a deletion that counted none came
\* after the last was gone.
LastKeyGuarded ==
  /\ LastKeyKept
  /\ Stored # {} => registered # {}
  /\ \A r \in Req :
       /\ req[r].pc \in {"count", "delete"} => registered # {}
       /\ req[r].pc = "delete" /\ req[r].rows = {} => password \/ raced

PasskeyInv ==
  /\ TypeOK
  /\ \A r \in Req : InHand(r)
  /\ SignedAsked
  /\ \A x \in Challenge : LoginOnceEach(x) /\ RegisterOnceEach(x)
  /\ LastKeyGuarded
=============================================================================
