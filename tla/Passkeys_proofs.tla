--------------------------- MODULE Passkeys_proofs ---------------------------
(***************************************************************************)
(* Theorems about Passkeys, for any credentials, challenges and requests   *)
(* and any bound on the counters.                                          *)
(***************************************************************************)
EXTENDS Passkeys, FiniteSetTheorems, TLAPS

Held == \A r \in Req : InHand(r)
Typed == TypeOK /\ Held /\ SignedAsked
Kind == {"registration", "authentication", "gone"}

-----------------------------------------------------------------------------
(* What the operators do to a request and to the table of challenges. *)

LEMMA IdleRequest ==
  Idle \in Request /\ Idle.pc = "idle" /\ Idle.key = None /\ Idle.challenge = None
BY CountingAssumption DEF Idle, Request, PC

LEMMA Requests ==
  ASSUME Typed, NEW r \in Req
  PROVE  /\ req[r] \in Request /\ InHand(r)
         /\ \A q \in Request : Begin(r, q) =>
              /\ req' \in [Req -> Request] /\ req'[r] = q
              /\ \A s \in Req \ {r} : req'[s] = req[s]
         /\ Finish(r) => /\ req' \in [Req -> Request] /\ req'[r] = Idle
                         /\ \A s \in Req \ {r} : req'[s] = req[s]
         /\ \A pc \in PC : Goto(r, pc) =>
              /\ req' \in [Req -> Request] /\ req'[r].pc = pc
              /\ req'[r].key = req[r].key /\ req'[r].challenge = req[r].challenge
              /\ req'[r].counter = req[r].counter /\ req'[r].seen = req[r].seen
              /\ \A s \in Req \ {r} : req'[s] = req[s]
<1>1. req[r] \in Request /\ InHand(r)
  BY DEF Typed, TypeOK, Held
<1>2. ASSUME NEW q \in Request, req' = [req EXCEPT ![r] = q]
      PROVE  /\ req' \in [Req -> Request] /\ req'[r] = q
             /\ \A s \in Req \ {r} : req'[s] = req[s]
  BY <1>2 DEF Typed, TypeOK
<1>3. ASSUME NEW pc \in PC, Goto(r, pc)
      PROVE  /\ req' \in [Req -> Request] /\ req'[r].pc = pc
             /\ req'[r].key = req[r].key /\ req'[r].challenge = req[r].challenge
             /\ req'[r].counter = req[r].counter /\ req'[r].seen = req[r].seen
             /\ \A s \in Req \ {r} : req'[s] = req[s]
  <2>1. PICK q : q = [req[r] EXCEPT !.pc = pc]
    OBVIOUS
  <2>2. /\ q \in Request /\ q.pc = pc /\ q.key = req[r].key /\ q.challenge = req[r].challenge
        /\ q.counter = req[r].counter /\ q.seen = req[r].seen
    BY <1>1, <2>1 DEF Request
  <2>3. req' = [req EXCEPT ![r] = q]
    BY <1>3, <2>1 DEF Goto, Typed, TypeOK
  <2>4. QED
    BY <1>2, <2>2, <2>3
<1>4. QED
  BY <1>1, <1>2, <1>3, IdleRequest DEF Begin, Finish

(* Challenges are kept, but for those that are gone.                       *)
ChallengesKept ==
  /\ Drawn \subseteq Drawn' /\ Drawn' \subseteq Challenge /\ challenge' \in [Drawn' -> Kind]
  /\ \A x \in Drawn : challenge'[x] = challenge[x] \/ challenge'[x] = "gone"
ResponsesKept == created' \subseteq created /\ signed' \subseteq signed

LEMMA Removed ==
  ASSUME Typed, NEW x \in Drawn, Remove(x)
  PROVE  /\ ChallengesKept /\ ResponsesKept /\ Drawn' = Drawn /\ challenge'[x] = "gone"
         /\ \A y \in Drawn \ {x} : challenge'[y] = challenge[y]
         /\ SignedAsked'
<1>1. /\ ChallengesKept /\ ResponsesKept /\ Drawn' = Drawn /\ challenge'[x] = "gone"
      /\ \A y \in Drawn \ {x} : challenge'[y] = challenge[y]
  BY DEF Typed, TypeOK, Remove, Drawn, ChallengesKept, ResponsesKept, Kind
<1>2. SignedAsked'
  BY <1>1 DEF Remove, Typed, SignedAsked
<1>3. QED
  BY <1>1, <1>2

LEMMA Offered ==
  ASSUME Typed, NEW x \in Challenge, NEW kind \in Kind, Offer(x, kind)
  PROVE  /\ x \notin Drawn /\ ChallengesKept /\ Drawn' = Drawn \cup {x}
         /\ \A y \in Drawn : challenge'[y] = challenge[y]
         /\ UNCHANGED signed => SignedAsked'
<1>1. /\ x \notin Drawn /\ ChallengesKept /\ Drawn' = Drawn \cup {x}
      /\ \A y \in Drawn : challenge'[y] = challenge[y]
  BY DEF Typed, TypeOK, Offer, Drawn, ChallengesKept, Kind
<1>2. QED
  BY <1>1 DEF Typed, SignedAsked

LEMMA Unchanged ==
  ASSUME Typed, UNCHANGED challenge
  PROVE  /\ ChallengesKept /\ Drawn' = Drawn
         /\ UNCHANGED signed => SignedAsked'
BY DEF Typed, TypeOK, Drawn, ChallengesKept, Kind, SignedAsked

(* The other requests keep what they have in hand.                         *)
LEMMA OthersHold ==
  ASSUME Typed, NEW r \in Req, \A s \in Req \ {r} : req'[s] = req[s],
         ChallengesKept, password => password', InHand(r)'
  PROVE  Held'
BY DEF Typed, Held, InHand, ChallengesKept

LEMMA AllHold ==
  ASSUME Typed, UNCHANGED req, ChallengesKept, password => password'
  PROVE  Held'
BY DEF Typed, Held, InHand, ChallengesKept

LEMMA InHandIdle == ASSUME NEW r \in Req, req'[r] = Idle PROVE InHand(r)'
BY IdleRequest DEF InHand

-----------------------------------------------------------------------------
(* The tables keep their shape, and requests have in hand what they need. *)

LEMMA RegisterTyped == ASSUME Typed, NEW r \in Req, Register(r) PROVE Typed'
<1> USE DEF external, history
<1>1. CASE RegisterRead(r)
  <2>1. PICK c, q :
       /\ c \in created
       /\ challenge[c[2]] = "registration"
       /\ q = [Idle EXCEPT !.pc = "store", !.key = c[1], !.challenge = c[2]]
       /\ Begin(r, q)
       /\ overlapped' \in {overlapped, overlapped \cup {c[2]}}
    BY <1>1 DEF RegisterRead
  <2>2. c[1] \in Key /\ c[2] \in Drawn /\ c[2] \in Challenge
    BY <2>1 DEF Typed, TypeOK
  <2>3. q \in Request /\ q.pc = "store" /\ q.key = c[1] /\ q.challenge = c[2]
    BY <2>1, <2>2, IdleRequest DEF Request, PC
  <2>4. /\ req' \in [Req -> Request] /\ req'[r] = q /\ \A s \in Req \ {r} : req'[s] = req[s]
    BY <2>1, <2>3, Requests
  <2>5. /\ UNCHANGED <<passkey, challenge, password, counter, created, signed, logins,
                       registered, again, raced>>
        /\ ChallengesKept /\ Drawn' = Drawn /\ SignedAsked'
    BY <1>1, Unchanged DEF RegisterRead
  <2>6. InHand(r)'
    BY <2>1, <2>2, <2>3, <2>4, <2>5 DEF InHand
  <2>7. TypeOK'
    BY <2>1, <2>2, <2>4, <2>5 DEF Typed, TypeOK
  <2>8. QED
    BY <2>4, <2>5, <2>6, <2>7, OthersHold DEF Typed
<1>2. CASE RegisterStore(r)
  <2>1. /\ req[r].pc = "store" /\ req[r].key \in Key /\ req[r].challenge \in Drawn
        /\ challenge[req[r].challenge] \in {"registration", "gone"}
    BY <1>2, Requests DEF RegisterStore, InHand
  <2>2. /\ UNCHANGED <<challenge, password, counter, created, signed, logins, overlapped, raced>>
        /\ ChallengesKept /\ Drawn' = Drawn /\ SignedAsked'
    BY <1>2, Unchanged DEF RegisterStore
  <2>3. CASE /\ passkey' = [passkey EXCEPT ![req[r].key] = 0]
             /\ registered' = registered \cup {req[r].challenge}
             /\ again' = again \cup ({req[r].challenge} \cap registered)
             /\ Goto(r, "clear")
    <3>1. /\ req' \in [Req -> Request] /\ req'[r].pc = "clear"
          /\ req'[r].key = req[r].key /\ req'[r].challenge = req[r].challenge
          /\ \A s \in Req \ {r} : req'[s] = req[s]
      BY <2>3, Requests DEF PC
    <3>2. InHand(r)'
      BY <2>1, <2>2, <3>1 DEF InHand
    <3>3. TypeOK'
      BY <2>1, <2>2, <2>3, <3>1, CountingAssumption DEF Typed, TypeOK
    <3>4. QED
      BY <2>2, <3>1, <3>2, <3>3, OthersHold DEF Typed
  <2>4. CASE Finish(r) /\ UNCHANGED <<passkey, registered, again>>
    <3>1. /\ req' \in [Req -> Request] /\ req'[r] = Idle /\ \A s \in Req \ {r} : req'[s] = req[s]
      BY <2>4, Requests
    <3>2. InHand(r)'
      BY <3>1, InHandIdle
    <3>3. TypeOK'
      BY <2>2, <2>4, <3>1 DEF Typed, TypeOK
    <3>4. QED
      BY <2>2, <3>1, <3>2, <3>3, OthersHold DEF Typed
  <2>5. QED
    BY <1>2, <2>3, <2>4 DEF RegisterStore
<1>3. CASE RegisterClear(r)
  <2>1. /\ req[r].challenge \in Drawn /\ Remove(req[r].challenge) /\ Finish(r)
        /\ UNCHANGED <<passkey, password, counter, logins, registered, again, overlapped, raced>>
    BY <1>3, Requests DEF RegisterClear, InHand
  <2>2. PICK x \in Drawn : x = req[r].challenge
    BY <2>1
  <2>3. ChallengesKept /\ ResponsesKept /\ Drawn' = Drawn /\ SignedAsked'
    BY <2>1, <2>2, Removed
  <2>4. /\ req' \in [Req -> Request] /\ req'[r] = Idle /\ \A s \in Req \ {r} : req'[s] = req[s]
    BY <2>1, Requests
  <2>5. InHand(r)'
    BY <2>4, InHandIdle
  <2>6. TypeOK'
    BY <2>1, <2>3, <2>4 DEF Typed, TypeOK, ChallengesKept, ResponsesKept, Kind
  <2>7. QED
    BY <2>1, <2>3, <2>4, <2>5, <2>6, OthersHold DEF Typed
<1>4. QED
  BY <1>1, <1>2, <1>3 DEF Register

LoginsOnce == \A x \in Challenge : LoginOnceEach(x)

LEMMA LoginTyped == ASSUME Typed, LoginsOnce, NEW r \in Req, Login(r) PROVE Typed'
<1> USE DEF external, history
<1>1. CASE LoginRead(r)
  <2>1. PICK a, q :
       /\ a \in signed
       /\ a.key \in Stored
       /\ q = [Idle EXCEPT !.pc = "challenge", !.key = a.key, !.challenge = a.challenge,
                 !.counter = a.counter, !.seen = passkey[a.key]]
       /\ Begin(r, q)
    BY <1>1 DEF LoginRead
  <2>2. /\ a \in Response /\ a.key \in Key /\ a.challenge \in Drawn /\ a.challenge \in Challenge
        /\ a.counter \in 0..MaxCounter /\ passkey[a.key] \in 0..MaxCounter
        /\ challenge[a.challenge] \in {"authentication", "gone"}
    BY <2>1 DEF Typed, TypeOK, SignedAsked, Response, Stored
  <2>3. q \in Request /\ q.pc = "challenge" /\ q.key = a.key /\ q.challenge = a.challenge
    BY <2>1, <2>2, IdleRequest DEF Request, PC
  <2>4. /\ req' \in [Req -> Request] /\ req'[r] = q /\ \A s \in Req \ {r} : req'[s] = req[s]
    BY <2>1, <2>3, Requests
  <2>5. /\ UNCHANGED <<passkey, challenge, password, counter, created, signed, logins,
                       registered, again, overlapped, raced>>
        /\ ChallengesKept /\ Drawn' = Drawn /\ SignedAsked'
    BY <1>1, Unchanged DEF LoginRead
  <2>6. InHand(r)'
    BY <2>2, <2>3, <2>4, <2>5 DEF InHand
  <2>7. TypeOK'
    BY <2>4, <2>5 DEF Typed, TypeOK
  <2>8. QED
    BY <2>4, <2>5, <2>6, <2>7, OthersHold DEF Typed
<1>2. CASE FindChallenge(r)
  <2>1. /\ req[r].challenge \in Drawn /\ req[r].key \in Key
        /\ challenge[req[r].challenge] \in {"authentication", "gone"}
        /\ overlapped' \in {overlapped, overlapped \cup {req[r].challenge}}
    BY <1>2, Requests DEF FindChallenge, InHand
  <2>2. /\ UNCHANGED <<passkey, challenge, password, counter, created, signed, logins,
                       registered, again, raced>>
        /\ ChallengesKept /\ Drawn' = Drawn /\ SignedAsked'
    BY <1>2, Unchanged DEF FindChallenge
  <2>3. Goto(r, "consume") \/ Finish(r)
    BY <1>2 DEF FindChallenge
  <2>4. req' \in [Req -> Request] /\ \A s \in Req \ {r} : req'[s] = req[s]
    BY <2>3, Requests DEF PC
  <2>5. InHand(r)'
    <3>1. CASE Goto(r, "consume")
      <4>1. /\ req'[r].pc = "consume" /\ req'[r].key = req[r].key
            /\ req'[r].challenge = req[r].challenge
        BY <3>1, Requests DEF PC
      <4>2. QED
        BY <2>1, <2>2, <4>1 DEF InHand
    <3>2. CASE Finish(r)
      BY <3>2, Requests, InHandIdle
    <3>3. QED
      BY <2>3, <3>1, <3>2
  <2>6. TypeOK'
    BY <2>1, <2>2, <2>4 DEF Typed, TypeOK
  <2>7. QED
    BY <2>2, <2>4, <2>5, <2>6, OthersHold DEF Typed
<1>3. CASE ConsumeChallenge(r)
  <2>1. /\ req[r].challenge \in Drawn /\ req[r].key \in Key /\ Remove(req[r].challenge)
        /\ challenge[req[r].challenge] \in {"authentication", "gone"}
        /\ UNCHANGED <<passkey, password, counter, logins, registered, again, overlapped, raced>>
    BY <1>3, Requests DEF ConsumeChallenge, InHand
  <2>2. PICK x \in Drawn : x = req[r].challenge
    BY <2>1
  <2>3. /\ ChallengesKept /\ ResponsesKept /\ Drawn' = Drawn /\ SignedAsked'
        /\ challenge'[x] = "gone"
    BY <2>1, <2>2, Removed
  <2>4. (Counts(req[r].counter, req[r].seen) /\ Goto(r, "update")) \/ Finish(r)
    BY <1>3 DEF ConsumeChallenge
  <2>5. req' \in [Req -> Request] /\ \A s \in Req \ {r} : req'[s] = req[s]
    BY <2>4, Requests DEF PC
  <2>6. InHand(r)'
    <3>1. CASE Counts(req[r].counter, req[r].seen) /\ Goto(r, "update")
      <4>1. /\ req'[r].pc = "update" /\ req'[r].key = req[r].key
            /\ req'[r].challenge = x /\ req'[r].counter = req[r].counter
            /\ req'[r].seen = req[r].seen
        BY <2>2, <3>1, Requests DEF PC
      <4>2. QED
        BY <2>1, <2>3, <3>1, <4>1 DEF InHand, Counts
    <3>2. CASE Finish(r)
      BY <3>2, Requests, InHandIdle
    <3>3. QED
      BY <2>4, <3>1, <3>2
  <2>7. TypeOK'
    BY <2>1, <2>3, <2>5 DEF Typed, TypeOK, ChallengesKept, ResponsesKept, Kind
  <2>8. QED
    BY <2>1, <2>3, <2>5, <2>6, <2>7, OthersHold DEF Typed
<1>4. CASE UpdateCounter(r)
  <2>1. /\ req[r].pc = "update" /\ req[r].challenge \in Drawn /\ req[r].key \in Key
        /\ challenge[req[r].challenge] \in {"authentication", "gone"} /\ Goto(r, "session")
        /\ req[r].counter \in 0..MaxCounter
    BY <1>4, Requests DEF UpdateCounter, InHand, Request
  <2>2. /\ UNCHANGED <<challenge, password, counter, created, signed, logins, registered,
                       again, overlapped, raced>>
        /\ ChallengesKept /\ Drawn' = Drawn /\ SignedAsked'
    BY <1>4, Unchanged DEF UpdateCounter
  <2>3. /\ req' \in [Req -> Request] /\ req'[r].pc = "session" /\ req'[r].key = req[r].key
        /\ req'[r].challenge = req[r].challenge /\ \A s \in Req \ {r} : req'[s] = req[s]
    BY <2>1, Requests DEF PC
  <2>4. passkey' \in [Key -> 0..MaxCounter \cup {None}]
    BY <1>4, <2>1 DEF UpdateCounter, Typed, TypeOK
  <2>5. InHand(r)'
    BY <2>1, <2>2, <2>3 DEF InHand
  <2>6. TypeOK'
    BY <2>2, <2>3, <2>4 DEF Typed, TypeOK
  <2>7. QED
    BY <2>2, <2>3, <2>5, <2>6, OthersHold DEF Typed
<1>5. CASE GiveSession(r)
  <2>1. PICK x \in Drawn : x = req[r].challenge
    BY <1>5, Requests DEF GiveSession, InHand
  <2>2. /\ req[r].pc = "session" /\ Finish(r) /\ x \in Challenge
        /\ logins' = [logins EXCEPT ![x] = @ + 1]
    BY <1>5, <2>1 DEF GiveSession, Typed, TypeOK
  <2>3. /\ UNCHANGED <<passkey, challenge, password, counter, created, signed, registered,
                       again, overlapped, raced>>
        /\ ChallengesKept /\ Drawn' = Drawn /\ SignedAsked'
    BY <1>5, Unchanged DEF GiveSession
  <2>4. /\ req' \in [Req -> Request] /\ req'[r] = Idle /\ \A s \in Req \ {r} : req'[s] = req[s]
    BY <2>2, Requests
  <2>5. logins' \in [Challenge -> 0..Cardinality(Req)]
    <3>1. /\ logins[x] + Cardinality(HoldersOf(x)) <= Cardinality(Req)
          /\ logins[x] \in Nat /\ Cardinality(Req) \in Nat
      BY <2>2, FS_CardinalityType, ReqAssumption DEF LoginsOnce, LoginOnceEach, Typed, TypeOK
    <3>2. IsFiniteSet(HoldersOf(x)) /\ HoldersOf(x) # {}
      BY <2>1, <2>2, FS_Subset, ReqAssumption DEF HoldersOf
    <3>3. Cardinality(HoldersOf(x)) \in Nat /\ Cardinality(HoldersOf(x)) # 0
      BY <3>2, FS_EmptySet, FS_CardinalityType
    <3>4. logins[x] + 1 \in 0..Cardinality(Req)
      BY <3>1, <3>3
    <3>5. QED
      BY <2>2, <3>4 DEF Typed, TypeOK
  <2>6. InHand(r)'
    BY <2>4, InHandIdle
  <2>7. TypeOK'
    BY <2>3, <2>4, <2>5 DEF Typed, TypeOK
  <2>8. QED
    BY <2>3, <2>4, <2>6, <2>7, OthersHold DEF Typed
<1>6. QED
  BY <1>1, <1>2, <1>3, <1>4, <1>5 DEF Login

\* A deletion that counts goes on with what it has counted.
LEMMA CountingSteps ==
  ASSUME Typed, NEW r \in Req, DeleteCount(r)
  PROVE  /\ req' \in [Req -> Request] /\ req'[r].pc = "delete" /\ req'[r].rows = Stored
         /\ req'[r].key = req[r].key /\ req'[r].challenge = req[r].challenge
         /\ \A s \in Req \ {r} : req'[s] = req[s]
<1>1. PICK q : q = [req[r] EXCEPT !.pc = "delete", !.rows = Stored]
  OBVIOUS
<1>2. req[r] \in Request /\ Stored \subseteq Key
  BY Requests DEF Stored
<1>3. /\ q \in Request /\ q.pc = "delete" /\ q.rows = Stored
      /\ q.key = req[r].key /\ q.challenge = req[r].challenge
  BY <1>1, <1>2 DEF Request, PC
<1>4. req' = [req EXCEPT ![r] = q]
  BY <1>1 DEF DeleteCount, Typed, TypeOK
<1> QED BY <1>3, <1>4 DEF Typed, TypeOK

LEMMA DeleteTyped ==
  ASSUME Typed, NEW r \in Req, Delete(r) \/ Abort(r)
  PROVE  Typed'
<1> USE DEF external, history
<1>1. CASE DeleteRead(r)
  <2>1. PICK k, q :
       /\ k \in Stored
       /\ q = [Idle EXCEPT !.pc = "count", !.key = k] /\ Begin(r, q)
    BY <1>1 DEF DeleteRead
  <2>2. k \in Key
    BY <2>1 DEF Stored
  <2>3. q \in Request /\ q.pc = "count" /\ q.key = k /\ q.challenge = None
    BY <2>1, <2>2, IdleRequest DEF Request, PC
  <2>4. /\ req' \in [Req -> Request] /\ req'[r] = q /\ \A s \in Req \ {r} : req'[s] = req[s]
    BY <2>1, <2>3, Requests
  <2>5. /\ UNCHANGED <<passkey, challenge, password, counter, created, signed, logins,
                       registered, again, overlapped, raced>>
        /\ ChallengesKept /\ Drawn' = Drawn /\ SignedAsked'
    BY <1>1, Unchanged DEF DeleteRead
  <2>6. InHand(r)'
    BY <2>2, <2>3, <2>4 DEF InHand
  <2>7. TypeOK'
    BY <2>4, <2>5 DEF Typed, TypeOK
  <2>8. QED
    BY <2>4, <2>5, <2>6, <2>7, OthersHold DEF Typed
<1>3. CASE DeleteCount(r)
  <2>1. /\ req[r].pc = "count" /\ req[r].key \in Key /\ req[r].challenge = None
        /\ Stored \subseteq Key
    BY <1>3, Requests DEF DeleteCount, InHand, Stored
  <2>2. /\ req' \in [Req -> Request] /\ req'[r].pc = "delete" /\ req'[r].rows = Stored
        /\ req'[r].key = req[r].key /\ req'[r].challenge = None
        /\ \A s \in Req \ {r} : req'[s] = req[s]
    BY <1>3, <2>1, CountingSteps
  <2>3. /\ UNCHANGED <<passkey, challenge, password, counter, created, signed, logins,
                       registered, again, overlapped, raced>>
        /\ ChallengesKept /\ Drawn' = Drawn /\ SignedAsked'
    BY <1>3, Unchanged DEF DeleteCount
  <2>4. password \/ Stored \notin {{k} : k \in Key}
    <3>1. \A k \in Key : Cardinality({k}) = 1
      BY FS_Singleton
    <3>2. QED
      BY <1>3, <3>1 DEF DeleteCount, MayDelete
  <2>5. InHand(r)'
    BY <2>1, <2>2, <2>3, <2>4 DEF InHand
  <2>6. TypeOK'
    BY <2>2, <2>3 DEF Typed, TypeOK
  <2>7. QED
    BY <2>2, <2>3, <2>5, <2>6, OthersHold DEF Typed
<1>2. CASE DeleteCommit(r) \/ Abort(r)
  <2>1. /\ Finish(r) /\ req[r] \in Request /\ req[r].pc # "idle"
        /\ req[r].key \in Key /\ (req[r].pc = "clear" => req[r].challenge \in Drawn)
    BY <1>2, Requests DEF DeleteCommit, Abort, InHand
  <2>2. /\ UNCHANGED <<challenge, password, counter, created, signed, logins, registered, again>>
        /\ ChallengesKept /\ Drawn' = Drawn /\ SignedAsked'
    BY <1>2, Unchanged DEF DeleteCommit, Abort
  <2>3. /\ req' \in [Req -> Request] /\ req'[r] = Idle /\ \A s \in Req \ {r} : req'[s] = req[s]
    BY <2>1, Requests
  <2>4. /\ passkey' \in [Key -> 0..MaxCounter \cup {None}] /\ raced' \in BOOLEAN
        /\ overlapped' \subseteq Drawn
    <3>1. CASE DeleteCommit(r)
      BY <2>1, <3>1 DEF DeleteCommit, Typed, TypeOK
    <3>2. CASE Abort(r)
      BY <2>1, <3>2 DEF Abort, Typed, TypeOK
    <3>3. QED
      BY <1>2, <3>1, <3>2
  <2>5. InHand(r)'
    BY <2>3, InHandIdle
  <2>6. TypeOK'
    BY <2>2, <2>3, <2>4 DEF Typed, TypeOK
  <2>7. QED
    BY <2>2, <2>3, <2>5, <2>6, OthersHold DEF Typed
<1>4. QED
  BY <1>1, <1>2, <1>3 DEF Delete

(* Steps that are no request's: challenges come and go, authenticators     *)
(* answer, a reset gives a password.                                       *)
Elsewhere ==
  \/ \E x \in Challenge : RegistrationOptions(x) \/ AuthenticationOptions(x) \/ Expire(x)
  \/ \E k \in Key, x \in Challenge : CreateCredential(k, x) \/ Sign(k, x)
  \/ SetPassword
  \/ UNCHANGED vars

LEMMA ElsewhereTyped ==
  ASSUME Typed, Elsewhere
  PROVE  /\ Typed' /\ ChallengesKept
         /\ UNCHANGED <<passkey, req, history>> /\ (password => password')
<1> USE DEF external, history
<1>1. ASSUME NEW x \in Challenge, RegistrationOptions(x) \/ AuthenticationOptions(x)
      PROVE  /\ Typed' /\ ChallengesKept
             /\ UNCHANGED <<passkey, req, history>> /\ (password => password')
  <2>1. PICK kind \in Kind : Offer(x, kind)
    BY <1>1 DEF RegistrationOptions, AuthenticationOptions, Kind
  <2>2. UNCHANGED <<passkey, password, external, req, history>>
    BY <1>1 DEF RegistrationOptions, AuthenticationOptions
  <2>3. ChallengesKept /\ Drawn' = Drawn \cup {x} /\ SignedAsked'
    BY <2>1, <2>2, Offered
  <2>4. TypeOK'
    BY <2>2, <2>3 DEF Typed, TypeOK, ChallengesKept, Kind
  <2>5. QED
    BY <2>2, <2>3, <2>4, AllHold DEF Typed
<1>2. ASSUME NEW x \in Challenge, Expire(x)
      PROVE  /\ Typed' /\ ChallengesKept
             /\ UNCHANGED <<passkey, req, history>> /\ (password => password')
  <2>1. /\ x \in Drawn /\ Remove(x)
        /\ UNCHANGED <<passkey, password, counter, req, history>>
    BY <1>2 DEF Expire
  <2>2. ChallengesKept /\ ResponsesKept /\ Drawn' = Drawn /\ SignedAsked'
    BY <2>1, Removed
  <2>3. TypeOK'
    BY <2>1, <2>2 DEF Typed, TypeOK, ChallengesKept, ResponsesKept, Kind
  <2>4. QED
    BY <2>1, <2>2, <2>3, AllHold DEF Typed
<1>3. ASSUME NEW k \in Key, NEW x \in Challenge, CreateCredential(k, x)
      PROVE  /\ Typed' /\ ChallengesKept
             /\ UNCHANGED <<passkey, req, history>> /\ (password => password')
  <2>1. /\ x \in Drawn /\ counter' = [counter EXCEPT ![k] = 0]
        /\ created' = created \cup {<<k, x>>}
        /\ UNCHANGED <<passkey, challenge, password, signed, req, history>>
    BY <1>3 DEF CreateCredential
  <2>2. ChallengesKept /\ Drawn' = Drawn /\ SignedAsked'
    BY <2>1, Unchanged
  <2>3. TypeOK'
    BY <2>1, <2>2, CountingAssumption DEF Typed, TypeOK
  <2>4. QED
    BY <2>1, <2>2, <2>3, AllHold DEF Typed
<1>4. ASSUME NEW k \in Key, NEW x \in Challenge, Sign(k, x)
      PROVE  /\ Typed' /\ ChallengesKept
             /\ UNCHANGED <<passkey, req, history>> /\ (password => password')
  <2>1. PICK n : /\ n = IF k \in Counting THEN counter[k] + 1 ELSE 0
                 /\ n <= MaxCounter /\ counter' = [counter EXCEPT ![k] = n]
                 /\ signed' = signed \cup {[key |-> k, challenge |-> x, counter |-> n]}
    BY <1>4 DEF Sign
  <2>2. /\ counter[k] # None /\ x \in Drawn /\ challenge[x] = "authentication"
        /\ UNCHANGED <<passkey, challenge, password, created, req, history>>
    BY <1>4 DEF Sign
  <2>3. n \in 0..MaxCounter
    BY <2>1, <2>2, CountingAssumption DEF Typed, TypeOK
  <2>4. ChallengesKept /\ Drawn' = Drawn
    BY <2>2, Unchanged
  <2>5. PICK a : a = [key |-> k, challenge |-> x, counter |-> n]
    OBVIOUS
  <2>6. a \in Response /\ a.challenge = x /\ signed' = signed \cup {a}
    BY <2>1, <2>3, <2>5 DEF Response
  <2>7. TypeOK'
    BY <2>1, <2>2, <2>3, <2>4, <2>6 DEF Typed, TypeOK
  <2>8. SignedAsked'
    BY <2>2, <2>4, <2>6 DEF Typed, SignedAsked
  <2>9. QED
    BY <2>2, <2>4, <2>7, <2>8, AllHold DEF Typed
<1>5. CASE SetPassword \/ UNCHANGED vars
  <2>1. /\ UNCHANGED <<passkey, challenge, external, req, history>>
        /\ password' \in BOOLEAN /\ (password => password')
    BY <1>5 DEF SetPassword, vars, Typed, TypeOK
  <2>2. ChallengesKept /\ Drawn' = Drawn /\ SignedAsked'
    BY <2>1, Unchanged
  <2>3. TypeOK'
    BY <2>1, <2>2 DEF Typed, TypeOK
  <2>4. QED
    BY <2>1, <2>2, <2>3, AllHold DEF Typed
<1>6. QED
  BY <1>1, <1>2, <1>3, <1>4, <1>5 DEF Elsewhere

LEMMA TypedStep == Typed /\ LoginsOnce /\ [Next]_vars => Typed'
BY RegisterTyped, LoginTyped, DeleteTyped, ElsewhereTyped DEF Next, Elsewhere

-----------------------------------------------------------------------------
(* What a challenge gave, and what is on its way to it.                    *)

Open(x) == x \in Drawn /\ challenge[x] # "gone"

\* A step that adds no login with x, and changes none, leaves x as used as it was.
LoginQuiet(x) ==
  /\ HoldersOf(x)' \subseteq HoldersOf(x) /\ \A s \in HoldersOf(x)' : req'[s] = req[s]
  /\ logins'[x] = logins[x] /\ overlapped \subseteq overlapped'
  /\ (x \in Drawn => x \in Drawn') /\ (Open(x)' => Open(x))

LEMMA LoginKept ==
  ASSUME Typed, NEW x \in Challenge, LoginOnceEach(x), LoginQuiet(x)
  PROVE  LoginOnceEach(x)'
<1>1. /\ IsFiniteSet(HoldersOf(x)) /\ Cardinality(HoldersOf(x)') <= Cardinality(HoldersOf(x))
      /\ Cardinality(HoldersOf(x)) \in Nat /\ Cardinality(HoldersOf(x)') \in Nat
  BY FS_Subset, FS_CardinalityType, ReqAssumption DEF HoldersOf, LoginQuiet
<1>2. logins[x] \in Nat /\ Cardinality(Req) \in Nat
  BY FS_CardinalityType, ReqAssumption DEF Typed, TypeOK
<1>3. logins'[x] + Cardinality(HoldersOf(x)') <= Cardinality(Req)
  BY <1>1, <1>2 DEF LoginOnceEach, LoginQuiet
<1>4. x \notin Drawn' => HoldersOf(x)' = {} /\ logins'[x] = 0
  BY DEF LoginOnceEach, LoginQuiet
<1>5. Open(x)' => logins'[x] = 0 /\ \A r \in HoldersOf(x)' : req'[r].pc = "consume"
  BY DEF LoginOnceEach, LoginQuiet, Open
<1>6. x \notin overlapped' =>
        logins'[x] <= 1 /\ \A r \in HoldersOf(x)' : HoldersOf(x)' = {r} /\ logins'[x] = 0
  BY DEF LoginOnceEach, LoginQuiet
<1>7. QED
  BY <1>3, <1>4, <1>5, <1>6 DEF LoginOnceEach, HoldersOf, Open

\* What the helpers do to the logins that hold a challenge.
LEMMA LeavesHolders ==
  ASSUME NEW x \in Challenge, NEW r \in Req, \A s \in Req \ {r} : req'[s] = req[s],
         req'[r].pc \notin {"consume", "update", "session"} \/ req'[r].challenge # x
  PROVE  HoldersOf(x)' \subseteq HoldersOf(x) /\ \A s \in HoldersOf(x)' : req'[s] = req[s]
BY DEF HoldersOf

LEMMA Opens ==
  ASSUME ChallengesKept, NEW x \in Challenge, Drawn' = Drawn
  PROVE  (x \in Drawn => x \in Drawn') /\ (Open(x)' => Open(x))
BY DEF ChallengesKept, Open

LEMMA RegisterQuiet ==
  ASSUME Typed, NEW r \in Req, Register(r), NEW x \in Challenge
  PROVE  LoginQuiet(x)
<1> USE DEF external, history
<1>1. CASE RegisterRead(r)
  <2>1. PICK c, q :
       /\ c \in created
       /\ q = [Idle EXCEPT !.pc = "store", !.key = c[1], !.challenge = c[2]]
       /\ Begin(r, q) /\ overlapped \subseteq overlapped'
    BY <1>1 DEF RegisterRead
  <2>2. q.pc = "store"
    BY <2>1 DEF Idle
  <2>3. req'[r] = q /\ \A s \in Req \ {r} : req'[s] = req[s]
    BY <2>1 DEF Begin, Typed, TypeOK
  <2>4. UNCHANGED <<challenge, logins>> /\ ChallengesKept /\ Drawn' = Drawn
    BY <1>1, Unchanged DEF RegisterRead
  <2>5. QED
    BY <2>1, <2>2, <2>3, <2>4, LeavesHolders, Opens DEF LoginQuiet
<1>2. CASE RegisterStore(r)
  <2>1. Goto(r, "clear") \/ Finish(r)
    BY <1>2 DEF RegisterStore
  <2>2. req'[r].pc \notin {"consume", "update", "session"} /\ \A s \in Req \ {r} : req'[s] = req[s]
    BY <2>1, Requests, IdleRequest DEF PC
  <2>3. UNCHANGED <<challenge, logins, overlapped>> /\ ChallengesKept /\ Drawn' = Drawn
    BY <1>2, Unchanged DEF RegisterStore
  <2>4. QED
    BY <2>2, <2>3, LeavesHolders, Opens DEF LoginQuiet
<1>3. CASE RegisterClear(r)
  <2>1. /\ req[r].challenge \in Drawn /\ Remove(req[r].challenge) /\ Finish(r)
        /\ UNCHANGED <<logins, overlapped>>
    BY <1>3, Requests DEF RegisterClear, InHand
  <2>2. PICK y \in Drawn : y = req[r].challenge
    BY <2>1
  <2>3. ChallengesKept /\ Drawn' = Drawn
    BY <2>1, <2>2, Removed
  <2>4. req'[r].pc = "idle" /\ \A s \in Req \ {r} : req'[s] = req[s]
    BY <2>1, Requests, IdleRequest
  <2>5. QED
    BY <2>1, <2>3, <2>4, LeavesHolders, Opens DEF LoginQuiet
<1>4. QED
  BY <1>1, <1>2, <1>3 DEF Register

LEMMA DeleteQuiet ==
  ASSUME Typed, NEW r \in Req, Delete(r) \/ Abort(r),
         NEW x \in Challenge
  PROVE  LoginQuiet(x)
<1> USE DEF external, history
<1>1. CASE DeleteRead(r)
  <2>1. PICK k, q :
       /\ k \in Stored
       /\ q = [Idle EXCEPT !.pc = "count", !.key = k] /\ Begin(r, q)
    BY <1>1 DEF DeleteRead
  <2>2. q.pc = "count"
    BY <2>1 DEF Idle
  <2>3. req'[r] = q /\ \A s \in Req \ {r} : req'[s] = req[s]
    BY <2>1 DEF Begin, Typed, TypeOK
  <2>4. UNCHANGED <<challenge, logins, overlapped>> /\ ChallengesKept /\ Drawn' = Drawn
    BY <1>1, Unchanged DEF DeleteRead
  <2>5. QED
    BY <2>2, <2>3, <2>4, LeavesHolders, Opens DEF LoginQuiet
<1>2. CASE DeleteCommit(r) \/ Abort(r)
  <2>1. Finish(r) /\ UNCHANGED <<challenge, logins>> /\ overlapped \subseteq overlapped'
    BY <1>2 DEF DeleteCommit, Abort
  <2>2. req'[r].pc = "idle" /\ \A s \in Req \ {r} : req'[s] = req[s]
    BY <2>1, Requests, IdleRequest
  <2>3. ChallengesKept /\ Drawn' = Drawn
    BY <2>1, Unchanged
  <2>4. QED
    BY <2>1, <2>2, <2>3, LeavesHolders, Opens DEF LoginQuiet
<1>3. CASE DeleteCount(r)
  <2>1. req'[r].pc = "delete" /\ \A s \in Req \ {r} : req'[s] = req[s]
    BY <1>3, CountingSteps
  <2>2. UNCHANGED <<challenge, logins, overlapped>> /\ ChallengesKept /\ Drawn' = Drawn
    BY <1>3, Unchanged DEF DeleteCount
  <2>3. QED
    BY <2>1, <2>2, LeavesHolders, Opens DEF LoginQuiet
<1>4. QED
  BY <1>1, <1>2, <1>3 DEF Delete

\* The steps that are no request's only draw and remove challenges.
LEMMA ElsewhereDraws ==
  ASSUME Typed, Elsewhere, NEW x \in Challenge
  PROVE  UNCHANGED <<req, history>> /\ (x \in Drawn => x \in Drawn' /\ (Open(x)' => Open(x)))
<1>1. ChallengesKept /\ UNCHANGED <<req, history>>
  BY ElsewhereTyped
<1>2. QED
  BY <1>1 DEF ChallengesKept, Open

LEMMA LoginsStep == Typed /\ LoginsOnce /\ [Next]_vars => LoginsOnce'
<1> SUFFICES ASSUME Typed, LoginsOnce, [Next]_vars, NEW x \in Challenge
             PROVE  LoginOnceEach(x)'
  BY DEF LoginsOnce
<1> USE DEF external, history
<1>1. /\ LoginOnceEach(x) /\ logins[x] \in Nat /\ Cardinality(Req) \in Nat
      /\ IsFiniteSet(HoldersOf(x)) /\ Cardinality(HoldersOf(x)) \in Nat
      /\ IsFiniteSet(HoldersOf(x)') /\ Cardinality(HoldersOf(x)') \in Nat
      /\ Cardinality(HoldersOf(x)') <= Cardinality(Req)
  BY FS_Subset, FS_CardinalityType, ReqAssumption DEF LoginsOnce, Typed, TypeOK, HoldersOf
<1>2. CASE LoginQuiet(x)
  BY <1>1, <1>2, LoginKept
<1>3. ASSUME NEW r \in Req, LoginRead(r) PROVE LoginQuiet(x)
  <2>1. PICK a, q :
          /\ q = [Idle EXCEPT !.pc = "challenge", !.key = a.key, !.challenge = a.challenge,
                    !.counter = a.counter, !.seen = passkey[a.key]]
          /\ Begin(r, q)
    BY <1>3 DEF LoginRead
  <2>2. q.pc = "challenge"
    BY <2>1 DEF Idle
  <2>3. req'[r] = q /\ \A s \in Req \ {r} : req'[s] = req[s]
    BY <2>1 DEF Begin, Typed, TypeOK
  <2>4. UNCHANGED <<challenge, logins, overlapped>> /\ ChallengesKept /\ Drawn' = Drawn
    BY <1>3, Unchanged DEF LoginRead
  <2>5. QED
    BY <2>2, <2>3, <2>4, LeavesHolders, Opens DEF LoginQuiet
<1>4. ASSUME NEW r \in Req, FindChallenge(r) PROVE LoginOnceEach(x)'
  <2>1. /\ UNCHANGED <<challenge, logins>> /\ ChallengesKept /\ Drawn' = Drawn
        /\ Open(x)' = Open(x) /\ overlapped \subseteq overlapped'
    BY <1>4, Unchanged DEF FindChallenge, Open
  <2>2. CASE Finish(r)
    <3>1. req'[r].pc = "idle" /\ \A s \in Req \ {r} : req'[s] = req[s]
      BY <2>2, Requests, IdleRequest
    <3>2. LoginQuiet(x)
      BY <2>1, <3>1, LeavesHolders DEF LoginQuiet
    <3>3. QED
      BY <1>2, <3>2
  <2>3. CASE ~Finish(r)
    <3>1. PICK y : /\ y = req[r].challenge /\ req[r].pc = "challenge" /\ y \in Drawn
                   /\ challenge[y] = "authentication" /\ Goto(r, "consume")
                   /\ overlapped' = IF \E s \in Req : req[s].pc = "consume"
                                                      /\ req[s].challenge = y
                                    THEN overlapped \cup {y} ELSE overlapped
      BY <1>4, <2>3, Requests DEF FindChallenge, InHand
    <3>2. /\ req'[r].pc = "consume" /\ req'[r].challenge = y
          /\ \A s \in Req \ {r} : req'[s] = req[s]
      BY <3>1, Requests DEF PC
    <3>3. CASE x # y
      <4>1. LoginQuiet(x)
        BY <2>1, <3>2, <3>3, LeavesHolders DEF LoginQuiet
      <4>2. QED
        BY <1>2, <4>1
    <3>4. CASE x = y
      <4>1. logins'[x] = 0 /\ \A s \in HoldersOf(x) : req[s].pc = "consume"
        BY <1>1, <2>1, <3>1, <3>4 DEF LoginOnceEach
      <4>2. \A s \in HoldersOf(x)' : req'[s].pc = "consume"
        BY <3>2, <4>1 DEF HoldersOf
      <4>3. x \notin overlapped' => HoldersOf(x)' = {r}
        BY <3>1, <3>2, <3>4, <4>1 DEF HoldersOf
      <4>4. logins'[x] + Cardinality(HoldersOf(x)') <= Cardinality(Req)
        BY <1>1, <4>1
      <4>5. QED
        BY <2>1, <3>1, <3>4, <4>1, <4>2, <4>3, <4>4 DEF LoginOnceEach, HoldersOf
    <3>5. QED
      BY <3>3, <3>4
  <2>4. QED
    BY <2>2, <2>3
<1>5. ASSUME NEW r \in Req, ConsumeChallenge(r) PROVE LoginOnceEach(x)'
  <2>1. PICK y \in Drawn : y = req[r].challenge /\ req[r].pc = "consume"
    BY <1>5, Requests DEF ConsumeChallenge, InHand
  <2>2. /\ Remove(y) /\ (Goto(r, "update") \/ Finish(r)) /\ UNCHANGED <<logins, overlapped>>
    BY <1>5, <2>1 DEF ConsumeChallenge
  <2>3. ChallengesKept /\ Drawn' = Drawn /\ ~Open(y)'
    BY <2>2, Removed DEF Open
  <2>4. /\ req'[r].pc \in {"idle", "update"}
        /\ req'[r].pc = "update" => req'[r].challenge = y
        /\ \A s \in Req \ {r} : req'[s] = req[s]
    BY <2>1, <2>2, Requests, IdleRequest DEF PC
  <2>5. HoldersOf(x)' \subseteq HoldersOf(x)
    BY <2>1, <2>4 DEF HoldersOf
  <2>6. CASE x # y
    <3>1. LoginQuiet(x)
      BY <2>2, <2>3, <2>4, <2>6, LeavesHolders, Opens DEF LoginQuiet
    <3>2. QED
      BY <1>2, <3>1
  <2>7. CASE x = y
    <3>1. Cardinality(HoldersOf(x)') <= Cardinality(HoldersOf(x))
      BY <1>1, <2>5, FS_Subset
    <3>2. logins'[x] + Cardinality(HoldersOf(x)') <= Cardinality(Req)
      BY <1>1, <2>2, <3>1 DEF LoginOnceEach
    <3>3. x \notin overlapped' =>
            logins'[x] <= 1 /\ \A s \in HoldersOf(x)' : HoldersOf(x)' = {s} /\ logins'[x] = 0
      BY <1>1, <2>2, <2>5 DEF LoginOnceEach
    <3>4. QED
      BY <2>3, <2>7, <3>2, <3>3 DEF LoginOnceEach, HoldersOf, Open
  <2>8. QED
    BY <2>6, <2>7
<1>6. ASSUME NEW r \in Req, UpdateCounter(r) PROVE LoginOnceEach(x)'
  <2>1. PICK y : y = req[r].challenge /\ req[r].pc = "update" /\ Goto(r, "session")
    BY <1>6 DEF UpdateCounter
  <2>2. UNCHANGED <<challenge, logins, overlapped>> /\ Drawn' = Drawn /\ Open(x)' = Open(x)
    BY <1>6, Unchanged DEF UpdateCounter, Open
  <2>3. /\ req'[r].pc = "session" /\ req'[r].challenge = y
        /\ \A s \in Req \ {r} : req'[s] = req[s]
    BY <2>1, Requests DEF PC
  <2>4. HoldersOf(x)' = HoldersOf(x)
    BY <2>1, <2>3 DEF HoldersOf
  <2>5. Open(x) => \A s \in HoldersOf(x)' : req'[s].pc = "consume"
    <3>1. Open(x) => \A s \in HoldersOf(x) : req[s].pc = "consume"
      BY <1>1 DEF LoginOnceEach, Open
    <3>2. Open(x) => r \notin HoldersOf(x)
      BY <2>1, <3>1
    <3>3. QED
      BY <2>3, <2>4, <3>1, <3>2 DEF HoldersOf
  <2>6. /\ logins'[x] + Cardinality(HoldersOf(x)') <= Cardinality(Req)
        /\ x \notin Drawn' => HoldersOf(x)' = {} /\ logins'[x] = 0
        /\ Open(x)' => logins'[x] = 0
        /\ x \notin overlapped' =>
             logins'[x] <= 1 /\ \A s \in HoldersOf(x)' : HoldersOf(x)' = {s} /\ logins'[x] = 0
    BY <1>1, <2>2, <2>4 DEF LoginOnceEach, Open
  <2>7. QED
    BY <2>2, <2>5, <2>6 DEF LoginOnceEach, HoldersOf, Open
<1>7. ASSUME NEW r \in Req, GiveSession(r) PROVE LoginOnceEach(x)'
  <2>1. PICK y \in Drawn : /\ y = req[r].challenge /\ req[r].pc = "session" /\ Finish(r)
                           /\ y \in Challenge /\ logins' = [logins EXCEPT ![y] = @ + 1]
    BY <1>7, Requests DEF GiveSession, InHand, Typed, TypeOK
  <2>2. /\ UNCHANGED <<challenge, overlapped>> /\ ChallengesKept /\ Drawn' = Drawn
        /\ Open(x)' = Open(x)
    BY <1>7, Unchanged DEF GiveSession, Open
  <2>3. req'[r].pc = "idle" /\ \A s \in Req \ {r} : req'[s] = req[s]
    BY <2>1, Requests, IdleRequest
  <2>4. CASE x # y
    <3>1. logins'[x] = logins[x]
      BY <2>1, <2>4 DEF Typed, TypeOK
    <3>2. LoginQuiet(x)
      BY <2>2, <2>3, <3>1, LeavesHolders DEF LoginQuiet
    <3>3. QED
      BY <1>2, <3>2
  <2>5. CASE x = y
    <3>1. r \in HoldersOf(x) /\ HoldersOf(x)' = HoldersOf(x) \ {r}
      BY <2>1, <2>3, <2>5 DEF HoldersOf
    <3>2. Cardinality(HoldersOf(x)') = Cardinality(HoldersOf(x)) - 1
      BY <1>1, <3>1, FS_RemoveElement
    <3>3. logins'[x] = logins[x] + 1
      BY <2>1, <2>5 DEF Typed, TypeOK
    <3>4. logins'[x] + Cardinality(HoldersOf(x)') <= Cardinality(Req)
      BY <1>1, <3>2, <3>3 DEF LoginOnceEach
    <3>5. ~Open(x)
      BY <1>1, <2>1, <3>1 DEF LoginOnceEach, Open
    <3>6. x \notin overlapped => logins'[x] = 1 /\ HoldersOf(x)' = {}
      BY <1>1, <3>1, <3>3 DEF LoginOnceEach
    <3>7. QED
      BY <2>1, <2>2, <2>5, <3>4, <3>5, <3>6 DEF LoginOnceEach, HoldersOf, Open
  <2>6. QED
    BY <2>4, <2>5
<1>8. CASE Elsewhere
  <2>1. UNCHANGED <<req, logins, overlapped>>
    BY <1>8, ElsewhereDraws
  <2>2. HoldersOf(x)' = HoldersOf(x)
    BY <2>1 DEF HoldersOf
  <2>3. CASE x \in Drawn
    BY <1>2, <1>8, <2>1, <2>2, <2>3, ElsewhereDraws DEF LoginQuiet
  <2>4. CASE x \notin Drawn
    <3>1. HoldersOf(x)' = {} /\ logins'[x] = 0
      BY <1>1, <2>1, <2>2, <2>4 DEF LoginOnceEach
    <3>2. Cardinality(HoldersOf(x)') = 0
      BY <3>1, FS_EmptySet
    <3>3. QED
      BY <1>1, <3>1, <3>2 DEF LoginOnceEach, HoldersOf
  <2>5. QED
    BY <2>3, <2>4
<1>9. QED
  BY <1>2, <1>3, <1>4, <1>5, <1>6, <1>7, <1>8, RegisterQuiet, DeleteQuiet
  DEF Next, Login, Elsewhere

RegistersOnce == \A x \in Challenge : RegisterOnceEach(x)

\* A step that adds no registration of x leaves x as used as it was, unless the
\* challenge outlives the registration that stored its passkey.
RegistrationQuiet(x) ==
  /\ RegistrarsOf(x)' \subseteq RegistrarsOf(x) /\ \A s \in RegistrarsOf(x)' : req'[s] = req[s]
  /\ (x \in again' => x \in again) /\ (x \in registered' <=> x \in registered)
  /\ overlapped \subseteq overlapped'
  /\ x \in registered /\ challenge'[x] # "gone" /\ x \notin overlapped' =>
       challenge[x] # "gone" /\ RegistrarsOf(x)' = RegistrarsOf(x)

LEMMA RegistrationKept ==
  ASSUME NEW x \in Challenge, RegisterOnceEach(x), RegistrationQuiet(x)
  PROVE  RegisterOnceEach(x)'
<1> SUFFICES ASSUME x \notin overlapped'
             PROVE  /\ x \notin again'
                    /\ \A r \in RegistrarsOf(x)' :
                         /\ RegistrarsOf(x)' = {r}
                         /\ req'[r].pc = "clear" <=> x \in registered'
                    /\ x \in registered' /\ challenge'[x] # "gone" => RegistrarsOf(x)' # {}
  BY DEF RegisterOnceEach, RegistrarsOf
<1>1. QED
  BY DEF RegisterOnceEach, RegistrationQuiet

\* A request that registers nothing neither before nor after the step.
LEMMA NoRegistrar ==
  ASSUME NEW x \in Challenge, NEW r \in Req, \A s \in Req \ {r} : req'[s] = req[s],
         req[r].pc \notin {"store", "clear"}, req'[r].pc \notin {"store", "clear"}
  PROVE  RegistrarsOf(x)' = RegistrarsOf(x) /\ \A s \in RegistrarsOf(x)' : req'[s] = req[s]
BY DEF RegistrarsOf

\* A registration that ends.
LEMMA RegistrarEnds ==
  ASSUME Typed, NEW x \in Challenge, NEW r \in Req, Finish(r)
  PROVE  /\ RegistrarsOf(x)' = RegistrarsOf(x) \ {r}
         /\ \A s \in RegistrarsOf(x)' : req'[s] = req[s]
BY Requests, IdleRequest DEF RegistrarsOf

LEMMA RegisterStep ==
  ASSUME Typed, NEW r \in Req, Register(r), NEW x \in Challenge, RegisterOnceEach(x)
  PROVE  RegisterOnceEach(x)'
<1> USE DEF external, history
<1>1. CASE RegisterRead(r)
  <2>1. PICK c, q :
       /\ c \in created
       /\ challenge[c[2]] = "registration"
       /\ q = [Idle EXCEPT !.pc = "store", !.key = c[1], !.challenge = c[2]]
       /\ req[r].pc = "idle" /\ Begin(r, q)
       /\ overlapped' = IF \E s \in Req : req[s].challenge = c[2]
                        THEN overlapped \cup {c[2]} ELSE overlapped
    BY <1>1 DEF RegisterRead, Begin
  <2>2. q.pc = "store" /\ q.challenge = c[2]
    BY <2>1 DEF Idle
  <2>3. req'[r] = q /\ \A s \in Req \ {r} : req'[s] = req[s]
    BY <2>1 DEF Begin, Typed, TypeOK
  <2>4. UNCHANGED <<challenge, registered, again>>
    BY <1>1 DEF RegisterRead
  <2>5. CASE x # c[2]
    <3>1. req[r].pc = "idle" /\ req'[r].challenge # x
      BY <2>1, <2>2, <2>3, <2>5
    <3>2. RegistrarsOf(x)' = RegistrarsOf(x) /\ \A s \in RegistrarsOf(x)' : req'[s] = req[s]
      BY <2>3, <3>1 DEF RegistrarsOf
    <3>3. RegistrationQuiet(x)
      BY <2>1, <2>4, <2>5, <3>2 DEF RegistrationQuiet
    <3>4. QED
      BY <3>3, RegistrationKept
  <2>6. CASE x = c[2] /\ x \notin overlapped'
    <3>1. x \notin overlapped /\ RegistrarsOf(x) = {} /\ x \notin registered /\ x \notin again
      BY <2>1, <2>6 DEF RegisterOnceEach, RegistrarsOf
    <3>2. RegistrarsOf(x)' = {r} /\ req'[r].pc = "store"
      BY <2>2, <2>3, <2>6, <3>1 DEF RegistrarsOf
    <3>3. QED
      BY <2>4, <3>1, <3>2 DEF RegisterOnceEach, RegistrarsOf
  <2>7. CASE x \in overlapped'
    BY <2>7 DEF RegisterOnceEach
  <2>8. QED
    BY <2>5, <2>6, <2>7
<1>2. CASE RegisterStore(r)
  <2>1. PICK y : y = req[r].challenge /\ req[r].pc = "store"
    BY <1>2 DEF RegisterStore
  <2>2. UNCHANGED <<challenge, overlapped>>
    BY <1>2 DEF RegisterStore
  <2>3. CASE /\ registered' = registered \cup {y} /\ again' = again \cup ({y} \cap registered)
             /\ Goto(r, "clear")
    <3>1. /\ req'[r].pc = "clear" /\ req'[r].challenge = y
          /\ \A s \in Req \ {r} : req'[s] = req[s]
      BY <2>1, <2>3, Requests DEF PC
    <3>2. RegistrarsOf(x)' = RegistrarsOf(x)
      BY <2>1, <3>1 DEF RegistrarsOf
    <3>3. CASE x # y
      <4>1. \A s \in RegistrarsOf(x)' : req'[s] = req[s]
        BY <3>1, <3>3 DEF RegistrarsOf
      <4>2. RegistrationQuiet(x)
        BY <2>2, <2>3, <3>2, <3>3, <4>1 DEF RegistrationQuiet
      <4>3. QED
        BY <4>2, RegistrationKept
    <3>4. CASE x = y /\ x \notin overlapped'
      <4>1. r \in RegistrarsOf(x)
        BY <2>1, <3>4 DEF RegistrarsOf
      <4>2. RegistrarsOf(x) = {r} /\ x \notin registered /\ x \notin again
        BY <2>1, <2>2, <3>4, <4>1 DEF RegisterOnceEach
      <4>3. QED
        BY <2>2, <2>3, <3>1, <3>2, <3>4, <4>2 DEF RegisterOnceEach, RegistrarsOf
    <3>5. CASE x \in overlapped'
      BY <3>5 DEF RegisterOnceEach
    <3>6. QED
      BY <3>3, <3>4, <3>5
  <2>4. CASE Finish(r) /\ UNCHANGED <<registered, again>>
    <3>1. x \notin overlapped /\ x \in registered => r \notin RegistrarsOf(x)
      BY <2>1 DEF RegisterOnceEach, RegistrarsOf
    <3>2. RegistrationQuiet(x)
      BY <2>2, <2>4, <3>1, RegistrarEnds DEF RegistrationQuiet
    <3>3. QED
      BY <3>2, RegistrationKept
  <2>5. QED
    BY <1>2, <2>1, <2>3, <2>4 DEF RegisterStore
<1>3. CASE RegisterClear(r)
  <2>1. PICK y \in Drawn : /\ y = req[r].challenge /\ Remove(y) /\ Finish(r)
                           /\ UNCHANGED <<registered, again, overlapped>>
    BY <1>3, Requests DEF RegisterClear, InHand
  <2>2. /\ challenge'[y] = "gone" /\ \A z \in Drawn \ {y} : challenge'[z] = challenge[z]
        /\ registered \subseteq Drawn
    BY <2>1, Removed DEF Typed, TypeOK
  <2>3. x # y => r \notin RegistrarsOf(x)
    BY <2>1 DEF RegistrarsOf
  <2>4. RegistrationQuiet(x)
    BY <2>1, <2>2, <2>3, RegistrarEnds DEF RegistrationQuiet
  <2>5. QED
    BY <2>4, RegistrationKept
<1>4. QED
  BY <1>1, <1>2, <1>3 DEF Register

\* Logins and deletions leave the registrations alone; one that dies with its
\* passkey stored is noted.
LEMMA OthersRegister ==
  ASSUME Typed, NEW r \in Req, NEW x \in Challenge, RegisterOnceEach(x),
         Login(r) \/ Delete(r) \/ Abort(r)
  PROVE  RegistrationQuiet(x)
<1> USE DEF external, history
<1>1. UNCHANGED <<registered, again>> /\ overlapped \subseteq overlapped'
  BY DEF Login, LoginRead, FindChallenge, ConsumeChallenge, UpdateCounter, GiveSession,
         Delete, DeleteRead, DeleteCount, DeleteCommit, Abort
<1>2. x \in registered /\ challenge'[x] # "gone" => challenge[x] # "gone"
  <2>1. CASE ConsumeChallenge(r)
    <3>1. PICK y \in Drawn : Remove(y)
      BY <2>1, Requests DEF ConsumeChallenge, InHand
    <3>2. QED
      BY <3>1, Removed DEF Typed, TypeOK, ChallengesKept
  <2>2. CASE UNCHANGED challenge
    BY <2>2
  <2>3. QED
    BY <2>1, <2>2 DEF Login, LoginRead, FindChallenge, UpdateCounter, GiveSession,
                      Delete, DeleteRead, DeleteCount, DeleteCommit, Abort
<1>3. CASE Abort(r)
  <2>1. Finish(r) /\ (req[r].pc = "clear" => req[r].challenge \in overlapped')
    BY <1>3 DEF Abort
  <2>2. x \notin overlapped' /\ x \in registered => r \notin RegistrarsOf(x)
    BY <1>1, <2>1 DEF RegisterOnceEach, RegistrarsOf
  <2>3. QED
    BY <1>1, <1>2, <2>1, <2>2, RegistrarEnds DEF RegistrationQuiet
<1>4. CASE Login(r) \/ Delete(r)
  <2>1. /\ req[r].pc \notin {"store", "clear"} /\ req'[r].pc \notin {"store", "clear"}
        /\ \A s \in Req \ {r} : req'[s] = req[s]
    <3>1. CASE LoginRead(r) \/ DeleteRead(r)
      <4>1. CASE LoginRead(r)
        <5>1. PICK q : q.pc = "challenge" /\ Begin(r, q)
          BY <4>1 DEF LoginRead, Idle
        <5>2. QED
          BY <5>1 DEF Begin, Typed, TypeOK
      <4>2. CASE DeleteRead(r)
        <5>1. PICK q : q.pc = "count" /\ Begin(r, q)
          BY <4>2 DEF DeleteRead, Idle
        <5>2. QED
          BY <5>1 DEF Begin, Typed, TypeOK
      <4>3. QED
        BY <3>1, <4>1, <4>2
    <3>2. CASE FindChallenge(r) \/ ConsumeChallenge(r) \/ UpdateCounter(r) \/ GiveSession(r)
               \/ DeleteCommit(r)
      <4>1. /\ req[r].pc \notin {"store", "clear"}
            /\ Goto(r, "consume") \/ Goto(r, "update") \/ Goto(r, "session") \/ Finish(r)
        BY <3>2 DEF FindChallenge, ConsumeChallenge, UpdateCounter, GiveSession, DeleteCommit
      <4>2. QED
        BY <4>1, Requests, IdleRequest DEF PC
    <3>3. CASE DeleteCount(r)
      BY <3>3, CountingSteps DEF DeleteCount
    <3>4. QED
      BY <1>4, <3>1, <3>2, <3>3 DEF Login, Delete
  <2>2. RegistrarsOf(x)' = RegistrarsOf(x) /\ \A s \in RegistrarsOf(x)' : req'[s] = req[s]
    BY <2>1, NoRegistrar
  <2>3. QED
    BY <1>1, <1>2, <2>2 DEF RegistrationQuiet
<1>5. QED
  BY <1>3, <1>4

LEMMA RegistersStep == Typed /\ RegistersOnce /\ [Next]_vars => RegistersOnce'
<1> SUFFICES ASSUME Typed, RegistersOnce, [Next]_vars, NEW x \in Challenge
             PROVE  RegisterOnceEach(x)'
  BY DEF RegistersOnce
<1>1. RegisterOnceEach(x)
  BY DEF RegistersOnce
<1>2. CASE \E r \in Req : Register(r)
  BY <1>1, <1>2, RegisterStep
<1>3. CASE \E r \in Req : Login(r) \/ Delete(r) \/ Abort(r)
  BY <1>1, <1>3, OthersRegister, RegistrationKept
<1>4. CASE Elsewhere
  <2>1. UNCHANGED <<req, registered, again, overlapped>>
    BY <1>4, ElsewhereDraws DEF history
  <2>2. RegistrarsOf(x)' = RegistrarsOf(x) /\ \A s \in RegistrarsOf(x)' : req'[s] = req[s]
    BY <2>1 DEF RegistrarsOf
  <2>3. x \in registered /\ challenge'[x] # "gone" => challenge[x] # "gone"
    BY <1>4, ElsewhereDraws DEF Typed, TypeOK, Open
  <2>4. RegistrationQuiet(x)
    BY <2>1, <2>2, <2>3 DEF RegistrationQuiet
  <2>5. QED
    BY <1>1, <2>4, RegistrationKept
<1>5. QED
  BY <1>2, <1>3, <1>4 DEF Next, Elsewhere

-----------------------------------------------------------------------------
(* The passkeys themselves.                                                *)

\* Only three statements write a passkey; every other step leaves the table, and
\* what was registered, as they were.
LEMMA PasskeySteps ==
  ASSUME Typed, [Next]_vars
  PROVE  \/ \E r \in Req : RegisterStore(r) \/ UpdateCounter(r) \/ DeleteCommit(r)
         \/ UNCHANGED <<passkey, registered, raced>> /\ (password => password')
<1> USE DEF external, history
<1>1. CASE Elsewhere
  BY <1>1, ElsewhereTyped
<1>2. CASE \E r \in Req : Register(r)
  BY <1>2 DEF Register, RegisterRead, RegisterClear
<1>3. CASE \E r \in Req : Login(r)
  BY <1>3 DEF Login, LoginRead, FindChallenge, ConsumeChallenge, GiveSession
<1>4. CASE \E r \in Req : Delete(r) \/ Abort(r)
  BY <1>4 DEF Delete, DeleteRead, DeleteCount, Abort
<1>5. QED
  BY <1>1, <1>2, <1>3, <1>4 DEF Next, Elsewhere

\* A request counts passkeys or deletes one only after a deletion began for it.
Deleting(q) == q.pc \in {"count", "delete"}
LEMMA DeletionSteps ==
  ASSUME Typed, [Next]_vars, NEW r \in Req, Deleting(req'[r])
  PROVE  req'[r] = req[r] \/ DeleteRead(r) \/ DeleteCount(r)
<1>1. ASSUME NEW s \in Req, s # r, \A t \in Req \ {s} : req'[t] = req[t]
      PROVE  req'[r] = req[r]
  BY <1>1
<1>2. CASE Elsewhere
  BY <1>2, ElsewhereTyped
<1>3. ASSUME NEW s \in Req, Register(s) PROVE req'[r] = req[r]
  <2>1. CASE RegisterRead(s)
    <3>1. PICK q : q.pc = "store" /\ Begin(s, q)
      BY <2>1 DEF RegisterRead, Idle
    <3> QED BY <3>1 DEF Begin, Typed, TypeOK, Deleting
  <2>2. CASE RegisterStore(s) \/ RegisterClear(s)
    <3>1. Goto(s, "clear") \/ Finish(s)
      BY <2>2 DEF RegisterStore, RegisterClear
    <3> QED BY <1>1, <3>1, Requests, IdleRequest DEF PC, Deleting
  <2> QED BY <1>3, <2>1, <2>2 DEF Register
<1>4. ASSUME NEW s \in Req, Login(s) PROVE req'[r] = req[r]
  <2>1. CASE LoginRead(s)
    <3>1. PICK q : q.pc = "challenge" /\ Begin(s, q)
      BY <2>1 DEF LoginRead, Idle
    <3> QED BY <3>1 DEF Begin, Typed, TypeOK, Deleting
  <2>2. CASE FindChallenge(s) \/ ConsumeChallenge(s) \/ UpdateCounter(s) \/ GiveSession(s)
    <3>1. Goto(s, "consume") \/ Goto(s, "update") \/ Goto(s, "session") \/ Finish(s)
      BY <2>2 DEF FindChallenge, ConsumeChallenge, UpdateCounter, GiveSession
    <3> QED BY <1>1, <3>1, Requests, IdleRequest DEF PC, Deleting
  <2> QED BY <1>4, <2>1, <2>2 DEF Login
<1>5. ASSUME NEW s \in Req, DeleteCommit(s) \/ Abort(s) PROVE req'[r] = req[r]
  <2>1. Finish(s)
    BY <1>5 DEF DeleteCommit, Abort
  <2> QED BY <1>1, <2>1, Requests, IdleRequest DEF Deleting
<1>6. ASSUME NEW s \in Req, DeleteRead(s) \/ DeleteCount(s), s # r PROVE req'[r] = req[r]
  <2>1. \A t \in Req \ {s} : req'[t] = req[t]
    BY <1>6, CountingSteps DEF DeleteRead, Begin, Typed, TypeOK
  <2> QED BY <1>1, <1>6, <2>1
<1> QED BY <1>2, <1>3, <1>4, <1>5, <1>6 DEF Next, Elsewhere, Delete

LEMMA LastKeyStep == Typed /\ LastKeyGuarded /\ [Next]_vars => LastKeyKept'
<1> SUFFICES ASSUME Typed, LastKeyGuarded, [Next]_vars, registered' # {}, ~password'
             PROVE  Stored' # {} \/ raced'
  BY DEF LastKeyKept
<1> USE DEF external, history, LastKeyGuarded
<1>1. CASE \E r \in Req : RegisterStore(r)
  <2>1. PICK r, k :
       /\ r \in Req
       /\ k = req[r].key /\ RegisterStore(r)
    BY <1>1
  <2>2. k \in Key /\ UNCHANGED <<password, raced>>
    BY <2>1, Requests DEF RegisterStore, InHand
  <2>3. CASE passkey' = [passkey EXCEPT ![k] = 0]
    <3>1. passkey'[k] # None
      BY <2>2, <2>3, NoneAssumption DEF Typed, TypeOK
    <3>2. QED
      BY <2>2, <3>1 DEF Stored
  <2>4. CASE UNCHANGED <<passkey, registered>>
    BY <2>2, <2>4 DEF LastKeyKept, Stored
  <2>5. QED
    BY <2>1, <2>3, <2>4 DEF RegisterStore
<1>2. CASE \E r \in Req : UpdateCounter(r)
  <2>1. PICK r, k :
       /\ r \in Req
       /\ k = req[r].key /\ UpdateCounter(r)
    BY <1>2
  <2>2. /\ k \in Key /\ req[r].counter \in 0..MaxCounter
        /\ UNCHANGED <<password, registered, raced>>
    BY <2>1, Requests DEF UpdateCounter, InHand, Request
  <2>3. Stored' = Stored
    <3>1. CASE UNCHANGED passkey
      BY <3>1 DEF Stored
    <3>2. CASE k \in Stored /\ passkey' = [passkey EXCEPT ![k] = req[r].counter]
      BY <2>2, <3>2, NoneAssumption DEF Stored, Typed, TypeOK
    <3>3. QED
      BY <2>1, <3>1, <3>2 DEF UpdateCounter
  <2>4. QED
    BY <2>2, <2>3 DEF LastKeyKept
<1>3. CASE \E r \in Req : DeleteCommit(r)
  <2>1. PICK r, k :
       /\ r \in Req
       /\ k = req[r].key /\ DeleteCommit(r)
    BY <1>3
  <2>2. /\ passkey' = [passkey EXCEPT ![k] = None] /\ UNCHANGED password
        /\ raced' = (raced \/ ~(req[r].rows \subseteq Stored))
        /\ req[r].pc = "delete" /\ k \in Key /\ req[r].rows # {k}
    BY <2>1, Requests DEF DeleteCommit, InHand
  <2>3. CASE req[r].rows \subseteq Stored /\ req[r].rows # {}
    <3>1. PICK j \in Stored : j # k
      BY <2>2, <2>3
    <3>2. passkey'[j] = passkey[j]
      BY <2>2, <3>1 DEF Stored, Typed, TypeOK
    <3>3. QED
      BY <3>1, <3>2 DEF Stored
  <2>4. CASE req[r].rows = {}
    BY <2>1, <2>2, <2>4
  <2>5. QED
    BY <2>2, <2>3, <2>4
<1>4. CASE UNCHANGED <<passkey, registered, raced>> /\ (password => password')
  BY <1>4 DEF LastKeyKept, Stored
<1>5. QED
  BY <1>1, <1>2, <1>3, <1>4, PasskeySteps

LEMMA LastKeyGuards == Typed /\ LastKeyGuarded /\ [Next]_vars => LastKeyGuarded'
<1> SUFFICES ASSUME Typed, LastKeyGuarded, [Next]_vars PROVE LastKeyGuarded'
  OBVIOUS
<1> USE DEF external, history
<1>1. LastKeyKept'
  BY LastKeyStep
<1>2. registered \subseteq registered' /\ (raced => raced') /\ (password => password')
  <2>1. ASSUME NEW r \in Req, RegisterStore(r) \/ UpdateCounter(r) \/ DeleteCommit(r)
        PROVE  registered \subseteq registered' /\ (raced => raced') /\ (password => password')
    <3>1. UNCHANGED password /\ (registered' = registered \cup {req[r].challenge} \/ UNCHANGED registered)
      BY <2>1 DEF RegisterStore, UpdateCounter, DeleteCommit
    <3>2. UNCHANGED raced \/ raced' = (raced \/ ~(req[r].rows \subseteq Stored))
      BY <2>1, Zenon DEF RegisterStore, UpdateCounter, DeleteCommit
    <3>3. raced => raced'
      BY <3>2, Zenon
    <3> QED BY <3>1, <3>3
  <2> QED BY <2>1, PasskeySteps
<1>3. Stored' # {} => registered' # {}
  <2>1. ASSUME NEW r \in Req, RegisterStore(r), registered' = {} PROVE Stored' = Stored
    BY <2>1 DEF RegisterStore, Stored
  <2>2. ASSUME NEW r \in Req, UpdateCounter(r) \/ DeleteCommit(r) PROVE Stored' \subseteq Stored
    BY <2>2, Requests DEF UpdateCounter, DeleteCommit, Stored, Typed, TypeOK
  <2>3. CASE UNCHANGED passkey
    BY <1>2, <2>3 DEF LastKeyGuarded, Stored
  <2> QED BY <1>2, <2>1, <2>2, <2>3, PasskeySteps DEF LastKeyGuarded
<1>4. ASSUME NEW r \in Req, Deleting(req'[r])
      PROVE  /\ registered' # {}
             /\ req'[r].pc = "delete" /\ req'[r].rows = {} => password' \/ raced'
  <2>1. CASE req'[r] = req[r]
    BY <1>2, <1>4, <2>1 DEF LastKeyGuarded, Deleting
  <2>2. CASE DeleteRead(r)
    <3>1. PICK q : q.pc = "count" /\ Begin(r, q)
      BY <2>2 DEF DeleteRead, Idle
    <3>2. req'[r].pc = "count"
      BY <3>1 DEF Begin, Typed, TypeOK
    <3>3. Stored # {}
      BY <2>2 DEF DeleteRead
    <3> QED BY <1>2, <3>2, <3>3 DEF LastKeyGuarded
  <2>3. CASE DeleteCount(r)
    <3>1. req[r].pc = "count" /\ req'[r].rows = Stored /\ UNCHANGED <<password, registered, raced>>
      BY <2>3, CountingSteps DEF DeleteCount
    <3> QED BY <3>1 DEF LastKeyGuarded, LastKeyKept
  <2> QED BY <1>4, <2>1, <2>2, <2>3, DeletionSteps
<1> QED BY <1>1, <1>3, <1>4 DEF LastKeyGuarded, Deleting

-----------------------------------------------------------------------------
(* The theorems.                                                           *)

LEMMA InitPasskeys == Init => PasskeyInv
<1> SUFFICES ASSUME Init PROVE PasskeyInv
  OBVIOUS
<1>1. Drawn = {} /\ \A r \in Req : req[r] = Idle
  BY DEF Init, Drawn
<1>2. Cardinality(Req) \in Nat
  BY FS_CardinalityType, ReqAssumption
<1>3. TypeOK
  <2>1. challenge \in [Drawn -> {"registration", "authentication", "gone"}]
    BY <1>1 DEF Init
  <2>2. req \in [Req -> Request] /\ logins \in [Challenge -> 0..Cardinality(Req)]
    BY <1>2, IdleRequest DEF Init
  <2>3. QED
    BY <1>1, <2>1, <2>2 DEF Init, TypeOK
<1>4. (\A r \in Req : InHand(r)) /\ SignedAsked
  BY <1>1, IdleRequest DEF Init, InHand, SignedAsked
<1>5. ASSUME NEW x \in Challenge PROVE LoginOnceEach(x) /\ RegisterOnceEach(x)
  <2>1. HoldersOf(x) = {} /\ RegistrarsOf(x) = {}
    BY <1>1, IdleRequest DEF HoldersOf, RegistrarsOf
  <2>2. Cardinality(HoldersOf(x)) = 0
    BY <2>1, FS_EmptySet
  <2>3. logins[x] = 0 /\ x \notin again /\ x \notin registered
    BY DEF Init
  <2>4. QED
    BY <1>1, <1>2, <2>1, <2>2, <2>3 DEF LoginOnceEach, RegisterOnceEach
<1>6. LastKeyGuarded
  BY <1>1, IdleRequest DEF Init, LastKeyGuarded, LastKeyKept, Stored
<1>7. QED
  BY <1>3, <1>4, <1>5, <1>6 DEF PasskeyInv

LEMMA PasskeyParts == PasskeyInv <=> Typed /\ LoginsOnce /\ RegistersOnce /\ LastKeyGuarded
BY DEF PasskeyInv, Typed, Held, LoginsOnce, RegistersOnce

\* The invariant that carries the rest, on any number of requests: what a request of
\* passkey.service.ts or deletePasskey has in hand between two of its statements,
\* which requests a challenge is promised to, and what becomes of the last passkey.
THEOREM PasskeysCorrect == Spec => []PasskeyInv
<1>1. PasskeyInv /\ [Next]_vars => PasskeyInv'
  <2> SUFFICES ASSUME PasskeyInv, [Next]_vars PROVE PasskeyInv'
    OBVIOUS
  <2>1. Typed /\ LoginsOnce /\ RegistersOnce /\ LastKeyGuarded
    BY PasskeyParts
  <2>2. Typed' /\ LoginsOnce' /\ RegistersOnce' /\ LastKeyGuarded'
    BY <2>1, TypedStep, LoginsStep, RegistersStep, LastKeyGuards
  <2>3. QED
    BY <2>2 DEF PasskeyInv, Typed, Held, LoginsOnce, RegistersOnce
<1>2. QED
  BY <1>1, InitPasskeys, PTL DEF Spec

\* The tables, the requests and what is noted of them keep their shapes; in
\* particular no challenge gives more sessions than requests ran.
THEOREM PasskeysTyped == Spec => []TypeOK
<1>1. PasskeyInv => TypeOK
  BY DEF PasskeyInv
<1>2. QED
  BY <1>1, PasskeysCorrect, PTL

\* A challenge gives one session or registers one passkey, however many responses
\* to it are sent at the same time, unless two requests found it before the one
\* deleted it (verifyPasskeyAuthentication, verifyPasskeyRegistration), or a
\* registration died between its passkey and its challenge.
THEOREM ChallengesOnce == Spec => []ChallengeOnceUnlessOverlapped
<1>1. PasskeyInv => ChallengeOnceUnlessOverlapped
  <2> SUFFICES ASSUME PasskeyInv PROVE ChallengeOnceUnlessOverlapped
    OBVIOUS
  <2>1. Drawn \subseteq Challenge /\ again \subseteq Challenge
    BY DEF PasskeyInv, TypeOK
  <2>2. ASSUME NEW x \in Challenge, x \notin overlapped PROVE logins[x] <= 1 /\ x \notin again
    BY <2>2 DEF PasskeyInv, LoginOnceEach, RegisterOnceEach
  <2>3. \A x \in Challenge : logins[x] \in Nat
    BY FS_CardinalityType, ReqAssumption DEF PasskeyInv, TypeOK
  <2>4. QED
    BY <2>1, <2>2, <2>3 DEF ChallengeOnceUnlessOverlapped
<1>2. QED
  BY <1>1, PasskeysCorrect, PTL

\* Whatever deletions, registrations and logins run side by side, deletePasskey
\* leaves a user without password a passkey, once one is registered, unless a
\* deletion had counted a passkey that another one deleted before it.
THEOREM LastKeyStays == Spec => []LastKeyKept
<1>1. PasskeyInv => LastKeyKept
  BY DEF PasskeyInv, LastKeyGuarded
<1>2. QED
  BY <1>1, PasskeysCorrect, PTL

\* The stored counter of a passkey only goes back when the login that writes it
\* (verifyPasskeyAuthentication) had read the passkey before another wrote it.
THEOREM CountersAdvance == Spec => CounterNeverBack
<1> DEFINE Back == \A k \in Stored :
       passkey'[k] # None /\ passkey'[k] < passkey[k]
         => \E r \in Req : /\ req[r].pc = "update" /\ req[r].key = k
                          /\ req'[r].pc = "session" /\ req[r].seen # passkey[k]
<1>1. PasskeyInv /\ [Next]_vars => [Back]_vars
  <2> SUFFICES ASSUME PasskeyInv, [Next]_vars, NEW k \in Stored,
                      passkey'[k] # None, passkey'[k] < passkey[k]
               PROVE  \E r \in Req : /\ req[r].pc = "update" /\ req[r].key = k
                                     /\ req'[r].pc = "session" /\ req[r].seen # passkey[k]
    OBVIOUS
  <2>1. Typed /\ k \in Key /\ passkey[k] \in 0..MaxCounter
    BY PasskeyParts DEF Typed, TypeOK, Stored
  <2>2. passkey'[k] # passkey[k]
    BY <2>1, CountingAssumption
  <2>3. ASSUME NEW r \in Req, RegisterStore(r) PROVE FALSE
    <3>1. passkey[req[r].key] = None /\ passkey' = [passkey EXCEPT ![req[r].key] = 0]
      BY <2>2, <2>3 DEF RegisterStore
    <3>2. QED
      BY <2>1, <2>2, <3>1 DEF Stored, Typed, TypeOK
  <2>4. ASSUME NEW r \in Req, DeleteCommit(r) PROVE FALSE
    BY <2>1, <2>2, <2>4 DEF DeleteCommit, Typed, TypeOK
  <2>5. ASSUME NEW r \in Req, UpdateCounter(r)
        PROVE  /\ req[r].pc = "update" /\ req[r].key = k
               /\ req'[r].pc = "session" /\ req[r].seen # passkey[k]
    <3>1. req[r].pc = "update" /\ req'[r].pc = "session"
      BY <2>1, <2>5, Requests DEF UpdateCounter, PC
    <3>2. passkey' = [passkey EXCEPT ![req[r].key] = req[r].counter]
      BY <2>2, <2>5 DEF UpdateCounter
    <3>3. req[r].key = k /\ passkey'[k] = req[r].counter
      BY <2>1, <2>2, <3>2 DEF Typed, TypeOK
    <3>4. /\ Counts(req[r].counter, req[r].seen)
          /\ req[r].counter \in 0..MaxCounter /\ req[r].seen \in 0..MaxCounter
      BY <2>1, <3>1, Requests DEF InHand, Request
    <3>5. req[r].seen # passkey[k]
      BY <2>1, <3>3, <3>4, CountingAssumption DEF Counts
    <3>6. QED
      BY <3>1, <3>3, <3>5
  <2>6. QED
    BY <2>1, <2>2, <2>3, <2>4, <2>5, PasskeySteps
<1>2. QED
  BY <1>1, PasskeysCorrect, PTL DEF Spec, CounterNeverBack
=============================================================================
