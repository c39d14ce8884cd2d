---------------------------- MODULE SigningKeys ----------------------------
(***************************************************************************)
(* The keys that sign tokens: the table signing_keys and the cache of      *)
(* imported keys that every instance of the service keeps for itself.      *)
(* A key pair never changes once it is inserted, so a cached key is its    *)
(* kid. Rows are numbered in the order of their insertion, which is that   *)
(* of created_at.                                                          *)
(***************************************************************************)
EXTENDS Integers

CONSTANTS
    Services,   \* instances of the service, one or more per process
    Requests,   \* requests that need a key, or rotate it
    MaxKeys     \* bound: the rows a behaviour may insert

ASSUME MaxKeysAssumption == MaxKeys \in Nat

NoService == "none"

ASSUME NoServiceAssumption == NoService \notin Services

VARIABLES
    status,     \* signing_keys.status, "none" for a row not inserted yet
    cache,      \* keyCache of each service
    use,        \* what each request is doing
    retired     \* history: the keys rotated away when the request began

keyVars == <<status, cache, use, retired>>

Kids == 1..MaxKeys
NoKid == 0
Idling == [pc |-> "idle", task |-> "sign", svc |-> NoService, kid |-> NoKid]

KeysTypeOK ==
    /\ status \in [Kids -> {"none", "active", "rotated"}]
    /\ cache \in [Services -> SUBSET Kids]
    /\ use \in [Requests -> [pc : {"idle", "select", "import", "insert", "ready"},
                             task : {"sign", "rotate"},
                             svc : Services \cup {NoService},
                             kid : Kids \cup {NoKid}]]
    /\ retired \in [Requests -> SUBSET Kids]
    /\ \A r \in Requests : use[r].pc # "idle" => use[r].svc \in Services
    /\ \A r \in Requests : use[r].pc \in {"import", "ready"} => use[r].kid \in Kids

KeysInit ==
    /\ status = [k \in Kids |-> "none"]
    /\ cache = [s \in Services |-> {}]
    /\ use = [r \in Requests |-> Idling]
    /\ retired = [r \in Requests |-> {}]

Active == {k \in Kids : status[k] = "active"}

\* What getJwks answers: whoever verifies a token reads this set, uncached.
Jwks == {k \in Kids : status[k] \in {"active", "rotated"}}

-----------------------------------------------------------------------------
(* Signing: getActiveSigningKey, then the signature.                       *)

BeginUse(r, s) ==
    /\ use[r].pc = "idle"
    /\ use' = [use EXCEPT ![r] = [Idling EXCEPT !.pc = "select", !.svc = s]]
    /\ retired' = [retired EXCEPT ![r] = {k \in Kids : status[k] = "rotated"}]
    /\ UNCHANGED <<status, cache>>

\* Mutant of SelectActive: what is cached is taken without asking the table.
SelectCached(r) ==
    /\ use[r].pc = "select"
    /\ \/ /\ Active = {} /\ cache[use[r].svc] = {}
          /\ use' = [use EXCEPT ![r].pc = "insert"]
       \/ \E k \in cache[use[r].svc] :
             use' = [use EXCEPT ![r].kid = k, ![r].pc = "ready"]
       \/ /\ cache[use[r].svc] = {}
          /\ \E k \in Active : use' = [use EXCEPT ![r].kid = k, ![r].pc = "import"]
    /\ UNCHANGED <<status, cache, retired>>

\* The newest active row, or none.
SelectActive(r) ==
    /\ use[r].pc = "select"
    /\ \/ /\ Active = {}
          /\ use' = [use EXCEPT ![r].pc = "insert"]
       \/ \E k \in Active :
             /\ \A j \in Active : j <= k
             /\ use' = [use EXCEPT ![r].kid = k,
                                   ![r].pc = IF k \in cache[use[r].svc] THEN "ready"
                                                                        ELSE "import"]
    /\ UNCHANGED <<status, cache, retired>>

ImportKey(r) ==
    /\ use[r].pc = "import"
    /\ cache' = [cache EXCEPT ![use[r].svc] = @ \cup {use[r].kid}]
    /\ use' = [use EXCEPT ![r].pc = "ready"]
    /\ UNCHANGED <<status, retired>>

\* generateKeyPair: the end of a rotation, or of a first use.
InsertKey(r) ==
    /\ use[r].pc = "insert"
    /\ \E k \in Kids :
          /\ status[k] = "none"
          /\ \A j \in Kids : j < k => status[j] # "none"
          /\ status' = [status EXCEPT ![k] = "active"]
          /\ cache' = [cache EXCEPT ![use[r].svc] = @ \cup {k}]
          /\ use' = [use EXCEPT ![r] = IF use[r].task = "sign"
                                       THEN [@ EXCEPT !.pc = "ready", !.kid = k]
                                       ELSE Idling]
    /\ UNCHANGED retired

Sign(r) ==
    /\ use[r].pc = "ready"
    /\ use' = [use EXCEPT ![r] = Idling]
    /\ retired' = [retired EXCEPT ![r] = {}]
    /\ UNCHANGED <<status, cache>>

-----------------------------------------------------------------------------
(* Rotating: the UPDATE of every active row, then a new one.               *)

RetireKeys(r, s) ==
    /\ use[r].pc = "idle"
    /\ status' = [k \in Kids |-> IF status[k] = "active" THEN "rotated" ELSE status[k]]
    /\ cache' = [cache EXCEPT ![s] = {}]
    /\ use' = [use EXCEPT ![r] = [Idling EXCEPT !.pc = "insert", !.task = "rotate", !.svc = s]]
    /\ UNCHANGED retired

\* The process stops or Postgres fails. After RetireKeys no key is active
\* until the next request asks for one.
AbandonKey(r) ==
    /\ use[r].pc # "idle"
    /\ use' = [use EXCEPT ![r] = Idling]
    /\ retired' = [retired EXCEPT ![r] = {}]
    /\ UNCHANGED <<status, cache>>

\* A service begins with an empty cache when its process starts again.
Restart(s) ==
    /\ cache[s] # {}
    /\ \A r \in Requests : use[r].svc # s
    /\ cache' = [cache EXCEPT ![s] = {}]
    /\ UNCHANGED <<status, use, retired>>

KeyStep(r) ==
    \/ SelectActive(r)
    \/ ImportKey(r)
    \/ InsertKey(r)

KeysNext ==
    \/ \E r \in Requests : KeyStep(r) \/ Sign(r) \/ AbandonKey(r)
    \/ \E r \in Requests, s \in Services : BeginUse(r, s) \/ RetireKeys(r, s)
    \/ \E s \in Services : Restart(s)

KeysSpec == KeysInit /\ [][KeysNext]_keyVars

-----------------------------------------------------------------------------
(* A key is published before anything is signed with it, whichever process *)
(* inserted it and whatever rotation came in between: every verifier reads *)
(* the table, so no token meets a verifier that does not know its key.     *)
SignsWithPublished ==
    \A r \in Requests : use[r].pc \in {"import", "ready"} => use[r].kid \in Jwks

(* A request that begins after a rotation never signs with a key that the  *)
(* rotation retired, although the caches of the other services still hold  *)
(* it: the row is chosen in the table, and the cache only saves the import. *)
RetiredNotUsed ==
    \A r \in Requests : use[r].pc \in {"import", "ready"} => use[r].kid \notin retired[r]

(* What carries the two: a cached key is a row, and a row that is retired  *)
(* when a request begins stays retired.                                    *)
KeysInv ==
    /\ KeysTypeOK
    /\ SignsWithPublished
    /\ RetiredNotUsed
    /\ \A r \in Requests : \A k \in retired[r] : status[k] = "rotated"
=============================================================================
