------------------------------ MODULE Clients ------------------------------
(***************************************************************************)
(* The OAuth clients: an administrator registers, changes and deletes them *)
(* and rotates their secrets, while they authenticate at the token,        *)
(* introspection, revocation and PAR endpoints. A secret is drawn at       *)
(* random, so it is its number; only the answer of the request that drew   *)
(* it carries it, the row keeps a hash.                                    *)
(***************************************************************************)
EXTENDS Integers

CONSTANTS
    Clients,
    Callers,     \* requests of administrators and of clients
    MaxSecrets   \* bound: the secrets a behaviour may draw

ASSUME MaxSecretsAssumption == MaxSecrets \in Nat

NoClient == "none"

ASSUME NoClientAssumption == NoClient \notin Clients

VARIABLES
    client,    \* oauth_clients
    drawn,     \* how many secrets have been drawn
    held,      \* the secrets that reached whoever runs the client
    task,      \* what each caller is doing
    touched    \* history: callers whose client was rewritten under their hands

clientVars == <<client, drawn, held, task, touched>>

Secrets == 0..MaxSecrets
Row == [st : {"unborn", "live", "gone"}, secret : Secrets, auth : BOOLEAN, grant : BOOLEAN]
Task == [pc : {"idle", "reply", "verify", "authed"}, client : Clients \cup {NoClient},
         secret : Secrets, row : Row]
Unborn == [st |-> "unborn", secret |-> 0, auth |-> FALSE, grant |-> FALSE]
Resting == [pc |-> "idle", client |-> NoClient, secret |-> 0, row |-> Unborn]

ClientsTypeOK ==
    /\ client \in [Clients -> Row]
    /\ drawn \in Secrets
    /\ held \in SUBSET Secrets
    /\ task \in [Callers -> Task]
    /\ touched \in SUBSET Callers
    /\ \A r \in Callers : task[r].pc # "idle" => task[r].client \in Clients

ClientsInit ==
    /\ client = [c \in Clients |-> Unborn]
    /\ drawn = 0
    /\ held = {}
    /\ task = [r \in Callers |-> Resting]
    /\ touched = {}

\* Whoever else is busy with c now works with what it was.
Touch(r, c) ==
    touched' = (touched \ {r}) \cup {q \in Callers \ {r} : task[q].client = c}

Reply(r, c) ==
    /\ drawn < MaxSecrets
    /\ drawn' = drawn + 1
    /\ task' = [task EXCEPT ![r] = [Resting EXCEPT !.pc = "reply", !.client = c,
                                                   !.secret = drawn + 1]]

-----------------------------------------------------------------------------
(* The administrator's requests, each one statement: its premises are in   *)
(* its WHERE, and no row means a refusal. What is left of it is the answer. *)

\* auth: its method is not 'none'. grant: confidential, and registered for
\* the client credentials grant.
CreateClient(r, c) ==
    /\ task[r].pc = "idle"
    /\ client[c].st = "unborn"
    /\ \E a, g \in BOOLEAN :
          client' = [client EXCEPT ![c] = [st |-> "live", secret |-> drawn + 1,
                                           auth |-> a, grant |-> g]]
    /\ Reply(r, c)
    /\ Touch(r, c)
    /\ UNCHANGED held

RotateSecret(r, c) ==
    /\ task[r].pc = "idle"
    /\ client[c].st = "live"
    /\ client' = [client EXCEPT ![c].secret = drawn + 1]
    /\ Reply(r, c)
    /\ Touch(r, c)
    /\ UNCHANGED held

\* The answer, after the event was published.
DeliverSecret(r) ==
    /\ task[r].pc = "reply"
    /\ held' = held \cup {task[r].secret}
    /\ task' = [task EXCEPT ![r] = Resting]
    /\ touched' = touched \ {r}
    /\ UNCHANGED <<client, drawn>>

\* Names, URIs and scopes are left out; an empty patch changes nothing.
UpdateClient(r, c) ==
    /\ task[r].pc = "idle"
    /\ client[c].st = "live"
    /\ \E a, g \in BOOLEAN :
          /\ <<a, g>> # <<client[c].auth, client[c].grant>>
          /\ client' = [client EXCEPT ![c].auth = a, ![c].grant = g]
    /\ Touch(r, c)
    /\ UNCHANGED <<drawn, held, task>>

DeleteClient(r, c) ==
    /\ task[r].pc = "idle"
    /\ client[c].st = "live"
    /\ client' = [client EXCEPT ![c] = [Unborn EXCEPT !.st = "gone"]]
    /\ Touch(r, c)
    /\ UNCHANGED <<drawn, held, task>>

-----------------------------------------------------------------------------
(* authenticateClient: the row is read, then the hash is compared, which   *)
(* takes long; the endpoint goes on with the row as it was read.           *)

ReadClient(r, c) ==
    /\ task[r].pc = "idle"
    /\ client[c].st = "live" /\ client[c].auth
    /\ \E s \in held :
          task' = [task EXCEPT ![r] = [pc |-> "verify", client |-> c, secret |-> s,
                                       row |-> client[c]]]
    /\ touched' = touched \ {r}
    /\ UNCHANGED <<client, drawn, held>>

\* Mutant of VerifySecret: any secret that was ever given out will do.
VerifyNothing(r) ==
    /\ task[r].pc = "verify"
    /\ task' = [task EXCEPT ![r].pc = "authed"]
    /\ UNCHANGED <<client, drawn, held, touched>>

VerifySecret(r) ==
    /\ task[r].pc = "verify"
    /\ IF task[r].row.secret = task[r].secret
       THEN /\ task' = [task EXCEPT ![r].pc = "authed"]
            /\ UNCHANGED touched
       ELSE /\ task' = [task EXCEPT ![r] = Resting]
            /\ touched' = touched \ {r}
    /\ UNCHANGED <<client, drawn, held>>

\* The endpoint has done its work, or the request dies. An answer that is
\* not delivered takes its secret with it.
LeaveClient(r) ==
    /\ task[r].pc # "idle"
    /\ task' = [task EXCEPT ![r] = Resting]
    /\ touched' = touched \ {r}
    /\ UNCHANGED <<client, drawn, held>>

AdministerClient(r, c) ==
    \/ CreateClient(r, c)
    \/ RotateSecret(r, c)
    \/ UpdateClient(r, c)
    \/ DeleteClient(r, c)

ClientsNext ==
    \/ \E r \in Callers, c \in Clients : AdministerClient(r, c) \/ ReadClient(r, c)
    \/ \E r \in Callers : DeliverSecret(r) \/ VerifySecret(r) \/ LeaveClient(r)

ClientsSpec == ClientsInit /\ [][ClientsNext]_clientVars

-----------------------------------------------------------------------------
(* The secret that an answer carries, and the one a client was let in      *)
(* with, is the secret of the row, unless another request has rewritten or *)
(* deleted the row in between: "old secret fails, new works"               *)
(* (client.service.integration.test.ts:81), for any order of rotations and *)
(* logins. Two rotations that overlap hand out a secret that is dead.      *)
CurrentUnlessTouched ==
    \A r \in Callers \ touched :
        task[r].pc \in {"reply", "authed"} =>
            /\ client[task[r].client].st = "live"
            /\ client[task[r].client].secret = task[r].secret
            /\ task[r].pc = "authed" => client[task[r].client] = task[r].row

ClientsInv ==
    /\ ClientsTypeOK
    /\ CurrentUnlessTouched
    /\ \A r \in Callers \ touched :
          task[r].pc \in {"verify", "authed"} =>
             client[task[r].client] = task[r].row /\ task[r].row.st = "live"
    /\ \A r \in Callers : task[r].pc = "idle" => task[r].client = NoClient
=============================================================================
