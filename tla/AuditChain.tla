----------------------------- MODULE AuditChain -----------------------------
(***************************************************************************)
(* The hash chain of the audit log, audit/audit.service.ts: appending an   *)
(* entry and verifying the chain in batches, page by page, from the start  *)
(* or from a checkpoint.                                                   *)
(*                                                                         *)
(* An entry is named by its created_at, which Postgres sets when the       *)
(* INSERT starts; it is seen by others when the INSERT commits.  A hash    *)
(* covers id, action and created_at, so it is the entry's name and whether *)
(* its row was edited since; SHA-256 does not collide.  The other columns  *)
(* (actor, details, resource) are in no hash and are not state: what       *)
(* anonymizeActorInAuditLogs writes cannot be seen by the chain.           *)
(***************************************************************************)
EXTENDS Integers, FiniteSets

CONSTANTS
  Writer,      \* appends in progress at the same time (event listeners)
  MaxEntries,  \* bound on the entries ever written
  Batch,       \* BATCH_SIZE, 1000 in the code
  MaxVerify,   \* maxEntries of one verification, 10 000 by default
  None         \* SQL NULL

ASSUME SizeAssumption == /\ MaxEntries \in Nat
                         /\ Batch \in Nat \ {0} /\ MaxVerify \in Nat \ {0}
ASSUME NoneAssumption == None \notin Nat /\ None \notin Nat \X BOOLEAN

VARIABLES
  link,       \* prev_hash of every committed entry
  edited,     \* entries whose row was changed by hand
  clock,      \* the next created_at
  writer,     \* the appends in progress
  check,      \* the verification in progress or last finished
  overlapped, \* history: an append read its predecessor beside another append
  broken      \* history: entries whose predecessor was edited or deleted

vars == <<link, edited, clock, writer, check, overlapped, broken>>
table == <<link, edited, clock, writer, overlapped, broken>>

-----------------------------------------------------------------------------
Stamp == 1..MaxEntries
Hash == Stamp \X BOOLEAN

Entries == DOMAIN link
HashOf(a) == <<a, a \in edited>>
IsLast(a, S) == a \in S /\ \A b \in S : b <= a
IsFirst(a, S) == a \in S /\ \A b \in S : a <= b
\* b follows a in S, with nothing between them.
Follows(a, b, S) == a \in S /\ b \in S /\ a < b /\ \A c \in S : c <= a \/ b <= c

Append == [pc : {"idle", "insert", "commit"}, prev : Hash \cup {None},
           at : Stamp \cup {None}]
Idle == [pc |-> "idle", prev |-> None, at |-> None]

\* after: the checkpoint; prev: previousHash; last: lastCheckedId; covered, due
\* and broken are history: what it looked at, what was there when it began, and
\* what of that was broken by then.
Check == [pc : {"idle", "read", "valid", "invalid"}, after : Stamp \cup {None},
          offset : Nat, prev : Hash \cup {None}, checked : Nat,
          last : Stamp \cup {None}, covered : SUBSET Stamp, due : SUBSET Stamp,
          broken : SUBSET Stamp]

Fresh == [pc |-> "idle", after |-> None, offset |-> 0, prev |-> None, checked |-> 0,
          last |-> None, covered |-> {}, due |-> {}, broken |-> {}]

Init ==
  /\ link = [a \in {} |-> None]
  /\ edited = {}
  /\ clock = 1
  /\ writer = [w \in Writer |-> Idle]
  /\ check = Fresh
  /\ overlapped = FALSE
  /\ broken = {}

-----------------------------------------------------------------------------
(* createAuditLog *)

\* Mutant of ReadLast: ORDER BY created_at, without DESC.
ReadLastAscending(w) ==
  /\ writer[w].pc = "idle"
  /\ clock <= MaxEntries
  /\ \E a \in Entries \cup {None} :
       /\ IF Entries = {} THEN a = None ELSE IsFirst(a, Entries)
       /\ writer' = [writer EXCEPT ![w] =
                       [pc |-> "insert", prev |-> IF a = None THEN None ELSE HashOf(a),
                        at |-> None]]
  /\ overlapped' = (overlapped \/ \E x \in Writer : writer[x].pc # "idle")
  /\ UNCHANGED <<link, edited, clock, check, broken>>

\* The latest entry is read and hashed; the first entry ever has no prev_hash.
ReadLast(w) ==
  /\ writer[w].pc = "idle"
  /\ clock <= MaxEntries
  /\ \/ /\ Entries = {}
        /\ writer' = [writer EXCEPT ![w] = [pc |-> "insert", prev |-> None, at |-> None]]
     \/ \E a \in Entries :
          /\ IsLast(a, Entries)
          /\ writer' = [writer EXCEPT ![w] =
                          [pc |-> "insert", prev |-> HashOf(a), at |-> None]]
  /\ overlapped' = (overlapped \/ \E x \in Writer : writer[x].pc # "idle")
  /\ UNCHANGED <<link, edited, clock, check, broken>>

\* The INSERT starts: created_at is now.
Insert(w) ==
  /\ writer[w].pc = "insert"
  /\ clock <= MaxEntries
  /\ writer' = [writer EXCEPT ![w] = [pc |-> "commit", prev |-> writer[w].prev,
                                      at |-> clock]]
  /\ clock' = clock + 1
  /\ UNCHANGED <<link, edited, check, overlapped, broken>>

\* It commits, maybe after a later one did.
Commit(w) ==
  /\ writer[w].pc = "commit"
  /\ link' = [a \in Entries \cup {writer[w].at} |->
                IF a = writer[w].at THEN writer[w].prev ELSE link[a]]
  /\ writer' = [writer EXCEPT ![w] = Idle]
  /\ UNCHANGED <<edited, clock, check, overlapped, broken>>

\* The statement or the process fails: no entry is written.
Abort(w) ==
  /\ writer[w].pc # "idle"
  /\ writer' = [writer EXCEPT ![w] = Idle]
  /\ UNCHANGED <<link, edited, clock, check, overlapped, broken>>

-----------------------------------------------------------------------------
(* verifyAuditChain *)

\* Entries the query ranges over: those after the checkpoint.  A checkpoint that
\* is not in the table compares with NULL and selects none.
Ranged(after) == IF after = None THEN Entries
                 ELSE IF after \in Entries THEN {a \in Entries : a > after}
                 ELSE {}
Rank(a, S) == Cardinality({b \in S : b <= a})
Page(S, offset, limit) == {a \in S : offset < Rank(a, S) /\ Rank(a, S) <= offset + limit}
Least(m, n) == IF m < n THEN m ELSE n

\* The last hash of the batch before is what the first entry must carry; the
\* first entry of all must carry none.
Linked(a, page, prev) ==
  \/ IsFirst(a, page) /\ link[a] = prev
  \/ \E b \in page : Follows(b, a, page) /\ link[a] = HashOf(b)

\* Mutants of NextOffset: one too far; a sign slip.
NextOffsetPast(offset, limit) == offset + limit + 1
NextOffsetBack(offset, limit) == offset - limit
\* The next batch starts where this one ended.
NextOffset(offset, limit) == offset + limit

\* Mutant of BeginCheck: expectedPrevHash is dropped.
BeginCheckUnlinked ==
  /\ check.pc # "read"
  /\ \E after \in {None, check.last} :
       /\ after # None => check.pc = "valid"
       /\ check' = [Fresh EXCEPT !.pc = "read", !.after = after, !.broken = broken,
                                 !.due = Page(Ranged(after), 0, MaxVerify)]
  /\ UNCHANGED table

\* From the start, or from where a valid verification ended.
BeginCheck ==
  /\ check.pc # "read"
  /\ \E after \in {None, check.last} :
       /\ after # None => check.pc = "valid"
       /\ check' = [Fresh EXCEPT !.pc = "read", !.after = after, !.broken = broken,
                       !.prev = IF after = None THEN None ELSE check.prev,
                       !.due = Page(Ranged(after), 0, MaxVerify)]
  /\ UNCHANGED table

\* One batch, up to the first entry that does not carry the hash of the one before.
ReadBatch ==
  LET limit == Least(Batch, MaxVerify - check.checked)
      page == Page(Ranged(check.after), check.offset, limit)
      bad == {a \in page : ~Linked(a, page, check.prev)}
      seen == check.checked + Cardinality(page)
      done == Cardinality(page) < limit \/ seen = MaxVerify
  IN
  /\ check.pc = "read"
  /\ \/ /\ page = {}
        /\ check' = [check EXCEPT !.pc = "valid"]
     \/ \E a \in bad :
          /\ IsFirst(a, bad)
          /\ check' = [check EXCEPT !.pc = "invalid", !.last = a,
                         !.checked = @ + Rank(a, page),
                         !.covered = @ \cup {b \in page : b <= a}]
     \/ /\ bad = {}
        /\ \E z \in page :
             /\ IsLast(z, page)
             /\ check' = [check EXCEPT !.pc = IF done THEN "valid" ELSE "read",
                            !.offset = NextOffset(@, limit), !.prev = HashOf(z), !.last = z,
                            !.checked = seen, !.covered = @ \cup page]
  /\ UNCHANGED table

-----------------------------------------------------------------------------
(* Outside the program: someone with access to the database edits or deletes *)
(* a row, at a time when nobody appends or verifies.  The entry that followed *)
(* it is left without its predecessor.                                        *)

Quiet == (\A w \in Writer : writer[w].pc = "idle") /\ check.pc # "read"
Orphans(a) == {b \in Entries : Follows(a, b, Entries)}

EditEntry(a) ==
  /\ Quiet
  /\ a \in Entries \ edited
  /\ edited' = edited \cup {a}
  /\ broken' = broken \cup Orphans(a)
  /\ UNCHANGED <<link, clock, writer, check, overlapped>>

DeleteEntry(a) ==
  /\ Quiet
  /\ a \in Entries
  /\ link' = [b \in Entries \ {a} |-> link[b]]
  /\ broken' = (broken \cup Orphans(a)) \ {a}
  /\ UNCHANGED <<edited, clock, writer, check, overlapped>>

Next ==
  \/ \E w \in Writer : ReadLast(w) \/ Insert(w) \/ Commit(w) \/ Abort(w)
  \/ BeginCheck
  \/ ReadBatch
  \/ \E a \in Stamp : EditEntry(a) \/ DeleteEntry(a)

Spec == Init /\ [][Next]_vars

-----------------------------------------------------------------------------
TypeOK ==
  /\ Entries \subseteq Stamp /\ link \in [Entries -> Hash \cup {None}]
  /\ edited \subseteq Stamp
  /\ clock \in 1..(MaxEntries + 1)
  /\ writer \in [Writer -> Append]
  /\ check \in Check
  /\ overlapped \in BOOLEAN
  /\ broken \subseteq Entries

\* Appends that took turns left a chain: apart from the places where a row was
\* tampered with, every entry carries the hash of the entry before it.
ChainUnlessOverlapped ==
  ~overlapped =>
    \A b \in Entries \ broken :
      \/ IsFirst(b, Entries) /\ link[b] = None
      \/ \E a \in Entries : Follows(a, b, Entries) /\ link[b] = HashOf(a)

\* An honest log is never called invalid: while appends take turns, the entry a
\* verification stops at had lost its predecessor before the verification began,
\* or the checkpoint it was given was edited, whatever was appended between two
\* batches.
NoFalseAlarm ==
  ~overlapped /\ check.pc = "invalid" =>
    check.last \in check.broken \/ check.after \in edited

\* A verification of the whole log finds the first place that was tampered with.
\* (One that resumes trusts its checkpoint, and a deleted last entry is missed.)
TamperingFound ==
  ~overlapped /\ check.pc = "valid" /\ check.after = None =>
    check.covered \cap check.broken = {}

\* The batches leave no gap: whatever was there when a verification began, up to
\* its limit, was looked at before it says "valid".
NothingSkipped ==
  ~overlapped /\ check.pc = "valid" => check.due \subseteq check.covered

\* "valid" means both: nothing was skipped, and what was looked at is unbroken.
ValidMeansIntact == TamperingFound /\ NothingSkipped

\* audit.routes.integration.test.ts:114 "hash chain integrity is maintained": a
\* log nobody tampered with verifies.
HonestLogVerifies ==
  check.pc = "invalid" => edited # {} \/ check.broken # {}

-----------------------------------------------------------------------------
(* What carries these: AuditInv is inductive. *)

\* A row that is being inserted has its created_at; a verification has entries left
\* to check while it reads.
InHand ==
  /\ \A w \in Writer : writer[w].pc = "commit" => writer[w].at \in Stamp
  /\ check.pc = "read" => check.checked < MaxVerify

\* Appends that take turns: one at a time, and until it commits the entry it read
\* stays the last, so that created_at grows along the chain.
InTurn ==
  /\ \A a \in Entries \cup ({check.last, check.after} \ {None}) : a < clock
  /\ \A w \in Writer : writer[w].pc # "idle" =>
       /\ \A x \in Writer : writer[x].pc # "idle" => x = w
       /\ \/ Entries = {} /\ writer[w].prev = None
          \/ \E a \in Entries : IsLast(a, Entries) /\ writer[w].prev = HashOf(a)
       /\ writer[w].pc = "commit" =>
            /\ writer[w].at < clock
            /\ \A a \in Entries \cup ({check.last, check.after} \ {None}) : a < writer[w].at

Chained(b) ==
  \/ IsFirst(b, Entries) /\ link[b] = None
  \/ \E a \in Entries : Follows(a, b, Entries) /\ link[b] = HashOf(a)
\* A broken entry shows it for good: what it links to is gone, or was edited since.
Shows(b) ==
  \E a \in Stamp, e \in BOOLEAN :
    link[b] = <<a, e>> /\ a < b /\ (a \in Entries => a \in edited /\ ~e)

\* A part of S that holds all that comes before what it holds.
Heads(S) == {C \in SUBSET S : \A a \in C, b \in S : b <= a => b \in C}
\* What a verification has looked at is the head of what it ranges over; what it
\* expects next is the hash of the last entry it looked at, or of its checkpoint.
Reading ==
  LET R == Ranged(check.after) IN
  /\ check.broken = broken
  /\ check.covered \in Heads(R) /\ check.due \in Heads(R)
  /\ Cardinality(check.covered) = check.offset /\ check.checked = check.offset
  /\ Cardinality(check.due) <= MaxVerify
  /\ IF check.covered = {}
     THEN /\ check.last = None
          /\ check.after = None => check.prev = None
          /\ check.after # None /\ check.after \notin edited =>
               check.prev = HashOf(check.after)
     ELSE IsLast(check.last, check.covered) /\ check.prev = HashOf(check.last)
  /\ check.after = None => check.covered \cap broken = {}

\* A valid verification is a checkpoint to resume from.
Resumable ==
  check.pc = "valid" /\ check.last \notin edited \cup {None} => check.prev = HashOf(check.last)

AuditInv ==
  /\ TypeOK /\ InHand
  /\ ~overlapped =>
       /\ InTurn
       /\ \A b \in Entries : IF b \in broken THEN Shows(b) ELSE Chained(b)
       /\ check.pc = "read" => Reading
       /\ Resumable
  /\ NoFalseAlarm /\ ValidMeansIntact
=============================================================================
