-------------------------- MODULE AuditChain_proofs --------------------------
(***************************************************************************)
(* Theorems about AuditChain, for any writers and any sizes.               *)
(***************************************************************************)
EXTENDS AuditChain, Functions, FiniteSetTheorems, TLAPS

-----------------------------------------------------------------------------
(* Ranks and pages: ORDER BY created_at LIMIT limit OFFSET offset.         *)

\* The rank counts the entries up to one, so it grows with created_at.
LEMMA Ranks ==
  ASSUME NEW S \in SUBSET Int, IsFiniteSet(S), NEW a \in S
  PROVE  /\ Rank(a, S) \in 1..Cardinality(S)
         /\ \A b \in S : a < b => Rank(a, S) < Rank(b, S)
<1> DEFINE To(b) == {c \in S : c <= b}
<1>1. \A b \in S : To(b) \in SUBSET S /\ b \in To(b)
  OBVIOUS
<1>2. \A b \in S : IsFiniteSet(To(b)) /\ Cardinality(To(b)) \in Nat
                   /\ Cardinality(To(b)) <= Cardinality(S)
  BY <1>1, FS_Subset, FS_CardinalityType
<1>3. Cardinality(S) \in Nat
  BY FS_CardinalityType
<1>4. Cardinality(To(a)) # 0
  BY <1>1, <1>2, FS_EmptySet
<1>5. Rank(a, S) \in 1..Cardinality(S)
  <2>1. Rank(a, S) = Cardinality(To(a))
    BY DEF Rank
  <2>2. QED
    BY <1>2, <1>3, <1>4, <2>1
<1>6. ASSUME NEW b \in S, a < b PROVE Rank(a, S) < Rank(b, S)
  <2>1. To(a) \in SUBSET To(b) /\ To(a) # To(b)
    <3>1. b \in To(b) /\ b \notin To(a)
      BY <1>6
    <3>2. \A c \in To(a) : c \in S /\ c <= b
      BY <1>6
    <3>3. QED
      BY <3>1, <3>2
  <2>2. Cardinality(To(a)) <= Cardinality(To(b)) /\ Cardinality(To(b)) # Cardinality(To(a))
    BY <1>2, <2>1, FS_Subset
  <2>3. Rank(a, S) = Cardinality(To(a)) /\ Rank(b, S) = Cardinality(To(b))
    BY DEF Rank
  <2>4. QED
    BY <1>2, <2>2, <2>3
<1>7. QED
  BY <1>5, <1>6

\* No two entries have the same rank, and no rank up to their number is free.
LEMMA RankOnto ==
  ASSUME NEW S \in SUBSET Int, IsFiniteSet(S), NEW n \in 1..Cardinality(S)
  PROVE  \E a \in S : Rank(a, S) = n
<1> DEFINE f == [a \in S |-> Rank(a, S)]
<1>1. f \in [S -> 1..Cardinality(S)] /\ \A a, b \in S : f[a] = f[b] => a = b
  BY Ranks
<1>2. f \in Injection(S, 1..Cardinality(S))
  BY <1>1 DEF Injection, IsInjective
<1>3. Cardinality(S) \in Nat
  BY FS_CardinalityType
<1>4. IsFiniteSet(1..Cardinality(S)) /\ Cardinality(1..Cardinality(S)) = Cardinality(S)
  BY <1>3, FS_Interval
<1>5. f \in Surjection(S, 1..Cardinality(S))
  BY <1>2, <1>4, FS_Injection
<1>6. QED
  BY <1>5 DEF Surjection

\* A page has at most limit entries; one with fewer is the end of the table.
LEMMA Pages ==
  ASSUME NEW S \in SUBSET Int, IsFiniteSet(S), NEW offset \in Nat, NEW limit \in Nat
  PROVE  /\ Page(S, offset, limit) \subseteq S /\ IsFiniteSet(Page(S, offset, limit))
         /\ Cardinality(Page(S, offset, limit)) \in 0..limit
         /\ Cardinality(Page(S, offset, limit)) < limit =>
              \A a \in S : Rank(a, S) <= offset + limit
<1> DEFINE P == Page(S, offset, limit)
           I == (offset + 1)..(offset + limit)
           f == [a \in P |-> Rank(a, S)]
<1>1. P \in SUBSET S /\ IsFiniteSet(P) /\ Cardinality(P) \in Nat
  BY FS_Subset, FS_CardinalityType DEF Page
<1>2. \A a \in S : Rank(a, S) \in 1..Cardinality(S)
  BY Ranks
<1>3. f \in [P -> I]
  <2>1. ASSUME NEW a \in P PROVE Rank(a, S) \in I
    <3>1. a \in S /\ offset < Rank(a, S) /\ Rank(a, S) <= offset + limit
      BY DEF Page
    <3>2. Rank(a, S) \in Int
      BY <1>2, <3>1
    <3>3. QED
      BY <3>1, <3>2
  <2>2. QED
    BY <2>1
<1>4. f \in Injection(P, I)
  <2>1. ASSUME NEW a \in P, NEW b \in P, f[a] = f[b] PROVE a = b
    <3>1. a \in S /\ b \in S /\ a \in Int /\ b \in Int /\ Rank(a, S) = Rank(b, S)
      BY <1>1, <2>1
    <3>2. ~(a < b) /\ ~(b < a)
      BY <1>2, <3>1, Ranks
    <3>3. QED
      BY <3>1, <3>2
  <2>2. QED
    BY <1>3, <2>1 DEF Injection, IsInjective
<1>5. IsFiniteSet(I) /\ Cardinality(I) = limit
  BY FS_Interval
<1>6. Cardinality(P) \in 0..limit
  BY <1>1, <1>4, <1>5, FS_Injection
<1>7. ASSUME NEW a \in S, Rank(a, S) > offset + limit PROVE Cardinality(P) >= limit
  <2>1. Cardinality(S) \in Nat /\ offset + limit <= Cardinality(S)
    BY <1>2, <1>7, FS_CardinalityType
  <2>2. \A n \in I : \E b \in P : f[b] = n
    <3> SUFFICES ASSUME NEW n \in I PROVE \E b \in P : f[b] = n
      OBVIOUS
    <3>1. PICK b \in S : Rank(b, S) = n
      BY <2>1, RankOnto
    <3>2. QED
      BY <3>1 DEF Page
  <2>3. f \in Surjection(P, I)
    BY <1>3, <2>2 DEF Surjection
  <2>4. QED
    BY <1>1, <1>5, <2>3, FS_Surjection
<1>8. \A a \in S : Rank(a, S) \in Int
  BY <1>2
<1>9. QED
  BY <1>1, <1>6, <1>7, <1>8

\* A head of the table holds the entries of the lowest ranks.
LEMMA HeadRanks ==
  ASSUME NEW S \in SUBSET Int, IsFiniteSet(S), NEW C \in Heads(S)
  PROVE  /\ IsFiniteSet(C) /\ Cardinality(C) \in Nat /\ Cardinality(C) <= Cardinality(S)
         /\ \A a \in S : a \in C <=> Rank(a, S) <= Cardinality(C)
<1>1. C \in SUBSET S /\ \A a \in C, b \in S : b <= a => b \in C
  BY DEF Heads
<1>2. IsFiniteSet(C) /\ Cardinality(C) \in Nat /\ Cardinality(C) <= Cardinality(S)
  BY <1>1, FS_Subset, FS_CardinalityType
<1>3. ASSUME NEW a \in C PROVE Rank(a, S) <= Cardinality(C)
  <2>1. {b \in S : b <= a} \in SUBSET C
    BY <1>1
  <2>2. QED
    BY <1>2, <2>1, FS_Subset DEF Rank
<1>4. ASSUME NEW a \in S \ C PROVE ~(Rank(a, S) <= Cardinality(C))
  <2>1. PICK T : T = {b \in S : b <= a}
    OBVIOUS
  <2>2. C \in SUBSET T /\ a \in T /\ T \in SUBSET S
    BY <1>1, <2>1
  <2>3. IsFiniteSet(T) /\ Cardinality(T) \in Nat
    BY <2>2, FS_Subset, FS_CardinalityType
  <2>4. Cardinality(C) <= Cardinality(T) /\ Cardinality(T) # Cardinality(C)
    BY <2>2, <2>3, FS_Subset
  <2>5. Rank(a, S) = Cardinality(T)
    BY <2>1 DEF Rank
  <2>6. QED
    BY <1>2, <2>3, <2>4, <2>5
<1>5. QED
  BY <1>2, <1>3, <1>4

\* With the page that follows it a head makes a longer head.
LEMMA HeadAndPage ==
  ASSUME NEW S \in SUBSET Int, IsFiniteSet(S), NEW C \in Heads(S), NEW limit \in Nat,
         NEW P, P = Page(S, Cardinality(C), limit)
  PROVE  /\ C \cup P \in Heads(S) /\ C \cap P = {} /\ \A a \in C, b \in P : a < b
         /\ Cardinality(C \cup P) = Cardinality(C) + Cardinality(P)
         /\ Cardinality(P) < limit => C \cup P = S
<1>1. /\ IsFiniteSet(C) /\ Cardinality(C) \in Nat
      /\ \A a \in S : a \in C <=> Rank(a, S) <= Cardinality(C)
      /\ C \subseteq S /\ \A a \in S : Rank(a, S) \in Nat
  BY HeadRanks, Ranks DEF Heads
<1>2. /\ P \subseteq S /\ IsFiniteSet(P) /\ Cardinality(P) \in 0..limit
      /\ Cardinality(P) < limit => \A a \in S : Rank(a, S) <= Cardinality(C) + limit
  BY <1>1, Pages
<1>3. \A a \in S : a \in C \cup P <=> Rank(a, S) <= Cardinality(C) + limit
  BY <1>1, <1>2 DEF Page
<1>4. C \cap P = {}
  <2>1. ASSUME NEW a \in P, a \in C PROVE FALSE
    <3>1. a \in S /\ Cardinality(C) < Rank(a, S)
      BY DEF Page
    <3>2. Rank(a, S) \in Nat /\ Rank(a, S) <= Cardinality(C)
      BY <1>1, <2>1, <3>1
    <3>3. QED
      BY <1>1, <3>1, <3>2
  <2>2. QED
    BY <2>1
<1>5. \A a \in C, b \in P : a < b
  BY <1>1, <1>2, <1>4 DEF Heads
<1>6. C \cup P \in Heads(S)
  <2>1. ASSUME NEW a \in C \cup P, NEW b \in S, b <= a PROVE b \in C \cup P
    <3>1. Rank(b, S) <= Rank(a, S)
      BY <1>1, <1>2, <2>1, Ranks
    <3>2. QED
      BY <1>1, <1>2, <1>3, <2>1, <3>1
  <2>2. QED
    BY <1>1, <1>2, <2>1 DEF Heads
<1>7. Cardinality(C \cup P) = Cardinality(C) + Cardinality(P)
  <2>1. Cardinality(C \cap P) = 0
    BY <1>4, FS_EmptySet
  <2>2. Cardinality(C \cup P) = Cardinality(C) + Cardinality(P) - Cardinality(C \cap P)
    BY <1>1, <1>2, FS_Union
  <2>3. QED
    BY <1>1, <1>2, <2>1, <2>2
<1>8. QED
  BY <1>1, <1>2, <1>3, <1>4, <1>5, <1>6, <1>7

\* Of two heads the one with fewer entries is in the other.
LEMMA HeadsNest ==
  ASSUME NEW S \in SUBSET Int, IsFiniteSet(S), NEW C \in Heads(S), NEW D \in Heads(S),
         Cardinality(D) <= Cardinality(C)
  PROVE  D \subseteq C
<1>1. /\ Cardinality(C) \in Nat /\ Cardinality(D) \in Nat /\ D \subseteq S
      /\ \A a \in S : a \in C <=> Rank(a, S) <= Cardinality(C)
      /\ \A a \in S : a \in D <=> Rank(a, S) <= Cardinality(D)
      /\ \A a \in S : Rank(a, S) \in Nat
  BY HeadRanks, Ranks DEF Heads
<1>2. QED
  BY <1>1

-----------------------------------------------------------------------------
(* The tables keep their shape.                                            *)

Typed == TypeOK /\ InHand

LEMMA Sets ==
  ASSUME TypeOK
  PROVE  /\ Entries \subseteq Stamp /\ Stamp \subseteq Int /\ IsFiniteSet(Stamp)
         /\ Entries \in SUBSET Int /\ IsFiniteSet(Entries)
         /\ \A after : /\ Ranged(after) \subseteq Entries /\ Ranged(after) \in SUBSET Int
                       /\ IsFiniteSet(Ranged(after))
<1>1. Entries \subseteq Stamp /\ Stamp \subseteq Int /\ IsFiniteSet(Stamp)
  BY FS_Interval, SizeAssumption DEF TypeOK, Stamp
<1>2. \A S \in SUBSET Stamp : S \in SUBSET Int /\ IsFiniteSet(S)
  BY <1>1, FS_Subset
<1>3. \A after : Ranged(after) \subseteq Entries
  BY DEF Ranged
<1>4. QED
  BY <1>1, <1>2, <1>3

\* A hash is the entry's name and whether it was edited.
LEMMA HashType == \A a \in Stamp : HashOf(a) \in Hash
<1> SUFFICES ASSUME NEW a \in Stamp PROVE HashOf(a) \in Hash
  OBVIOUS
<1>1. (a \in edited) \in BOOLEAN
  BY SMT
<1>2. <<a, a \in edited>> \in Stamp \X BOOLEAN
  BY <1>1, Zenon
<1>3. QED
  BY <1>2, Zenon DEF HashOf, Hash

LEMMA HashEdited == ASSUME NEW a, a \in edited PROVE HashOf(a) = <<a, TRUE>>
BY Zenon DEF HashOf

LEMMA HashIntact == ASSUME NEW a, a \notin edited PROVE HashOf(a) = <<a, FALSE>>
<1>1. (a \in edited) = FALSE
  BY SMT
<1>2. <<a, a \in edited>> = <<a, FALSE>>
  BY <1>1, Zenon
<1>3. QED
  BY <1>2, Zenon DEF HashOf

(* One batch: how many entries it asks for, those it gets, those that do   *)
(* not carry the hash of the entry before.                                 *)
Limit == Least(Batch, MaxVerify - check.checked)
PageNow == Page(Ranged(check.after), check.offset, Limit)
BadNow == {a \in PageNow : ~Linked(a, PageNow, check.prev)}
Seen == check.checked + Cardinality(PageNow)
Done == Cardinality(PageNow) < Limit \/ Seen = MaxVerify

Empty == PageNow = {} /\ check' = [check EXCEPT !.pc = "valid"]
Stops(a) ==
  /\ a \in BadNow /\ IsFirst(a, BadNow)
  /\ check' = [check EXCEPT !.pc = "invalid", !.last = a,
                 !.checked = check.checked + Rank(a, PageNow),
                 !.covered = check.covered \cup {b \in PageNow : b <= a}]
GoesOn(z) ==
  /\ BadNow = {} /\ z \in PageNow /\ IsLast(z, PageNow)
  /\ check' = [check EXCEPT !.pc = IF Done THEN "valid" ELSE "read",
                 !.offset = check.offset + Limit, !.prev = HashOf(z), !.last = z,
                 !.checked = Seen, !.covered = check.covered \cup PageNow]

LEMMA Batches ==
  ASSUME Typed, ReadBatch
  PROVE  /\ check.pc = "read" /\ UNCHANGED table
         /\ Empty \/ (\E a \in BadNow : Stops(a)) \/ (\E z \in PageNow : GoesOn(z))
BY DEF Typed, TypeOK, Check, ReadBatch, Limit, PageNow, BadNow, Seen, Done, Empty, Stops,
       GoesOn, NextOffset

LEMMA Limits ==
  ASSUME Typed, check.pc = "read"
  PROVE  /\ Limit \in Nat \ {0} /\ Limit <= MaxVerify - check.checked
         /\ check.checked \in Nat /\ check.offset \in Nat
         /\ PageNow \subseteq Ranged(check.after) /\ PageNow \subseteq Stamp
         /\ PageNow \in SUBSET Int /\ IsFiniteSet(PageNow)
         /\ Cardinality(PageNow) \in 0..Limit
         /\ Seen \in Nat /\ Seen <= MaxVerify
<1>1. check.checked \in Nat /\ check.offset \in Nat /\ check.checked < MaxVerify
  BY DEF Typed, TypeOK, InHand, Check
<1>2. Limit \in Nat \ {0} /\ Limit <= MaxVerify - check.checked
  BY <1>1, SizeAssumption DEF Limit, Least
<1>3. /\ Ranged(check.after) \in SUBSET Int /\ IsFiniteSet(Ranged(check.after))
      /\ Ranged(check.after) \subseteq Stamp
  BY Sets DEF Typed
<1>4. /\ PageNow \subseteq Ranged(check.after) /\ IsFiniteSet(PageNow)
      /\ Cardinality(PageNow) \in 0..Limit
  BY <1>1, <1>2, <1>3, Pages DEF PageNow
<1>5. Seen \in Nat /\ Seen <= MaxVerify
  BY <1>1, <1>2, <1>4, SizeAssumption DEF Seen
<1>6. QED
  BY <1>1, <1>2, <1>3, <1>4, <1>5

LEMMA ReadBatchTyped == ASSUME Typed, ReadBatch PROVE check' \in Check /\ InHand'
<1>1. check.pc = "read" /\ UNCHANGED table /\ check \in Check
  BY Batches DEF Typed, TypeOK
<1>2. /\ check.checked \in Nat /\ check.offset \in Nat /\ Limit \in Nat
      /\ PageNow \subseteq Stamp /\ PageNow \in SUBSET Int /\ IsFiniteSet(PageNow)
      /\ Seen \in Nat /\ Seen <= MaxVerify /\ BadNow \subseteq PageNow
      /\ check.covered \subseteq Stamp
  BY <1>1, Limits DEF BadNow, Check
<1>3. \A w \in Writer : writer'[w].pc = "commit" => writer'[w].at \in Stamp
  BY <1>1 DEF Typed, InHand, table
<1>4. CASE Empty
  BY <1>1, <1>3, <1>4 DEF Empty, Check, InHand
<1>5. ASSUME NEW a \in BadNow, Stops(a) PROVE check' \in Check /\ InHand'
  <2>1. Rank(a, PageNow) \in Nat
    <3>1. a \in PageNow
      BY <1>2
    <3>2. Rank(a, PageNow) \in 1..Cardinality(PageNow)
      BY <1>2, <3>1, Ranks
    <3>3. QED
      BY <3>2
  <2>2. check.checked + Rank(a, PageNow) \in Nat /\ a \in Stamp
    BY <1>2, <2>1
  <2>3. check.covered \cup {b \in PageNow : b <= a} \in SUBSET Stamp
    BY <1>2
  <2>4. check' \in Check /\ check'.pc = "invalid"
    BY <1>1, <1>5, <2>2, <2>3 DEF Stops, Check
  <2>5. QED
    BY <1>3, <2>4 DEF InHand
<1>6. ASSUME NEW z \in PageNow, GoesOn(z) PROVE check' \in Check /\ InHand'
  <2>1. z \in Stamp /\ HashOf(z) \in Hash /\ check.offset + Limit \in Nat
    BY <1>2, HashType
  <2>2. check.covered \cup PageNow \in SUBSET Stamp
    BY <1>2
  <2>3. PICK pc : pc = IF Done THEN "valid" ELSE "read"
    OBVIOUS
  <2>4. /\ pc \in {"valid", "read"}
        /\ check' = [check EXCEPT !.pc = pc, !.offset = check.offset + Limit,
                       !.prev = HashOf(z), !.last = z, !.checked = Seen,
                       !.covered = check.covered \cup PageNow]
    BY <1>6, <2>3 DEF GoesOn
  <2>5. check' \in Check /\ check'.pc = pc /\ check'.checked = Seen
    BY <1>1, <1>2, <2>1, <2>2, <2>4 DEF Check
  <2>6. pc = "read" => Seen < MaxVerify
    BY <1>2, <2>3, SizeAssumption DEF Done
  <2>7. QED
    BY <1>3, <2>5, <2>6 DEF InHand
<1>7. QED
  BY <1>4, <1>5, <1>6, Batches

LEMMA BeginCheckTyped == ASSUME Typed, BeginCheck PROVE check' \in Check /\ InHand'
<1>1. PICK after \in {None, check.last} :
        /\ after # None => check.pc = "valid"
        /\ check' = [Fresh EXCEPT !.pc = "read", !.after = after, !.broken = broken,
                       !.prev = IF after = None THEN None ELSE check.prev,
                       !.due = Page(Ranged(after), 0, MaxVerify)]
  BY DEF BeginCheck
<1>2. after \in Stamp \cup {None} /\ check.prev \in Hash \cup {None} /\ broken \in SUBSET Stamp
  BY Sets DEF Typed, TypeOK, Check
<1>3. Page(Ranged(after), 0, MaxVerify) \in SUBSET Stamp
  BY Sets DEF Typed, Page
<1>4. check' \in Check /\ check'.pc = "read" /\ check'.checked = 0
  BY <1>1, <1>2, <1>3 DEF Fresh, Check
<1>5. UNCHANGED writer
  BY DEF BeginCheck, table
<1>6. QED
  BY <1>4, <1>5, SizeAssumption DEF Typed, InHand

LEMMA TypedStep == Typed /\ [Next]_vars => Typed'
<1> SUFFICES ASSUME Typed, [Next]_vars PROVE Typed'
  OBVIOUS
<1>1. /\ Entries \subseteq Stamp /\ link \in [Entries -> Hash \cup {None}] /\ edited \subseteq Stamp
      /\ clock \in 1..(MaxEntries + 1) /\ writer \in [Writer -> Append] /\ check \in Check
      /\ overlapped \in BOOLEAN /\ broken \subseteq Entries
      /\ \A w \in Writer : writer[w].pc = "commit" => writer[w].at \in Stamp
      /\ check.pc = "read" => check.checked < MaxVerify
  BY DEF Typed, TypeOK, InHand
<1>2. \A a \in Stamp : HashOf(a) \in Hash
  BY HashType
<1>3. Idle \in Append /\ Idle.pc = "idle"
  BY DEF Idle, Append
<1>4. ASSUME NEW w \in Writer, ReadLast(w) PROVE Typed'
  <2>1. PICK prev \in Hash \cup {None} :
          writer' = [writer EXCEPT ![w] = [pc |-> "insert", prev |-> prev, at |-> None]]
    BY <1>1, <1>2, <1>4 DEF ReadLast
  <2>2. UNCHANGED <<link, edited, clock, check, broken>> /\ overlapped' \in BOOLEAN
    BY <1>1, <1>4 DEF ReadLast
  <2>3. /\ writer' \in [Writer -> Append]
        /\ \A x \in Writer : writer'[x].pc = "commit" => writer'[x].at \in Stamp
    BY <1>1, <2>1 DEF Append
  <2>4. QED
    BY <1>1, <2>2, <2>3 DEF Typed, TypeOK, InHand, Entries
<1>5. ASSUME NEW w \in Writer, Insert(w) PROVE Typed'
  <2>1. clock \in Stamp /\ clock' \in 1..(MaxEntries + 1)
    BY <1>1, <1>5, SizeAssumption DEF Insert, Stamp
  <2>2. /\ writer' \in [Writer -> Append]
        /\ \A x \in Writer : writer'[x].pc = "commit" => writer'[x].at \in Stamp
    BY <1>1, <1>5, <2>1 DEF Insert, Append
  <2>3. UNCHANGED <<link, edited, check, overlapped, broken>>
    BY <1>5 DEF Insert
  <2>4. QED
    BY <1>1, <2>1, <2>2, <2>3 DEF Typed, TypeOK, InHand, Entries
<1>6. ASSUME NEW w \in Writer, Commit(w) PROVE Typed'
  <2>1. PICK a \in Stamp, p \in Hash \cup {None} :
          link' = [b \in Entries \cup {a} |-> IF b = a THEN p ELSE link[b]]
    BY <1>1, <1>6 DEF Commit, Append
  <2>2. Entries' = Entries \cup {a} /\ link' \in [Entries' -> Hash \cup {None}]
    BY <1>1, <2>1 DEF Entries
  <2>3. /\ writer' \in [Writer -> Append]
        /\ \A x \in Writer : writer'[x].pc = "commit" => writer'[x].at \in Stamp
    BY <1>1, <1>3, <1>6 DEF Commit
  <2>4. UNCHANGED <<edited, clock, check, overlapped, broken>>
    BY <1>6 DEF Commit
  <2>5. QED
    BY <1>1, <2>2, <2>3, <2>4 DEF Typed, TypeOK, InHand
<1>7. ASSUME NEW w \in Writer, Abort(w) PROVE Typed'
  BY <1>1, <1>3, <1>7 DEF Abort, Typed, TypeOK, InHand, Entries
<1>8. CASE BeginCheck
  BY <1>1, <1>8, BeginCheckTyped DEF BeginCheck, table, Typed, TypeOK, Entries
<1>9. CASE ReadBatch
  BY <1>1, <1>9, ReadBatchTyped, Batches DEF table, Typed, TypeOK, Entries
<1>10. ASSUME NEW a \in Stamp, EditEntry(a) PROVE Typed'
  BY <1>1, <1>10 DEF EditEntry, Typed, TypeOK, InHand, Entries, Orphans
<1>11. ASSUME NEW a \in Stamp, DeleteEntry(a) PROVE Typed'
  <2>1. Entries' = Entries \ {a} /\ link' \in [Entries' -> Hash \cup {None}]
    BY <1>1, <1>11 DEF DeleteEntry, Entries
  <2>2. Orphans(a) \subseteq Entries /\ broken' \subseteq Entries'
    BY <1>1, <1>11, <2>1 DEF DeleteEntry, Orphans
  <2>3. QED
    BY <1>1, <1>11, <2>1, <2>2 DEF DeleteEntry, Typed, TypeOK, InHand
<1>12. CASE UNCHANGED vars
  BY <1>1, <1>12 DEF vars, Typed, TypeOK, InHand, Entries
<1>13. QED
  BY <1>4, <1>5, <1>6, <1>7, <1>8, <1>9, <1>10, <1>11, <1>12 DEF Next

-----------------------------------------------------------------------------
(* The chain, while appends take turns.                                    *)

Links == \A b \in Entries : IF b \in broken THEN Shows(b) ELSE Chained(b)
Honest == InTurn /\ Links /\ (check.pc = "read" => Reading) /\ Resumable
Verdict == NoFalseAlarm /\ TamperingFound /\ NothingSkipped

LEMMA AuditParts == AuditInv <=> Typed /\ (~overlapped => Honest) /\ Verdict
BY DEF AuditInv, Typed, Honest, Links, Verdict, ValidMeansIntact

\* A hash changes with the first edit of its entry.
LEMMA HashKept ==
  ASSUME NEW a, a \in edited' <=> a \in edited
  PROVE  HashOf(a)' = HashOf(a)
<1>1. CASE a \in edited
  <2>1. HashOf(a)' = <<a, TRUE>>
    BY <1>1, Zenon DEF HashOf
  <2>2. QED
    BY <1>1, <2>1, HashEdited
<1>2. CASE a \notin edited
  <2>1. (a \in edited') = FALSE
    BY <1>2, SMT
  <2>2. <<a, a \in edited'>> = <<a, FALSE>>
    BY <2>1, Zenon
  <2>3. HashOf(a)' = <<a, FALSE>>
    BY <2>2, Zenon DEF HashOf
  <2>4. QED
    BY <1>2, <2>3, HashIntact
<1>3. QED
  BY <1>1, <1>2

\* An entry that carries the right hash is not one that lost its predecessor.
LEMMA ChainedIntact ==
  ASSUME Typed, Links, NEW b \in Entries, Chained(b)
  PROVE  b \notin broken
<1> SUFFICES ASSUME b \in broken PROVE FALSE
  OBVIOUS
<1>1. PICK a \in Stamp, e \in BOOLEAN :
        link[b] = <<a, e>> /\ a < b /\ (a \in Entries => a \in edited /\ ~e)
  BY DEF Links, Shows
<1>2. link[b] # None
  BY <1>1, NoneAssumption DEF Stamp
<1>3. PICK c \in Entries : link[b] = HashOf(c)
  BY <1>2 DEF Chained
<1>4. a = c
  <2>1. PICK d : HashOf(c) = <<c, d>>
    BY HashEdited, HashIntact
  <2>2. <<a, e>> = <<c, d>>
    BY <1>1, <1>3, <2>1, Zenon
  <2>3. QED
    BY <2>2
<1>5. c \in edited /\ ~e
  BY <1>1, <1>4
<1>6. HashOf(c) = <<c, TRUE>>
  BY <1>5, HashEdited
<1>7. <<a, e>> = <<c, TRUE>>
  BY <1>1, <1>3, <1>6, Zenon
<1>8. e = TRUE
  BY <1>7
<1>9. QED
  BY <1>5, <1>8

\* What does not touch the log or the verification leaves what is said of them.
LEMMA Still ==
  ASSUME UNCHANGED <<link, edited, broken, check>>
  PROVE  /\ Entries' = Entries /\ \A a : HashOf(a)' = HashOf(a)
         /\ Links' = Links /\ Reading' = Reading /\ Resumable' = Resumable
BY DEF Links, Shows, Chained, Entries, HashOf, IsFirst, Follows, Reading, Ranged, Heads,
       IsLast, Resumable

LEMMA AppendSteps ==
  ASSUME Typed, ~overlapped, Honest, NEW w \in Writer,
         ReadLast(w) \/ Insert(w) \/ Abort(w), ~overlapped'
  PROVE  Honest'
<1>1. /\ UNCHANGED <<link, edited, broken, check>> /\ Entries' = Entries
      /\ Links' /\ (check'.pc = "read" => Reading') /\ Resumable' /\ \A a : HashOf(a)' = HashOf(a)
  BY Still DEF ReadLast, Insert, Abort, Honest
<1>2. /\ writer \in [Writer -> Append] /\ clock \in Int /\ InTurn
  BY DEF Typed, TypeOK, Honest
<1>3. CASE ReadLast(w)
  <2>1. \A x \in Writer : writer[x].pc = "idle"
    BY <1>3 DEF ReadLast
  <2>2. PICK prev : /\ writer' = [writer EXCEPT ![w] = [pc |-> "insert", prev |-> prev, at |-> None]]
                    /\ \/ Entries = {} /\ prev = None
                       \/ \E a \in Entries : IsLast(a, Entries) /\ prev = HashOf(a)
    BY <1>3 DEF ReadLast
  <2>3. writer'[w].pc = "insert" /\ writer'[w].prev = prev
    BY <1>2, <2>2
  <2>4. \A x \in Writer : writer'[x].pc # "idle" => x = w
    BY <1>2, <2>1, <2>2
  <2>5. clock' = clock
    BY <1>3 DEF ReadLast
  <2>6. \/ Entries' = {} /\ prev = None
        \/ \E a \in Entries' : IsLast(a, Entries)' /\ prev = HashOf(a)'
    BY <1>1, <2>2 DEF IsLast
  <2>7. InTurn'
    BY <1>1, <1>2, <2>2, <2>3, <2>4, <2>5, <2>6 DEF InTurn, IsLast
  <2>8. QED
    BY <1>1, <2>7 DEF Honest
<1>4. CASE Insert(w)
  <2>1. /\ writer[w].pc = "insert" /\ clock' = clock + 1
        /\ writer' = [writer EXCEPT ![w] = [pc |-> "commit", prev |-> writer[w].prev,
                                            at |-> clock]]
    BY <1>4 DEF Insert
  <2>2. /\ writer'[w].pc = "commit" /\ writer'[w].prev = writer[w].prev /\ writer'[w].at = clock
        /\ \A x \in Writer \ {w} : writer'[x] = writer[x]
    BY <1>2, <2>1
  <2>3. /\ \A x \in Writer : writer[x].pc # "idle" => x = w
        /\ \/ Entries = {} /\ writer[w].prev = None
           \/ \E a \in Entries : IsLast(a, Entries) /\ writer[w].prev = HashOf(a)
        /\ \A a \in Entries \cup ({check.last, check.after} \ {None}) : a < clock
    BY <1>2, <2>1 DEF InTurn
  <2>4. \A a \in Entries \cup ({check.last, check.after} \ {None}) : a \in Int
    BY Sets DEF Typed, TypeOK, Check, Stamp
  <2>5. \A a \in Entries \cup ({check.last, check.after} \ {None}) : a < clock'
    BY <1>2, <2>1, <2>3, <2>4
  <2>6. InTurn'
    BY <1>1, <1>2, <2>1, <2>2, <2>3, <2>5 DEF InTurn, IsLast
  <2>7. QED
    BY <1>1, <2>6 DEF Honest
<1>5. CASE Abort(w)
  <2>1. \A x \in Writer : writer'[x].pc # "idle" => writer'[x] = writer[x] /\ writer[x].pc # "idle"
    BY <1>2, <1>5 DEF Abort, Idle
  <2>2. clock' = clock
    BY <1>5 DEF Abort
  <2>3. InTurn'
    BY <1>1, <1>2, <2>1, <2>2 DEF InTurn, IsLast
  <2>4. QED
    BY <1>1, <2>3 DEF Honest
<1>6. QED
  BY <1>3, <1>4, <1>5

\* The entry that commits comes last, and carries the hash of the one before it.
LEMMA CommitStep ==
  ASSUME Typed, ~overlapped, Honest, NEW w \in Writer, Commit(w)
  PROVE  Honest'
<1>1. PICK a, p :
     /\ a \in Stamp
     /\ a = writer[w].at /\ p = writer[w].prev
  BY DEF Typed, InHand, Commit
<1>2. /\ writer[w].pc = "commit" /\ writer' = [writer EXCEPT ![w] = Idle]
      /\ link' = [b \in Entries \cup {a} |-> IF b = a THEN p ELSE link[b]]
      /\ UNCHANGED <<edited, clock, check, overlapped, broken>>
  BY <1>1 DEF Commit
<1>3. /\ \A x \in Writer : writer[x].pc # "idle" => x = w
      /\ \/ Entries = {} /\ p = None
         \/ \E b \in Entries : IsLast(b, Entries) /\ p = HashOf(b)
      /\ a < clock
      /\ \A b \in Entries \cup ({check.last, check.after} \ {None}) : b < clock /\ b < a
  BY <1>1, <1>2 DEF Honest, InTurn
<1>4. /\ Entries \in SUBSET Int /\ a \in Int
      /\ Ranged(check.after) \subseteq Entries /\ broken \subseteq Entries
      /\ check.after \in Stamp \cup {None} /\ Stamp \subseteq Int
  BY <1>1, Sets DEF Typed, TypeOK, Check
<1>5. /\ Entries' = Entries \cup {a} /\ a \notin Entries
      /\ link'[a] = p /\ \A b \in Entries : link'[b] = link[b]
  BY <1>2, <1>3, <1>4 DEF Entries
<1>6. \A b : HashOf(b)' = HashOf(b)
  BY <1>2 DEF HashOf
<1>7. InTurn'
  <2>1. \A x \in Writer : writer'[x].pc = "idle"
    BY <1>2, <1>3 DEF Typed, TypeOK, Idle
  <2>2. \A b \in Entries' \cup ({check'.last, check'.after} \ {None}) : b < clock'
    BY <1>2, <1>3, <1>5
  <2>3. QED
    BY <2>1, <2>2 DEF InTurn
<1>8. Links'
  <2>1. ASSUME NEW b \in Entries, b \in broken PROVE Shows(b)'
    <3>1. PICK c \in Stamp, e \in BOOLEAN :
            link[b] = <<c, e>> /\ c < b /\ (c \in Entries => c \in edited /\ ~e)
      BY <2>1 DEF Honest, Links, Shows
    <3>2. c # a
      BY <1>3, <1>4, <3>1
    <3>3. link'[b] = <<c, e>> /\ (c \in Entries' => c \in edited' /\ ~e)
      BY <1>2, <1>5, <3>1, <3>2
    <3>4. QED
      BY <3>1, <3>3 DEF Shows
  <2>2. ASSUME NEW b \in Entries, b \notin broken PROVE Chained(b)'
    <3>1. Chained(b) /\ b < a /\ link'[b] = link[b]
      BY <1>3, <1>5, <2>2 DEF Honest, Links
    <3>2. CASE IsFirst(b, Entries) /\ link[b] = None
      <4>1. IsFirst(b, Entries')
        BY <1>4, <1>5, <3>1, <3>2 DEF IsFirst
      <4>2. QED
        BY <3>1, <3>2, <4>1 DEF Chained
    <3>3. ASSUME NEW c \in Entries, Follows(c, b, Entries), link[b] = HashOf(c)
          PROVE  Chained(b)'
      <4>1. Follows(c, b, Entries')
        BY <1>4, <1>5, <3>1, <3>3 DEF Follows
      <4>2. link'[b] = HashOf(c)'
        BY <1>6, <3>1, <3>3
      <4>3. QED
        BY <1>5, <4>1, <4>2 DEF Chained
    <3>4. QED
      BY <3>1, <3>2, <3>3 DEF Chained
  <2>3. Chained(a)'
    <3>1. CASE Entries = {} /\ p = None
      <4>1. IsFirst(a, Entries')
        BY <1>4, <1>5, <3>1 DEF IsFirst
      <4>2. QED
        BY <1>5, <3>1, <4>1 DEF Chained
    <3>2. ASSUME NEW b \in Entries, IsLast(b, Entries), p = HashOf(b)
          PROVE  Chained(a)'
      <4>1. Follows(b, a, Entries')
        BY <1>3, <1>4, <1>5, <3>2 DEF IsLast, Follows
      <4>2. link'[a] = HashOf(b)'
        BY <1>5, <1>6, <3>2
      <4>3. QED
        BY <1>5, <4>1, <4>2 DEF Chained
    <3>3. QED
      BY <1>3, <3>1, <3>2
  <2>4. QED
    BY <1>2, <1>4, <1>5, <2>1, <2>2, <2>3 DEF Links
<1>9. ASSUME check.pc = "read" PROVE Reading'
  <2>1. PICK R, Q : R = Ranged(check.after) /\ Q = Ranged(check.after)'
    OBVIOUS
  <2>2. R \subseteq Q /\ Q \subseteq R \cup {a} /\ R \subseteq Entries
    <3>1. CASE check.after = None
      BY <1>2, <1>5, <2>1, <3>1 DEF Ranged
    <3>2. CASE check.after # None /\ check.after \in Entries
      BY <1>2, <1>3, <1>5, <2>1, <3>2 DEF Ranged
    <3>3. CASE check.after # None /\ check.after \notin Entries
      <4>1. check.after # a
        BY <1>3, <1>4, <3>3
      <4>2. R = {} /\ Q = {}
        BY <1>2, <1>5, <2>1, <3>3, <4>1 DEF Ranged
      <4>3. QED
        BY <4>2
    <3>4. QED
      BY <3>1, <3>2, <3>3
  <2>3. ASSUME NEW C \in Heads(R) PROVE C \in Heads(Q)
    <3>1. C \subseteq Q
      BY <2>2, <2>3 DEF Heads
    <3>2. ASSUME NEW c \in C, NEW b \in Q, b <= c PROVE b \in C
      <4>1. c \in R /\ c < a
        BY <1>3, <2>2, <2>3 DEF Heads
      <4>2. b \in R
        BY <1>4, <2>2, <3>2, <4>1
      <4>3. QED
        BY <2>3, <3>2, <4>2 DEF Heads
    <3>3. QED
      BY <3>1, <3>2 DEF Heads
  <2>4. Reading
    BY <1>9 DEF Honest
  <2>5. check.covered \in Heads(Q) /\ check.due \in Heads(Q)
    BY <2>1, <2>3, <2>4 DEF Reading
  <2>6. QED
    BY <1>2, <1>6, <2>1, <2>4, <2>5 DEF Reading, Heads, IsLast
<1>10. Resumable'
  BY <1>2, <1>6 DEF Honest, Resumable
<1>11. QED
  BY <1>2, <1>7, <1>8, <1>9, <1>10 DEF Honest

\* Someone edits an entry: the one after it is broken, and shows it.
LEMMA EditStep ==
  ASSUME Typed, ~overlapped, Honest, NEW a \in Stamp, EditEntry(a)
  PROVE  Honest'
<1>1. /\ \A w \in Writer : writer[w].pc = "idle"
      /\ check.pc # "read" /\ a \in Entries /\ a \notin edited
      /\ edited' = edited \cup {a} /\ broken' = broken \cup Orphans(a)
      /\ UNCHANGED <<link, clock, writer, check, overlapped>>
  BY DEF EditEntry, Quiet
<1>2. Entries' = Entries /\ Entries \in SUBSET Int
  BY <1>1, Sets DEF Entries, Typed
<1>3. \A b : b # a => HashOf(b)' = HashOf(b)
  BY <1>1, HashKept
<1>4. InTurn'
  BY <1>1, <1>2 DEF Honest, InTurn
<1>5. ASSUME NEW b \in Entries, b \in broken PROVE Shows(b)'
  BY <1>1, <1>2, <1>5 DEF Honest, Links, Shows
<1>6. ASSUME NEW b \in Entries, NEW c \in Entries, Follows(c, b, Entries), Follows(a, b, Entries)
      PROVE  c = a
  BY <1>2, <1>6 DEF Follows
<1>7. ASSUME NEW b \in Orphans(a), b \notin broken PROVE Shows(b)'
  <2>1. b \in Entries /\ Follows(a, b, Entries) /\ Chained(b) /\ a < b
    BY <1>7 DEF Orphans, Honest, Links, Follows
  <2>2. ~IsFirst(b, Entries)
    BY <1>1, <1>2, <2>1 DEF IsFirst
  <2>3. link[b] = HashOf(a)
    BY <1>6, <2>1, <2>2 DEF Chained
  <2>4. link'[b] = <<a, FALSE>>
    BY <1>1, <2>3, HashIntact
  <2>5. a \in edited'
    BY <1>1
  <2>6. QED
    BY <2>1, <2>4, <2>5 DEF Shows
<1>8. ASSUME NEW b \in Entries, b \notin broken' PROVE Chained(b)'
  <2>1. Chained(b) /\ link'[b] = link[b] /\ ~Follows(a, b, Entries)
    BY <1>1, <1>8 DEF Honest, Links, Orphans
  <2>2. CASE IsFirst(b, Entries) /\ link[b] = None
    BY <1>2, <2>1, <2>2 DEF Chained, IsFirst
  <2>3. ASSUME NEW c \in Entries, Follows(c, b, Entries), link[b] = HashOf(c)
        PROVE  Chained(b)'
    <3>1. link'[b] = HashOf(c)'
      BY <1>3, <2>1, <2>3
    <3>2. Follows(c, b, Entries')
      BY <1>2, <2>3
    <3>3. QED
      BY <1>2, <3>1, <3>2 DEF Chained
  <2>4. QED
    BY <2>1, <2>2, <2>3 DEF Chained
<1>9. Links'
  BY <1>1, <1>2, <1>5, <1>7, <1>8 DEF Links
<1>10. Resumable'
  <2>1. ASSUME check.pc = "valid", check.last \notin edited' \cup {None}
        PROVE  check.prev = HashOf(check.last)'
    <3>1. PICK l : l = check.last
      OBVIOUS
    <3>2. l # a /\ l \notin edited \cup {None}
      BY <1>1, <2>1, <3>1
    <3>3. check.prev = HashOf(l)
      BY <2>1, <3>1, <3>2 DEF Honest, Resumable
    <3>4. HashOf(l)' = HashOf(l)
      BY <1>3, <3>2
    <3>5. HashOf(check.last)' = HashOf(l)'
      BY <1>1, <3>1 DEF HashOf
    <3>6. QED
      BY <3>3, <3>4, <3>5
  <2>2. QED
    BY <1>1, <2>1 DEF Resumable
<1>11. QED
  BY <1>1, <1>4, <1>9, <1>10 DEF Honest

\* Someone deletes an entry: the one after it links to an entry that is gone.
LEMMA DeleteStep ==
  ASSUME Typed, ~overlapped, Honest, NEW a \in Stamp, DeleteEntry(a)
  PROVE  Honest'
<1>1. /\ \A w \in Writer : writer[w].pc = "idle"
      /\ check.pc # "read" /\ a \in Entries
      /\ link' = [b \in Entries \ {a} |-> link[b]]
      /\ broken' = (broken \cup Orphans(a)) \ {a}
      /\ UNCHANGED <<edited, clock, writer, check, overlapped>>
  BY DEF DeleteEntry, Quiet
<1>2. /\ Entries' = Entries \ {a} /\ Entries \in SUBSET Int
      /\ \A b \in Entries' : link'[b] = link[b]
  BY <1>1, Sets DEF Entries, Typed
<1>3. \A b : HashOf(b)' = HashOf(b)
  BY <1>1 DEF HashOf
<1>4. InTurn'
  BY <1>1, <1>2 DEF Honest, InTurn
<1>5. ASSUME NEW b \in Entries', b \in broken PROVE Shows(b)'
  BY <1>1, <1>2, <1>5 DEF Honest, Links, Shows
<1>6. ASSUME NEW b \in Entries, NEW c \in Entries, Follows(c, b, Entries), Follows(a, b, Entries)
      PROVE  c = a
  BY <1>2, <1>6 DEF Follows
<1>7. ASSUME NEW b \in Orphans(a), b \in Entries', b \notin broken PROVE Shows(b)'
  <2>1. b \in Entries /\ Follows(a, b, Entries) /\ Chained(b) /\ a < b
    BY <1>2, <1>7 DEF Orphans, Honest, Links, Follows
  <2>2. ~IsFirst(b, Entries)
    BY <1>1, <1>2, <2>1 DEF IsFirst
  <2>3. link[b] = HashOf(a)
    BY <1>6, <2>1, <2>2 DEF Chained
  <2>4. \E e \in BOOLEAN : link'[b] = <<a, e>>
    BY <1>2, <1>7, <2>3, HashEdited, HashIntact
  <2>5. a \notin Entries'
    BY <1>2
  <2>6. QED
    BY <2>1, <2>4, <2>5 DEF Shows
<1>8. ASSUME NEW b \in Entries', b \notin broken' PROVE Chained(b)'
  <2>1. Chained(b) /\ link'[b] = link[b] /\ ~Follows(a, b, Entries) /\ b \in Entries
    BY <1>1, <1>2, <1>8 DEF Honest, Links, Orphans
  <2>2. CASE IsFirst(b, Entries) /\ link[b] = None
    BY <1>2, <2>1, <2>2 DEF Chained, IsFirst
  <2>3. ASSUME NEW c \in Entries, Follows(c, b, Entries), link[b] = HashOf(c)
        PROVE  Chained(b)'
    <3>1. link'[b] = HashOf(c)' /\ c \in Entries'
      BY <1>2, <1>3, <2>1, <2>3
    <3>2. Follows(c, b, Entries')
      BY <1>2, <2>3, <3>1 DEF Follows
    <3>3. QED
      BY <3>1, <3>2 DEF Chained
  <2>4. QED
    BY <2>1, <2>2, <2>3 DEF Chained
<1>9. Links'
  BY <1>1, <1>2, <1>5, <1>7, <1>8 DEF Links
<1>10. Resumable'
  BY <1>1, <1>3 DEF Honest, Resumable
<1>11. QED
  BY <1>1, <1>4, <1>9, <1>10 DEF Honest

\* A verification begins with nothing looked at, and trusts its checkpoint.
LEMMA BeginStep ==
  ASSUME Typed, ~overlapped, Honest, BeginCheck
  PROVE  Honest'
<1>0. PICK after \in {None, check.last} :
        /\ after # None => check.pc = "valid"
        /\ check' = [Fresh EXCEPT !.pc = "read", !.after = after, !.broken = broken,
                        !.prev = IF after = None THEN None ELSE check.prev,
                        !.due = Page(Ranged(after), 0, MaxVerify)]
  BY DEF BeginCheck
<1>a. PICK prev : prev = IF after = None THEN None ELSE check.prev
  OBVIOUS
<1>b. PICK due : due = Page(Ranged(after), 0, MaxVerify)
  OBVIOUS
<1>1. /\ after \in {None, check.last}
      /\ after # None => check.pc = "valid"
      /\ prev = IF after = None THEN None ELSE check.prev
      /\ due = Page(Ranged(after), 0, MaxVerify)
      /\ check' = [Fresh EXCEPT !.pc = "read", !.after = after, !.broken = broken,
                      !.prev = prev, !.due = due]
  BY <1>0, <1>a, <1>b
<1>2. UNCHANGED <<link, edited, clock, writer, overlapped, broken>> /\ Entries' = Entries
  BY DEF BeginCheck, table, Entries
<1>3. /\ check'.pc = "read" /\ check'.after = after /\ check'.broken = broken
      /\ check'.prev = prev /\ check'.due = due /\ check'.offset = 0 /\ check'.checked = 0
      /\ check'.last = None /\ check'.covered = {}
  BY <1>1 DEF Fresh
<1>4. \A b : HashOf(b)' = HashOf(b)
  BY <1>2 DEF HashOf
<1>5. {check'.last, check'.after} \ {None} \subseteq {check.last, check.after} \ {None}
  BY <1>1, <1>3
<1>6. InTurn'
  BY <1>2, <1>4, <1>5 DEF Honest, InTurn, IsLast
<1>7. Links'
  BY <1>2, <1>4 DEF Honest, Links, Shows, Chained, IsFirst, Follows
<1>8. Reading'
  <2>1. PICK R : R = Ranged(after)
    OBVIOUS
  <2>2. R \in SUBSET Int /\ IsFiniteSet(R)
    BY <2>1, Sets DEF Typed
  <2>3. Ranged(check.after)' = R
    BY <1>2, <1>3, <2>1 DEF Ranged
  <2>4. {} \in Heads(R) /\ Cardinality({}) = 0
    BY FS_EmptySet DEF Heads
  <2>5. MaxVerify \in Nat /\ due = Page(R, Cardinality({}), MaxVerify)
    BY <1>1, <2>1, <2>4, SizeAssumption
  <2>6. {} \cup due \in Heads(R)
    BY <2>2, <2>4, <2>5, HeadAndPage
  <2>7. Cardinality(due) <= MaxVerify
    <3>1. Cardinality(due) \in 0..MaxVerify
      BY <2>2, <2>4, <2>5, Pages
    <3>2. QED
      BY <3>1
  <2>8. due \in Heads(R)
    BY <2>6
  <2>9. after # None /\ after \notin edited => prev = HashOf(after)
    BY <1>1 DEF Honest, Resumable
  <2>10. /\ check'.covered \in Heads(R) /\ check'.due \in Heads(R)
         /\ Cardinality(check'.covered) = check'.offset
    BY <1>3, <2>4, <2>8
  <2>11. /\ check'.after = None => check'.prev = None
         /\ check'.after # None /\ check'.after \notin edited' => check'.prev = HashOf(check.after)'
    BY <1>1, <1>2, <1>3, <2>9 DEF HashOf
  <2>12. QED
    BY <1>2, <1>3, <2>3, <2>7, <2>10, <2>11 DEF Reading, Heads
<1>9. QED
  BY <1>3, <1>6, <1>7, <1>8 DEF Honest, Resumable

\* What verifyAuditChain makes of an entry of a batch: one that carries the hash it
\* expects is not broken, when it verifies from the start; one that does not is
\* broken, unless the checkpoint was edited.
LEMMA Judged ==
  ASSUME Typed, Honest, check.pc = "read", NEW x \in PageNow
  PROVE  /\ Linked(x, PageNow, check.prev) /\ check.after = None => x \notin broken
         /\ ~Linked(x, PageNow, check.prev) /\ check.after \notin edited => x \in broken
<1>1. PICK R, C, P, k, l : /\ R = Ranged(check.after) /\ C = check.covered /\ P = PageNow
                           /\ k = check.after /\ l = check.last
  OBVIOUS
<1>2. R \in SUBSET Int /\ IsFiniteSet(R) /\ R \subseteq Entries /\ Entries \in SUBSET Int
  BY <1>1, Sets DEF Typed
<1>3. Reading /\ C \in Heads(R) /\ Cardinality(C) = check.offset
  BY <1>1 DEF Honest, Reading
<1>4. Limit \in Nat /\ P = Page(R, Cardinality(C), Limit)
  BY <1>1, <1>3, Limits DEF PageNow
<1>5. /\ C \cup P \in Heads(R) /\ C \cap P = {} /\ \A a \in C, b \in P : a < b
  BY <1>1, <1>2, <1>3, <1>4, HeadAndPage
<1>6. /\ C \subseteq R /\ P \subseteq R /\ x \in P /\ x \in Entries
      /\ \A a \in C \cup P, b \in R : b <= a => b \in C \cup P
  BY <1>1, <1>2, <1>5 DEF Heads
<1>7. /\ C # {} => l \in C /\ (\A b \in C : b <= l) /\ check.prev = HashOf(l)
      /\ C = {} /\ k = None => check.prev = None
      /\ C = {} /\ k # None /\ k \notin edited => check.prev = HashOf(k)
  BY <1>1, <1>3 DEF Reading, IsLast
<1>7a. k # None => k \in Entries /\ (\A b \in Entries : b \in R <=> k < b)
  <2>1. R # {}
    BY <1>6
  <2>2. QED
    BY <1>1, <2>1 DEF Ranged
<1>8. ASSUME Linked(x, P, check.prev), check.after = None PROVE Chained(x)
  <2>1. R = Entries
    BY <1>1, <1>8 DEF Ranged
  <2>2. CASE IsFirst(x, P) /\ link[x] = check.prev /\ C = {}
    <3>1. IsFirst(x, Entries)
      BY <1>2, <1>6, <2>1, <2>2 DEF IsFirst
    <3>2. link[x] = None
      BY <1>1, <1>3, <1>8, <2>2 DEF Reading
    <3>3. QED
      BY <3>1, <3>2 DEF Chained
  <2>3. CASE IsFirst(x, P) /\ link[x] = check.prev /\ C # {}
    <3>1. l \in C /\ l \in Entries /\ l < x /\ link[x] = HashOf(l)
      BY <1>2, <1>5, <1>6, <1>7, <2>3
    <3>2. ASSUME NEW c \in Entries, ~(c <= l), ~(x <= c) PROVE FALSE
      <4>1. c \in C \cup P
        BY <1>2, <1>6, <2>1, <3>2
      <4>2. c \notin C
        BY <1>2, <1>6, <1>7, <2>3, <3>2
      <4>3. QED
        BY <2>3, <3>2, <4>1, <4>2 DEF IsFirst
    <3>3. Follows(l, x, Entries)
      BY <1>6, <3>1, <3>2 DEF Follows
    <3>4. QED
      BY <3>1, <3>3 DEF Chained
  <2>4. ASSUME NEW b \in P, Follows(b, x, P), link[x] = HashOf(b) PROVE Chained(x)
    <3>1. Follows(b, x, Entries)
      BY <1>2, <1>5, <1>6, <2>1, <2>4 DEF Follows
    <3>2. QED
      BY <1>2, <1>6, <2>4, <3>1 DEF Chained
  <2>5. QED
    BY <1>8, <2>2, <2>3, <2>4 DEF Linked
<1>9. ASSUME Chained(x), check.after \notin edited PROVE Linked(x, P, check.prev)
  <2>1. CASE IsFirst(x, Entries) /\ link[x] = None
    <3>1. k = None
      <4>1. ASSUME k # None PROVE FALSE
        <5>1. k \in Entries /\ k < x /\ x <= k
          BY <1>6, <1>7a, <2>1, <4>1 DEF IsFirst
        <5>2. QED
          BY <1>2, <1>6, <5>1
      <4>2. QED
        BY <4>1
    <3>2. C = {}
      BY <1>2, <1>5, <1>6, <2>1 DEF IsFirst
    <3>3. check.prev = None
      BY <1>7, <3>1, <3>2
    <3>4. IsFirst(x, P)
      BY <1>2, <1>6, <2>1 DEF IsFirst
    <3>5. QED
      BY <2>1, <3>3, <3>4 DEF Linked
  <2>2. ASSUME NEW o \in Entries, Follows(o, x, Entries), link[x] = HashOf(o)
        PROVE  Linked(x, P, check.prev)
    <3>1. o < x /\ \A c \in Entries : c <= o \/ x <= c
      BY <2>2 DEF Follows
    <3>2. CASE o \in P
      BY <1>2, <1>6, <2>2, <3>2 DEF Follows, Linked
    <3>3. CASE o \in C
      <4>1. IsFirst(x, P)
        <5>1. \A b \in P : o < b
          BY <1>5, <3>3
        <5>2. QED
          BY <1>2, <1>6, <3>1, <5>1 DEF IsFirst
      <4>2. l = o
        <5>1. l \in C /\ o <= l
          BY <1>7, <3>3
        <5>2. l < x /\ l \in Entries
          BY <1>2, <1>5, <1>6, <5>1
        <5>3. l <= o
          BY <1>2, <1>6, <3>1, <5>2
        <5>4. QED
          BY <1>2, <5>1, <5>2, <5>3
      <4>3. check.prev = HashOf(o)
        BY <1>7, <3>3, <4>2
      <4>4. QED
        BY <2>2, <4>1, <4>3 DEF Linked
    <3>4. CASE o \notin C \cup P
      <4>1. o \notin R
        BY <1>2, <1>6, <3>1, <3>4
      <4>2. k # None
        BY <1>1, <4>1 DEF Ranged
      <4>3. k \in Entries /\ k < x /\ ~(k < o) /\ \A b \in R : k < b
        BY <1>2, <1>6, <1>7a, <4>1, <4>2
      <4>4. k = o
        BY <1>2, <1>6, <3>1, <4>3
      <4>5. \A b \in R : x <= b
        BY <1>2, <3>1, <4>3, <4>4
      <4>6. C = {}
        BY <1>2, <1>5, <1>6, <4>5
      <4>7. check.prev = HashOf(o)
        BY <1>1, <1>7, <1>9, <4>2, <4>4, <4>6
      <4>8. IsFirst(x, P)
        BY <1>6, <4>5 DEF IsFirst
      <4>9. QED
        BY <2>2, <4>7, <4>8 DEF Linked
    <3>5. QED
      BY <3>2, <3>3, <3>4
  <2>3. QED
    BY <1>9, <2>1, <2>2 DEF Chained
<1>10. Chained(x) => x \notin broken
  BY <1>6, ChainedIntact DEF Honest
<1>11. x \notin broken => Chained(x)
  BY <1>6 DEF Honest, Links
<1>12. QED
  BY <1>1, <1>8, <1>9, <1>10, <1>11

\* A batch leaves a longer head looked at, and its verdict is right.
LEMMA BatchStep ==
  ASSUME Typed, ~overlapped, Honest, ReadBatch
  PROVE  Honest' /\ Verdict'
<1>1. check.pc = "read" /\ Reading /\ check \in Check
  BY Batches DEF Honest, Typed, TypeOK
<1>2. /\ UNCHANGED <<link, edited, clock, writer, overlapped, broken>> /\ Entries' = Entries
      /\ \A b : HashOf(b)' = HashOf(b)
  BY Batches DEF table, Entries, HashOf
<1>3. PICK R, C, P : R = Ranged(check.after) /\ C = check.covered /\ P = PageNow
  OBVIOUS
<1>4. R \in SUBSET Int /\ IsFiniteSet(R) /\ R \subseteq Entries
  BY <1>3, Sets DEF Typed
<1>5. /\ C \in Heads(R) /\ check.due \in Heads(R) /\ Cardinality(C) = check.offset
      /\ check.checked = check.offset /\ Cardinality(check.due) <= MaxVerify
      /\ check.broken = broken /\ (check.after = None => C \cap broken = {})
  BY <1>1, <1>3 DEF Reading
<1>6. Limit \in Nat /\ Limit # 0 /\ P = Page(R, Cardinality(C), Limit) /\ P \subseteq R
  BY <1>1, <1>3, <1>5, Limits DEF PageNow
<1>7. /\ C \cup P \in Heads(R) /\ \A a \in C, b \in P : a < b
      /\ Cardinality(C \cup P) = Cardinality(C) + Cardinality(P)
      /\ Cardinality(P) < Limit => C \cup P = R
  <2>1. /\ C \cup P \in Heads(R)
        /\ \A a \in C, b \in P : a < b
    <3>1. /\ R \in SUBSET Int /\ IsFiniteSet(R) /\ C \in Heads(R) /\ Limit \in Nat
          /\ P = Page(R, Cardinality(C), Limit)
      BY <1>4, <1>5, <1>6
    <3>2. QED
      BY <3>1, HeadAndPage
  <2>2. /\ Cardinality(C \cup P) = Cardinality(C) + Cardinality(P)
        /\ Cardinality(P) < Limit => C \cup P = R
    BY <1>4, <1>5, <1>6, HeadAndPage
  <2>3. QED
    BY <2>1, <2>2
<1>8. check.due \subseteq R /\ C \subseteq R
  BY <1>5 DEF Heads
<1>9. Links'
  BY <1>2 DEF Honest, Links, Shows, Chained, IsFirst, Follows
<1>10. ASSUME NEW a \in R, check'.last \in {check.last, a}, check'.after = check.after
       PROVE  InTurn'
  <2>1. a \in Entries
    BY <1>4
  <2>2. Entries' \cup ({check'.last, check'.after} \ {None})
          \subseteq Entries \cup ({check.last, check.after} \ {None})
    BY <1>2, <1>10, <2>1
  <2>3. QED
    BY <1>2, <2>2 DEF Honest, InTurn, IsLast
<1>11. Ranged(check.after)' = IF check'.after = check.after THEN R ELSE Ranged(check.after)'
  BY <1>2, <1>3 DEF Ranged
<1>12. CASE Empty
  <2>1. /\ P = {} /\ check'.pc = "valid" /\ check'.after = check.after
        /\ check'.prev = check.prev /\ check'.last = check.last
        /\ check'.covered = C /\ check'.due = check.due /\ check'.broken = broken
    BY <1>1, <1>3, <1>5, <1>12 DEF Empty, Check
  <2>2. C = R
    <3>1. Cardinality(P) = 0
      BY <2>1, FS_EmptySet
    <3>2. QED
      BY <1>6, <1>7, <2>1, <3>1
  <2>3. InTurn'
    BY <1>2, <2>1 DEF Honest, InTurn, IsLast
  <2>4. Resumable'
    <3>1. check.last # None => check.prev = HashOf(check.last)
      BY <1>1 DEF Reading
    <3>2. QED
      BY <1>2, <2>1, <3>1 DEF Resumable, HashOf
  <2>5. Verdict'
    BY <1>5, <1>8, <2>1, <2>2 DEF Verdict, NoFalseAlarm, TamperingFound, NothingSkipped
  <2>6. QED
    BY <1>9, <2>1, <2>3, <2>4, <2>5 DEF Honest
<1>13. ASSUME NEW a \in BadNow, Stops(a) PROVE Honest' /\ Verdict'
  <2>1. a \in PageNow /\ ~Linked(a, PageNow, check.prev) /\ a \in R
    BY <1>3, <1>6 DEF BadNow
  <2>2. /\ check'.pc = "invalid" /\ check'.after = check.after /\ check'.last = a
        /\ check'.broken = broken
    BY <1>1, <1>5, <1>13 DEF Stops, Check
  <2>3. InTurn'
    BY <1>10, <2>1, <2>2
  <2>4. check.after \notin edited => a \in broken
    BY <1>1, <2>1, Judged
  <2>5. Verdict'
    BY <1>2, <2>2, <2>4 DEF Verdict, NoFalseAlarm, TamperingFound, NothingSkipped
  <2>6. QED
    BY <1>9, <2>2, <2>3, <2>5 DEF Honest, Resumable
<1>14. ASSUME NEW z \in PageNow, GoesOn(z) PROVE Honest' /\ Verdict'
  <2>1. PICK pc : /\ pc = IF Done THEN "valid" ELSE "read"
                  /\ check' = [check EXCEPT !.pc = pc, !.offset = check.offset + Limit,
                                 !.prev = HashOf(z), !.last = z, !.checked = Seen,
                                 !.covered = check.covered \cup PageNow]
    BY <1>14 DEF GoesOn
  <2>2. /\ check'.pc = pc /\ check'.after = check.after /\ check'.prev = HashOf(z)
        /\ check'.last = z /\ check'.covered = C \cup P /\ check'.due = check.due
        /\ check'.broken = broken /\ check'.offset = check.offset + Limit /\ check'.checked = Seen
    BY <1>1, <1>3, <1>5, <2>1 DEF Check
  <2>3. z \in P /\ z \in R /\ (\A b \in P : b <= z) /\ BadNow = {}
    BY <1>3, <1>6, <1>14 DEF GoesOn, IsLast
  <2>4. check.after = None => (C \cup P) \cap broken = {}
    <3>1. ASSUME check.after = None, NEW b \in P PROVE b \notin broken
      BY <1>1, <1>3, <2>3, <3>1, Judged DEF BadNow
    <3>2. QED
      BY <1>5, <3>1
  <2>5. InTurn'
    BY <1>10, <2>2, <2>3
  <2>6. HashOf(check.last)' = HashOf(z)
    BY <1>2, <2>2 DEF HashOf
  <2>7. Cardinality(P) \in 0..Limit /\ check.offset \in Nat /\ Seen \in Nat
        /\ Seen = check.offset + Cardinality(P)
    BY <1>1, <1>3, <1>5, Limits DEF Seen
  <2>8. CASE Done
    <3>1. check'.pc = "valid"
      BY <2>1, <2>2, <2>8
    <3>2. check.due \subseteq C \cup P
      <4>1. CASE Cardinality(P) < Limit
        BY <1>7, <1>8, <4>1
      <4>2. CASE Seen = MaxVerify
        <5>1. Cardinality(check.due) <= Cardinality(C \cup P)
          BY <1>5, <1>7, <2>7, <4>2
        <5>2. QED
          BY <1>4, <1>5, <1>7, <5>1, HeadsNest
      <4>3. QED
        BY <1>3, <2>8, <4>1, <4>2 DEF Done
    <3>3. Verdict'
      BY <2>2, <2>4, <3>1, <3>2 DEF Verdict, NoFalseAlarm, TamperingFound, NothingSkipped
    <3>4. Resumable'
      BY <2>2, <2>6 DEF Resumable
    <3>5. QED
      BY <1>9, <2>5, <3>1, <3>3, <3>4 DEF Honest
  <2>9. CASE ~Done
    <3>1. check'.pc = "read"
      BY <2>1, <2>2, <2>9
    <3>2. Cardinality(P) = Limit
      BY <1>3, <1>6, <2>7, <2>9 DEF Done
    <3>3. /\ Cardinality(check'.covered) = check'.offset /\ check'.checked = check'.offset
      BY <1>5, <1>7, <2>2, <2>7, <3>2
    <3>4. IsLast(z, C \cup P)
      <4>1. \A b \in C : b <= z
        BY <1>4, <1>7, <1>8, <2>3
      <4>2. QED
        BY <2>3, <4>1 DEF IsLast
    <3>5. check'.covered \in Heads(R) /\ check'.due \in Heads(R)
      BY <1>5, <1>7, <2>2
    <3>6. IsLast(check.last, check.covered)' /\ check'.covered # {}
      BY <2>2, <2>3, <3>4 DEF IsLast
    <3>7. Ranged(check.after)' = R
      BY <1>11, <2>2
    <3>8. check'.broken = broken' /\ (check'.after = None => check'.covered \cap broken' = {})
          /\ Cardinality(check'.due) <= MaxVerify /\ check'.prev = HashOf(check.last)'
      BY <1>2, <1>5, <2>2, <2>4, <2>6
    <3>9. Reading'
      BY <3>3, <3>5, <3>6, <3>7, <3>8 DEF Reading, Heads
    <3>10. QED
      BY <1>9, <2>5, <3>1, <3>9
      DEF Honest, Resumable, Verdict, NoFalseAlarm, TamperingFound, NothingSkipped
  <2>10. QED
    BY <2>8, <2>9
<1>15. QED
  BY <1>12, <1>13, <1>14, Batches

-----------------------------------------------------------------------------
(* The theorems.                                                           *)

LEMMA InitAudit == Init => AuditInv
<1> SUFFICES ASSUME Init PROVE AuditInv
  OBVIOUS
<1>1. /\ Entries = {} /\ edited = {} /\ broken = {} /\ clock = 1 /\ overlapped = FALSE
      /\ check = Fresh /\ writer = [w \in Writer |-> Idle]
  BY DEF Init, Entries
<1>2. link \in [Entries -> Hash \cup {None}]
  BY <1>1 DEF Init
<1>3. Fresh \in Check /\ Fresh.pc = "idle" /\ Fresh.last = None /\ Fresh.after = None
  BY DEF Fresh, Check
<1>4. Idle \in Append /\ Idle.pc = "idle"
  BY DEF Idle, Append
<1>5. TypeOK
  <2>1. clock \in 1..(MaxEntries + 1) /\ writer \in [Writer -> Append] /\ check \in Check
    BY <1>1, <1>3, <1>4, SizeAssumption
  <2>2. QED
    BY <1>1, <1>2, <2>1 DEF TypeOK
<1>6. InHand
  BY <1>1, <1>3, <1>4 DEF InHand
<1>7. Honest
  BY <1>1, <1>3, <1>4 DEF Honest, InTurn, Links, Resumable
<1>8. Verdict
  BY <1>1, <1>3 DEF Verdict, NoFalseAlarm, TamperingFound, NothingSkipped
<1>9. QED
  BY <1>5, <1>6, <1>7, <1>8, AuditParts DEF Typed

LEMMA HonestStep ==
  ASSUME Typed, ~overlapped, Honest, Verdict, [Next]_vars, ~overlapped'
  PROVE  Honest' /\ Verdict'
<1>1. ASSUME UNCHANGED check, \A a \in edited : a \in edited' PROVE Verdict'
  BY <1>1 DEF Verdict, NoFalseAlarm, TamperingFound, NothingSkipped
<1>2. ASSUME NEW w \in Writer, ReadLast(w) \/ Insert(w) \/ Abort(w) PROVE Honest' /\ Verdict'
  BY <1>1, <1>2, AppendSteps DEF ReadLast, Insert, Abort
<1>3. ASSUME NEW w \in Writer, Commit(w) PROVE Honest' /\ Verdict'
  BY <1>1, <1>3, CommitStep DEF Commit
<1>4. CASE BeginCheck
  <2>1. check'.pc = "read"
    BY <1>4 DEF BeginCheck, Fresh
  <2>2. QED
    BY <1>4, <2>1, BeginStep DEF Verdict, NoFalseAlarm, TamperingFound, NothingSkipped
<1>5. ASSUME NEW a \in Stamp, EditEntry(a) PROVE Honest' /\ Verdict'
  BY <1>1, <1>5, EditStep DEF EditEntry
<1>6. ASSUME NEW a \in Stamp, DeleteEntry(a) PROVE Honest' /\ Verdict'
  BY <1>1, <1>6, DeleteStep DEF DeleteEntry
<1>7. CASE UNCHANGED vars
  <2>1. InTurn'
    BY <1>7 DEF Honest, InTurn, vars, Entries, IsLast, HashOf
  <2>2. Links' /\ (check'.pc = "read" => Reading') /\ Resumable'
    BY <1>7, Still DEF Honest, vars
  <2>3. QED
    BY <1>1, <1>7, <2>1, <2>2 DEF Honest, vars
<1>8. QED
  BY <1>2, <1>3, <1>4, <1>5, <1>6, <1>7, BatchStep DEF Next

\* Once two appends have overlapped, they have.
LEMMA OverlapStays == Typed /\ [Next]_vars /\ overlapped => overlapped'
BY DEF Next, ReadLast, Insert, Commit, Abort, BeginCheck, ReadBatch, table, EditEntry,
       DeleteEntry, vars

\* The invariant that carries the rest, for any number of writers and any sizes of
\* batch and verification: while createAuditLog runs take turns every entry carries
\* the hash of the one before or shows that it lost it, and verifyAuditChain has
\* looked at the head of the log up to the hash it holds.
THEOREM AuditCorrect == Spec => []AuditInv
<1>1. AuditInv /\ [Next]_vars => AuditInv'
  <2> SUFFICES ASSUME AuditInv, [Next]_vars PROVE AuditInv'
    OBVIOUS
  <2>1. Typed /\ (~overlapped => Honest) /\ Verdict
    BY AuditParts
  <2>2. Typed'
    BY <2>1, TypedStep
  <2>3. CASE ~overlapped'
    <3>1. ~overlapped
      BY <2>1, <2>3, OverlapStays
    <3>2. Honest' /\ Verdict'
      BY <2>1, <2>3, <3>1, HonestStep
    <3>3. QED
      BY <2>2, <3>2 DEF AuditInv, Typed, Honest, Links, Verdict, ValidMeansIntact
  <2>4. CASE overlapped'
    BY <2>2, <2>4 DEF AuditInv, Typed, NoFalseAlarm, ValidMeansIntact, TamperingFound,
                      NothingSkipped
  <2>5. QED
    BY <2>3, <2>4
<1>2. QED
  BY <1>1, InitAudit, PTL DEF Spec

\* The log, the appends and the verification keep their shapes: no page is read at a
\* negative offset, and no entry counts as broken that is not there.
THEOREM AuditTyped == Spec => []TypeOK
<1>1. AuditInv => TypeOK
  BY DEF AuditInv
<1>2. QED
  BY <1>1, AuditCorrect, PTL

\* createAuditLog leaves a chain while its runs take turns: every entry that kept
\* its predecessor carries the hash of the entry before it.
THEOREM ChainHolds == Spec => []ChainUnlessOverlapped
<1>1. AuditInv => ChainUnlessOverlapped
  BY DEF AuditInv, ChainUnlessOverlapped, Chained
<1>2. QED
  BY <1>1, AuditCorrect, PTL

\* verifyAuditChain calls no honest log invalid, however the batches and the appends
\* interleave and wherever it resumes, unless its checkpoint was edited.
THEOREM HonestLogsPass == Spec => []NoFalseAlarm
<1>1. AuditInv => NoFalseAlarm
  BY DEF AuditInv
<1>2. QED
  BY <1>1, AuditCorrect, PTL

\* When verifyAuditChain says valid, its LIMIT and OFFSET skipped nothing that was
\* there when it began, and a run from the start met no entry that had lost its
\* predecessor.
THEOREM ValidIsIntact == Spec => []ValidMeansIntact
<1>1. AuditInv => ValidMeansIntact
  BY DEF AuditInv
<1>2. QED
  BY <1>1, AuditCorrect, PTL
=============================================================================
