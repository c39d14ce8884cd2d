--------------------------- MODULE LoginThrottle ---------------------------
(***************************************************************************)
(* The brake on guessing a password: auth/login-attempts.service.ts and    *)
(* the lines of auth/auth.service.ts that ask it and feed it, for one      *)
(* e-mail address (every statement names the address).                     *)
(*                                                                         *)
(* Time is counted from now backwards: the table login_attempts is the     *)
(* number of failures of each age, and a tick makes every one older.  The  *)
(* code asks for the failures of the last 24 hours; older ones, and        *)
(* successes, count for nothing.  The delay a refusal announces decides    *)
(* nothing afterwards and is left out.  SignIn takes these steps together  *)
(* with those of whoever logs in.                                          *)
(***************************************************************************)
EXTENDS Integers, FiniteSets

CONSTANTS
  Req,        \* logins in progress at the same time
  Window,     \* the 24 hours, in ticks
  Free,       \* failures without delay, 5 in the code
  MaxPerTick  \* bound on the failures one tick has room for

ASSUME SizeAssumption == /\ Window \in Nat \ {0} /\ Free \in Nat \ {0}
                         /\ MaxPerTick \in Nat \ {0}
ASSUME ReqAssumption == IsFiniteSet(Req)

VARIABLES
  failures,  \* recorded failures by age
  pc         \* where each login is

vars == <<failures, pc>>

-----------------------------------------------------------------------------
Age == 0..(Window - 1)

\* getRecentFailureCount: the failures, each by its age and number.
Recent == Cardinality({x \in Age \X (1..MaxPerTick) : x[2] <= failures[x[1]]})

\* Mutant of Admits: one failure too many.
AdmitsOneMore(count) == count <= Free
\* calculateDelay(count) is 0
Admits(count) == count < Free

Init ==
  /\ failures = [a \in Age |-> 0]
  /\ pc = [r \in Req |-> "idle"]

\* The count allows the login to go on to the password.
Admit(r) ==
  /\ pc[r] = "idle"
  /\ Admits(Recent)
  /\ pc' = [pc EXCEPT ![r] = "verify"]
  /\ UNCHANGED failures

\* Mutant of Refuse: the refused attempt is recorded as a failure.
RefuseAndRecord(r) ==
  /\ pc[r] = "idle"
  /\ ~Admits(Recent)
  /\ failures[0] < MaxPerTick
  /\ failures' = [failures EXCEPT ![0] = @ + 1]
  /\ UNCHANGED pc
\* TooManyRequestsError: nothing is recorded.
Refuse(r) ==
  /\ pc[r] = "idle"
  /\ ~Admits(Recent)
  /\ UNCHANGED vars

\* Unknown address, suspended account or wrong password: recordAttempt.
Fail(r) ==
  /\ pc[r] = "verify"
  /\ failures[0] < MaxPerTick
  /\ failures' = [failures EXCEPT ![0] = @ + 1]
  /\ pc' = [pc EXCEPT ![r] = "idle"]

\* The right password, or the request dies: no failure is recorded.
Leave(r) ==
  /\ pc[r] = "verify"
  /\ pc' = [pc EXCEPT ![r] = "idle"]
  /\ UNCHANGED failures

\* Time passes.
Tick ==
  /\ failures' = [a \in Age |-> IF a = 0 THEN 0 ELSE failures[a - 1]]
  /\ UNCHANGED pc

-----------------------------------------------------------------------------
TypeOK ==
  /\ failures \in [Age -> 0..MaxPerTick]
  /\ pc \in [Req -> {"idle", "verify"}]

\* However many logins race past the count, no more failures fit in any 24 hours
\* than the free ones and one for every other login in progress.
GuessesBounded == Recent <= Free + Cardinality(Req) - 1

\* No address stays blocked for good: refused logins record nothing, so in the
\* end fewer failures than the limit are left, whatever the clients do.
EventuallyAdmitted == []<>Admits(Recent)

\* What carries GuessesBounded: every login past the count may still add a failure.
GuessesLeft ==
  Recent + Cardinality({r \in Req : pc[r] = "verify"}) <= Free + Cardinality(Req) - 1
=============================================================================
