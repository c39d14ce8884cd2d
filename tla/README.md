# Verification of the identity server

TLA+ models of this repository: the identity server under `apps/server`, its admin
console and the sign-in pages of its web front end, with the TLC runs that check
them and the TLAPS proofs of what matters most. `PROJECT.json` maps every
definition to its source lines.

## The system

A Fastify server over Postgres issues sessions to browsers and OAuth 2 tokens to
clients. Node runs one thread, so code between two `await`s is atomic and every
`await` is a point where another request, in this process or another, may run.
Postgres runs at READ COMMITTED: a SELECT locks nothing, and an UPDATE that had
to wait for a row looks at its WHERE clause again. These two facts are the whole
concurrency model of every module here.

| Component | State | Operations | What makes it hard |
|---|---|---|---|
| Refresh-token store (`token/refresh-token.service.ts`) | `refresh_tokens`: family, owner, key, expiry, revocation, successor | create, rotate, retry in the grace period, detect reuse, revoke one, revoke all | rotations, retries and revocations of one family overlap; answers are lost |
| Authorization and consent (`oauth/oauth.authorize.ts`, `par.service.ts`, `oauth.token.ts`) | `par_requests`, `authorization_codes`, `consent_grants` | push, authorize, consent, exchange, withdraw | consent is read here and relied on there; two statements without a transaction |
| Clients (`client/client.service.ts`) | `oauth_clients` | register, update, delete, rotate secret, authenticate | deletion cascades into everything in progress; work goes on with a row read before |
| Audit log (`audit/audit.service.ts`) | `audit_logs`: a hash chain | append, verify, query, export, anonymize | appends overlap; verification pages through a growing table |
| Login, passwords, sessions (`auth/`, `session/`) | `users`, `sessions`, `login_attempts`, `password_reset_tokens` | register, log in and out, change and reset the password, revoke | a session is inserted after its premises were checked |
| Email verification | `email_verification_tokens`, `users.status` | verify, resend | status overwritten |
| Second factor (`mfa/`) | `totp_secrets`, `recovery_codes`, `mfa_challenges` | enrol, confirm, disable, regenerate, answer | one-time values marked used without a guard |
| Passkeys (`passkey/`, `account/`) | `passkeys`, `webauthn_challenges` | register, authenticate, rename, delete | challenges are read, then deleted; count, then delete |
| Administration (`admin/`) | `users.status`, `sessions` | suspend, activate, revoke | suspension beside login |
| Roles (`rbac/`) | `roles`, `permissions`, `role_permissions`, `user_roles` | create, set permissions, assign, remove, seed | delete-then-insert without a transaction; a seed that dies is not made good |
| Signing keys and tokens (`token/`) | `signing_keys`, a cache per service | first use, rotate, publish, issue, verify | processes race on first use; caches outlive a rotation |
| Request authentication (`core/plugins/`, `oauth.routes.ts`, `oauth.introspect.ts`) | none of its own | session or access token, permission, client; introspection, userinfo, end-session | asked once, relied on later; several verifiers of one token |
| Login throttle (`auth/login-attempts.service.ts`) | `login_attempts` | count, refuse, record | logins race past the count |
| Event bus (`infra/event-bus.ts`) | subscriptions | publish | `publish` waits for its listeners and fails with them |
| Admin console (`apps/admin`) | two encrypted cookies per browser | log in, refresh, log out | parallel requests refresh one token; answers overtake each other or set no cookie |
| Web front end (`apps/web`, `packages/ui`) | one tab: page, prompt on the screen, cached list of passkeys; the session cookie | sign in by password, passkey button or conditional prompt, register and change passkeys, log out | several sign-ins and queries under way at once; one cache key for all accounts |

Not modelled: `user/user.service.ts` (one INSERT and its read; the row is that of
`Accounts`), presentational components (`packages/ui/src/components/ui`),
environment, errors and connections (`packages/core`, `packages/db/src/client.ts`,
`packages/redis`), and what parses, formats or wires: schemas, the discovery
documents, `app.ts`. The register, forgotten-password, verify-email and consent pages
of the web front end send one request each and keep nothing. `PROJECT.json` lists
every component with its status and every hazard with its line.

How the parts meet: an authorization code becomes the first refresh token of a
family; withdrawing consent revokes families; deleting a client removes rows of
both; a password change, a reset and a suspension delete sessions; a login asks
the throttle first and feeds it last; every service publishes events, and
`publish` rejects when a listener does, so the audit log can fail the request it
records; the admin console refreshes its cookie over the refresh-token store; every
route asks a session, a token, a permission or a client first, and tokens, clients
and roles are what administrators change meanwhile; the web front end is the login's
usual caller.

## Modules

| Module | Models | EXTENDS / INSTANCE |
|---|---|---|
| `TokenFamilies` | what the refresh-token store promises: a family is unused, live or dead | |
| `RefreshTokens` | the store, row by row and statement by statement | implements `TokenFamilies` |
| `OAuthGrants` | pushed requests, consents, codes, exchange and withdrawal | INSTANCE `TokenFamilies` for the store |
| `AuditChain` | appending to the audit log and verifying it | |
| `AdminConsole` | one browser of the admin console, its cookies and the answers under way | EXTENDS `RefreshTokens` |
| `Accounts` | one account: password, status, sessions, one-time tokens, administrator | |
| `SecondFactor` | TOTP enrolment and recovery codes of one user | |
| `Passkeys` | the passkeys of one user, their challenges and counters | |
| `LoginThrottle` | the count of failures and the refusals made of it | |
| `SignIn` | one tab of the web front end over that throttle | EXTENDS `LoginThrottle` |
| `SigningKeys` | the signing keys, the caches of the services, rotation | |
| `Clients` | registering, changing and authenticating OAuth clients | |
| `Roles` | roles, permissions, who edits them, and the seed script | |
| `RequestAccess` | what a request must show and what it then does; tokens issued and verified | EXTENDS `SigningKeys`, `Clients`, `Roles` |
| `OAuthGrants_proofs`, `AuditChain_proofs`, `Accounts_proofs`, `SecondFactor_proofs`, `Passkeys_proofs` | theorems about the module each is named after | EXTENDS it and TLAPS |
| `AdminConsole_proofs` | theorems about `RefreshTokens` and about the console composed with it | EXTENDS `AdminConsole` and TLAPS |
| `SignIn_proofs` | theorems about the throttle and the tab | EXTENDS `SignIn` and TLAPS |
| `RequestAccess_proofs` | theorems about `SigningKeys`, `Clients` and `Roles` each alone and about their composition | EXTENDS `RequestAccess` and TLAPS |
| `MC*` | the instances TLC checks | EXTENDS the module it names |

### From code to actions

A request is a record in `req` (or `writer`, `pc`) whose `pc` names the awaited
statement it is about to run. Each awaited statement that touches shared state is
one action; what the handler computes between two of them belongs to the action
before. A refusal before anything was written is no step, or is a return to `idle`.
Where a request can die (the process stops, Postgres fails, a listener throws)
`Abort` ends it and whatever it had left to do is not done. A transaction's
writes appear at its commit, in one action; its SELECTs are actions before,
because at READ COMMITTED they lock nothing. An `UPDATE ... WHERE id = ...` writes
whatever the row has become; an `UPDATE` whose WHERE asks for more asks at the
moment it writes.

Variables marked `history` are not in the code. They record what a property needs
to name: which family a rotation overtook (`raced`), which tokens two requests
used side by side (`overlapped`), which revocations are through (`swept`,
`expelled`). No guard reads them.

**RefreshTokens.** `row` is the table `refresh_tokens`. A token stands for its
plaintext and its hash; `held` is what reached a caller, which alone can be
presented. `Begin`, `Lookup`, `FindChild`, `RevokeFamily`, `TxSelect`, `TxCommit`
and `Deliver` are the statements of `rotateRefreshToken` and of its caller in
order. `dpop_jkt` is never NULL, because `oauth.routes.ts:187-200` refuses a token
request without a proof. A successor's lifetime is `expires_at - created_at` of its
predecessor with a floor (`NextTtl`): `created` is Postgres's `now()`, the time its
transaction began, and `expires` counts from the process's clock some time before that,
so the difference may shrink from rotation to rotation. Scope narrowing changes a column
nothing here reads.

**OAuthGrants.** Consents are kept as the set of scope sets of the active rows,
merged when read, as `loadMergedConsentScopes` does. `ReadPar` to `MarkUsed` are
`authorizeWithPar`, `StartConsent` and `GrantConsent` are `submitConsent`,
`ReadCode` to `IssueTokens` the code exchange, `FindGrant` to `RevokeTokens`
`revokeConsent`. The store behind them is `TokenFamilies`: what is checked here
holds over any store that keeps that promise, and `RefreshTokens` is proved to.
PKCE, redirect URIs, nonces and lifetimes only add refusals.

**AuditChain.** An entry is its `created_at`; two entries of the same microsecond
are left out. A hash covers id, action and time, so it is the entry's name and
whether the row was edited since. `Insert` and `Commit` are the two ends of one
INSERT, whose time is taken at its start and whose row is seen at its end.
`ReadBatch` is one turn of the verification loop. Editing or deleting a row by
hand is external and happens while nobody appends or verifies.

**Accounts.** Every statement names one user, so one account is the whole system.
Passwords are numbered in order; a session row keeps, as history, the password
and the suspensions it was created under. Whether TOTP is enrolled is a free
choice at each login. `verifyEmail` marks its token first and so holds the row's
lock, hence its writes appear together at `VerifyCommit`. An account without a
password (made by `createUser`) is not modelled. `IssueChallenge`,
`AnswerChallenge` and `PasskeyLogin` do not look at the status of the account,
because the code does not.

**SecondFactor.** `EnrolRead`, `EnrolClear`, `EnrolInsert`, `Wipe`, one `InsertCode`
per recovery code and `Deliver` are `enrollTotp`; the last three are also
`regenerateRecoveryCodes`, after `Regenerate`. Nothing there is a transaction, so
any of them may be the last. `ConfirmRead` and `Confirm` are
`verifyTotpEnrollment`, `Disable` and `DropCodes` `disableTotp`. A secret stands for
the row that holds it, since each row draws its own. `AnswerWithCode`, `SpendCode`
and `GiveSession` are a login by recovery code; the challenge it answers is marked
in `Accounts`, here it is only open or not.

**Passkeys.** The authenticator and the WebAuthn library are external: `created`
and `signed` are responses that may be sent, any number of times, as long as their
challenge is there. `FindChallenge` and `ConsumeChallenge` are the two statements of
the callback the library calls, and `Counts` is the comparison the library makes
after it with the counter `LoginRead` has read. `DeleteRead`, `DeleteCount` and
`DeleteCommit` are `deletePasskey`; what it counted is in `rows`. Its second read, of the
password, is taken with the count: a password is never taken away, so the two differ
only by a refusal. A user that registers a passkey has been created by its request, so `passkey`
starts empty and `password` free.

**AdminConsole.** A `Visit` carries the cookie as it was when it was sent; `Refresh`
is its presentation to the server, `Serve` whatever the store does with it and
`SendAnswer` the delivery, which here only sets out for the browser: `SetSession`
stores it, in the order of arrival, and `Lose` is an answer that sets no cookie,
either because the connection broke or because a page was being rendered, where
Next.js lets nobody write one. `StartLogin` and `Callback` are the two halves of a
login, of which a browser may have several. A logout is three steps: `LogOut` reads the
token of the cookie, `Revoke` is its revocation on the server, some time later and
whatever the cookie holds by then, and `ClearSession` the answer that deletes the
cookie. `crossed` notes, as history, the families of which a refresh was under way at
the first of them or was sent before the second: the successor such a refresh makes is
not the token that is revoked.

**SigningKeys.** `BeginUse`, `SelectActive`, `ImportKey` and `InsertKey` are
`getActiveSigningKey` with `generateKeyPair`, `Sign` the signature made with the
answer, `RetireKeys` and `InsertKey` `rotateKey`. A key pair never changes, so a cached
key is its row's number. A service is one call of `createSigningKeyService`, of which
a process makes several, each with a cache of its own.

**Clients.** A secret is the number of its drawing; the row's hash matches it alone.
`auth` is whether the client has a secret to present, `grant` whether it may use the
client credentials grant: the two columns that a stale row decides by. `ReadClient`
and `VerifySecret` are the two halves of `authenticateClient`, between which the
hash is compared in another thread. `DeliverSecret` is an answer after its event was
published; one that fails takes the secret along.

**Roles.** `AskPermissions`, `ClearPermissions` and `FillPermissions` are the three
statements of `setRolePermissions`. The seed goes through its loops one INSERT at a
time, in any order within a loop, and dies anywhere; `seed.todo` is what is left of
the loop. The INSERT of the user returns nothing when a user with the address exists,
and then no roles are given: an earlier seed inserted it, or somebody registered with
it (`RegisterRoot`).

**RequestAccess.** A request has one `visit`, which says what it has been let in for
and, for an answer with tokens, what was signed. The three modules are extended with
their requests identified (`RequestsAssumption`); every action here is one of theirs
with what the route adds, or leaves them alone. A session row carries only its user;
where sessions come from is in `Accounts`, where codes and refresh tokens are redeemed
in `OAuthGrants` and `RefreshTokens`. An access token is its subject and the key that
signed it. The verifiers are operators over it: the preHandler (`PluginAccepts`),
userinfo, and introspection with each hint; `ValidateDpopProof` is
`validateDpopProof` over what its checks tell apart. `BeginBundle`, `SignBundle` and
`DeliverBundle` are `issueTokenBundle`: for a code, a refresh token is stored after the
signature, which fails without the client's row; for a renewal the store has done it
before, and the answer goes out whatever became of the client.

**LoginThrottle.** Time runs backwards from now: `failures[a]` is the number of
failures `a` ticks old and `Tick` makes all of them older. The password itself is
compared in `Accounts`; here a verified password is `Leave`, a wrong one `Fail`. The
delay a refusal announces decides nothing on the server afterwards and is left out.

**SignIn.** A sign-in reaches the page in steps, and anything may come between them.
The answer of the server sets the cookie (`SignedIn`, `RightPassword`) and is then in
`landed`; whoever waited for it calls the router (`GoOn`), on whatever page the tab is by
then, or never does, because the body of the answer is cut off (`CutOff`). `Push` is
the router's request for the next page, made with the cookie of that moment: `Middleware`
looks whether there is a cookie, and the server renders the account page with the
profile of its session. The page waited for is `nav`; the last call counts. `Show` puts
it on the screen; the old page stays there until then, with its profile, whatever the
cookie has become. `Open` and `Loaded` are the same for a document: it is asked for with
the cookie of now (`load`), and when it comes nothing of the tab's memory is left, so
answers that are still to come only set their cookies before that, and their changes go
on at the server.

`prompt` is the WebAuthn ceremony on the screen, of which a browser has one; `verify` the
passkey logins sent. `asked`, `list` and `fresh` are the query of React Query under its
one key: a page that is mounted asks when it has no fresh answer, `Invalidate` asks anew,
and a query that was replaced never arrives. `change` is the change of a passkey that the
page waits for; one it waits for no more, since the tab was reloaded or the answer lost,
is in `adrift`, and the server makes it later or never (`ChangeDrifts`). The password
form posts as the account the throttle guards. `SubmitCode` changes nothing: the form of
`/mfa` posts to routes that the server does not have.

Left out: a page prefetched or kept by the router's cache (each push asks the server),
`router.refresh` after the logout's push, which renders the login page once more, a
client navigation that fails (the router then loads the document, which is an `Open`),
and a second change of passkeys that the page waits for beside a first of another kind
(the button of the same kind is disabled); one that nobody waits for does run beside it.

## Runs

| Run | Question | Answer |
|---|---|---|
| `refresh_tokens` | Do rotations, retries within the grace period, reuse detection and revocations keep the table coherent, and is each step one of `TokenFamilies`? | holds |
| `refresh_revocation` | Is a revoked family dead, as the tests say? | no |
| `oauth_grants` | Does every code and live family rest on consent, is a code or PAR used once, and what are the exact exceptions? | holds |
| `oauth_withdrawal` | Does withdrawing consent end access, as the tests say? | no |
| `audit_chain` | Do appends that take turns leave a chain; does verification in batches and from checkpoints see all, raise no false alarm and miss no tampering? | holds |
| `audit_concurrent` | Does a log nobody tampered with verify? | no |
| `accounts` | Do revocations delete every session they should; is each one-time token used once; does an administrator's word stand? | holds, with the exceptions each property names |
| `second_factor` | Does a login ask only for secrets their owner has; do enrolments, regenerations and deletions that meet leave a whole set of codes; does a code give one session? | holds, with the exceptions each property names |
| `passkeys` | Is a challenge answered once; does a counter only rise; does a user keep his last way in? | holds, with the exceptions each property names |
| `admin_console` | Does the cookie stay usable; does the grace period absorb refreshes at the same time; does a logout end the tokens of its session? | holds, with the exceptions each property names |
| `request_access` | Does every verifier take every token that was delivered and lives; do retired keys rest; are clients let in on the row as it is; do roles keep what they were given and the seeded user his? | holds, with the exceptions each property names |
| `sign_in` | Are failures bounded in spite of races and an address admitted again; does a page show the account of the cookie, with that account's passkeys? | holds, with the exceptions each property names |

A property whose name sums up several (`KeyBound`, `Consented`, `ValidMeansIntact`,
`SuspensionHolds`, `OneTimeOnly`, `CodesHold`, `RolesStand`) is the conjunction of the
named parts defined right above it.

Several properties say "unless": they name the one interleaving that breaks the
plain statement, so that every other way to break it would be found. The plain
statement, where a test or doc makes it, is a run of its own that TLC refutes.

### Bounds

- `refresh_tokens`: three tokens, two families, two keys, two requests, a clock of
  two instants. Three tokens are a presented one, its successor and the
  successor's: what a grace retry beside a rotation needs; a race needs two
  requests. `Grace = Ttl = 1` puts a tick on each side of both deadlines.
- `oauth_grants`: one user, client and PAR, two scopes asked for alone or together,
  two codes and families, two requests. Two codes tell "one code, two families" from
  "one PAR, two codes". The constraint `OneTopic` of `MCOAuthGrants` says that where
  two scopes are in play, so that consents gather over several rows, the client is a
  third party that stays registered, one code is issued, nothing is used twice and
  no withdrawal dies half way; each of these happens with one scope. A second user or
  client, and all of these at once, are covered by the theorems.
- `audit_chain`: four entries, batches of two, at most three per verification: a
  full batch, a cut one, an end at a batch boundary and a resumption all occur.
- `accounts`: two requests, two sessions, two reset tokens with a limit of one, one
  challenge, one verification token, three passwords, one suspension. Three
  passwords let a change follow a reset. The constraint `OneTopic` keeps a
  behaviour to new passwords or to status and second factor: they touch each
  other only through the sessions that either deletes, and both sides insert
  sessions in every way. Behaviours with both are covered by the theorems.
- `second_factor`: two requests, two secrets, four codes in batches of two: an
  enrolment is replaced by another and its codes by a second whole batch.
- `passkeys`: two requests, two credentials, one of which counts to two, and three
  challenges: one to register each credential and one to log in with, or one to
  register and two logins, which a counter needs to fall.
- `admin_console`: two requests beside login, logout and answers under way, three
  tokens, two families, two key pairs; `Grace = 1` with `Delay = 0`: a refresh is in
  time within one instant, and the next is in the grace period still. A logout may read
  the cookie, a refresh run from its request to its answer, and the revocation come
  after it, with a token to spare. 2.8 million states; longer grace periods and delays
  are covered by the theorems.
- `request_access`: two requests, one service, client, session and user, who is the
  administrator, two keys, two secrets, one role beside the system's, two permissions.
  `OneTopic` of `MCRequestAccess` keeps a behaviour to roles and the seed, or, once
  the seed is complete and the administrator signed in, to clients, keys and tokens;
  within these it edits the role `admin` or adds one, rotates secrets or keys, and has
  one access token at a time. A second service, and all of these at once, are covered
  by the theorems.
- `sign_in`: two accounts with at most one passkey each, one of them behind the
  throttle, one password request of the tab and one of another client, a window of two
  ticks, one free failure. `TwoAtATime` of `MCSignIn` allows two things under way at a
  time: each hazard here is a race of two. They are both sign-ins, the logout or a page
  the router waits for; or both of the list, a change of passkeys, the logout and that
  page; or a document beside a sign-in or a change; or the tab's password beside the
  other client's logins. A second factor and a dismissed prompt allow fewer. In
  `ShortPrompts` and `FewBacks` a ceremony ends with the login page and that page's
  `callbackUrl` is `/account` or `/mfa`. 1.0 million states; all of it at once is covered
  by the theorems.

Symmetry is used over ids only, and only in runs without liveness; the refinement
in `refresh_tokens` is a step property of symmetric modules without fairness.

The constraints of `oauth_grants`, `accounts`, `request_access` and `sign_in` cut
behaviours off; under the last, which has a liveness property, a state at the limit
is still followed by `TimePasses`, which starts nothing new.

`CHECK_DEADLOCK FALSE` is said where a bounded instance ends: `oauth_*` (the client
deleted, all ids drawn), `audit_*` (the clock at its bound), `passkeys` (all
challenges drawn and gone) and `admin_console` (all tokens drawn and the cookie
gone). The other runs check for deadlock.

### Fairness

Only `SignIn` assumes any: weak fairness of `TimePasses`, that login attempts grow
old; it is always possible and needs nobody. `EventuallyAdmitted` rests on it alone.
Nothing makes a client send a request, a user answer a prompt or a process survive a
request, so no other liveness is justified by this code: no service has a job that
finishes what a dead request left.

## Proofs

Every invariant and action property of the passing runs is a theorem of its module's
specification, for every value of the constants that its named assumptions allow; so is
the refinement of `TokenFamilies`. The theorems have the bounds of no instance and none
of the constraints of the MC modules: what those cut off, the theorems cover.

Few of these properties are inductive. Each module therefore ends with a section that
defines what carries its properties, up to an inductive invariant (`GrantsInv`,
`AuditInv`, `AccountInv`, `FactorInv`, `PasskeyInv`, `SignInInv`, `ConsoleInv`; those of
the store and of `RequestAccess` stand in the proof modules). TLC, given one of them as
an INVARIANT, finds no violation in the instance of the module's run; the proofs show
that `Init` implies it and every step keeps it, one lemma per group of actions and one
step per part that the actions can disturb. What they add to the properties is mostly of
one kind: what a request that waits at a statement has read, and what that says of the
tables by now.

### Refresh tokens (`AdminConsole_proofs`, first half)

1. `TypeCorrect`: `TypeOK` together with `RequestsRefer` (what a request remembers
   of a row is a row, in the state its `pc` implies). Neither is inductive alone.
2. `KeyHolderOnly`: the token about to be delivered is bound to the key proved,
   which is part of `RequestsRefer` (`DeliveredToKeyHolder`).
3. `TableCorrect`: `TableInv`, the conjunction of `FamilyCoherent`,
   `SuccessorsChain`, `OneLiveUnlessRaced` and `ClosedStaysClosed`. `OneLiveToken`,
   `SuccessorsInFamily`, `ClosedForGood` and `FamilyOfOneGrant` follow, and `KeysBind`
   puts the last together with `KeyHolderOnly`.
4. `Implementation`: `Spec => ImplementsFamilies`, with `FamilyState` as the
   refinement mapping.

The argument: a step touches the table in one of four ways (`StepKinds`): not at
all or by cascade (`Quiet`), by revoking rows (`Revoking`), by the first row of a
new family (`Founding`) or by replacing a row (`Replacing`). One lemma per kind
carries `TableInv` over; the operators `RevokeRows`, `InsertRow` and `Replace` have
a lemma each that says what they do to a row.

### Admin console (`AdminConsole_proofs`, second half)

`ConsoleCorrect` proves `ConsoleInv` beside the two invariants of the store; every step
of the console is a step of the store or leaves it alone (`StoreSteps`,
`ConsoleStoreCorrect`), and no step removes a client. `ConsoleTyped`,
`CookieStaysUsable`, `ConcurrencyAbsorbed` and `LogoutIsFinal` are the four properties of
the run. What the parts are for:

- `ComesOnce`: a token travels to the cookie once, with its key. `CookieUsable` needs no
  more, since rows keep their key.
- `FirstComes` and `OneChain`: of a family the cookie has seen, every token was in the
  cookie or is coming, and outside races its rows form one chain with at most its end
  alive. Without them a token might exist that no logout presents.
- `CookieFollows`: what the cookie holds is the live end of that chain or the end is on
  its way. `LastOne` carries this over the logout's two halves: from the moment the
  cookie is read until its token is revoked, that token is the only live one of its
  family and nothing of the family is under way, unless `crossed` says so. Hence
  `EndedIsDead`, which is `LogoutEndsFamily` from the revocation on: it leaves nothing
  alive and no rotation admitted.
- `NextComes` and `InTime`: whoever replaced a token left for the browser at that moment
  and arrives within `Delay`. Hence `InGrace`: a visit with the replaced token was sent
  at most `Delay` later and presented at most `2 * Delay` later, which is within `Grace`
  (`DelayAssumption`, whose inequality only this needs). `GraceAbsorbsConcurrency` is its last
  conjunct.

A step is reduced to its kind first (`Kinds`: the table and what travels stay, rows are
revoked, a family is founded, a token replaced, an answer sent, received, lost or
dropped), then to the request it is a step of (`Actors`).

### Authorization and consent (`OAuthGrants_proofs`)

`GrantsCorrect` proves `GrantsInv`; `GrantsTyped`, `ConsentRules` and `OnceEachWay` are
the properties of the run. `RowsRefer` says that what requests and codes name exists
and that a request is about the grant of its code or family; `RequestsConsented` that
what a request is about to insert satisfies `Consented` already; `CodeOnce` and `ParOnce`
count, for one code and one PAR, its successors and the requests that have it in hand.
`WithdrawalsEnd` gives the refuted claim of `oauth_withdrawal` its premises: nothing
live is without consent once all requests are at rest, if no request that had read an
old consent went on (`outdated`) and no withdrawal died half way (`stranded`).

### Audit log (`AuditChain_proofs`)

`AuditCorrect` proves `AuditInv`; `AuditTyped`, `ChainHolds`, `HonestLogsPass` and
`ValidIsIntact` follow. While appends take turns `created_at` grows along the chain
(`InTurn`), every entry either carries the hash of its predecessor or shows for good
that it was tampered with (`Chained`, `Shows`). `Reading` is the loop invariant of
`verify`: what it has looked at is a head, in the order of the log, of what it ranges
over, and what it expects next is the hash of the last entry of it. `Resumable` says
that what a verification leaves behind is a checkpoint the next may start from.

### Accounts (`Accounts_proofs`)

`AccountCorrect` proves `AccountInv`; `AccountTyped`, `RevocationsTotal`,
`ExpulsionsTotal`, `SuspensionRules` and `OneTime` follow. `LoginsAsked` says that a
login by password that is still to insert its session read the account before the
suspension it will miss; `ResetOnceEach` and `ChallengeOnceEach` follow one token from
unused through the hands of a request to its password or session; `ResetsLimited` that
the count a request noted was below the limit.

### Second factor (`SecondFactor_proofs`)

`OnlyProvenSecrets` proves `ProvenSecret`. It is not inductive: a confirmation writes
what it read some statements before, so `EnrolmentInv` adds that a confirmation under way
is for a proven secret (`ConfirmsProven`). What carries it over `Confirm` is that the
UPDATE names the row. `OnlyDisableEnds` proves `EnrolmentStays`: a verified row survives
the DELETE of an enrolment, whose WHERE asks for `verified = false`, and its INSERT,
which the unique `user_id` fails. `FactorCorrect` proves `FactorInv`, from which
`FactorTyped` and `CodesAreWorthIt` follow: an enrolment or regeneration that is alone
has deleted the codes before its own (`Begun`), so the codes are then a whole set or
those of its loop (`CodesWhole`), and an answer with a code is the only one that has it
unless another read it too (`CodeOnceEach`).

### Passkeys (`Passkeys_proofs`)

`PasskeysCorrect` proves `PasskeyInv`; `PasskeysTyped`, `ChallengesOnce`, `LastKeyStays`
and the action property `CountersAdvance` follow. A deletion without password has counted
another number of passkeys than one (`InHand`): another than its own, which is there still
unless another deletion counted the same ones, or none, and then the last was gone before
(`LastKeyGuarded`). `LoginOnceEach` and `RegisterOnceEach` add to the sessions and passkeys a challenge
has given the requests that are about to give one; the sum is a cardinality.

### Throttle and web front end (`SignIn_proofs`)

`SignInCorrect` proves `SignInInv`; `SignInTyped`, `GuessesStayBounded`, `ProfilesAreOwn`
and `ListsAreCurrent` follow. `GuessesLeft` adds to the recorded failures the logins that
passed the throttle and may still fail. `OnTheWay` carries `ProfileIsOwn`, which only
speaks of a tab at rest: a session in the cookie has an answer that will still move the
tab, or a page asked for with it, or is that of the page shown. It takes that a call of
the router is made after the cookie it goes with, that the last call counts, and that
every answer that sets a cookie makes one; `astray` names the two ways it may not.
`ListOwn` says of the query under way and of the list shown whose account they are of.

### Requests, keys, clients and roles (`RequestAccess_proofs`)

The first three parts prove an inductive invariant of a component each:

1. `KeysInv` (`KeysCorrect`), from which `OnlyPublishedKeysSign` and `RetiredKeysRest`
   follow. It adds that a key retired when a request began stays retired: rows only go
   from none to active to rotated.
2. `ClientsInv`, from which `SecretsAreCurrent` follows. It adds that whoever is
   comparing a secret has the row as it is, unless touched, and that nobody at rest
   names a client.
3. `RolesInv`, from which `RolesAreSet`, `RootReigns` and `RolesStandUp` follow. It adds
   that an editor between its DELETE and its INSERT is alone at its role (`Alone`),
   and where the seed is when the user it inserted lacks a role (`OnTheThrone`).

The fourth composes them. `ComponentSteps`: every step of the composition
is a step or a stutter of each component, so the three invariants carry over. What the
composition adds is `AccessInv`: what a request at work may be at (`Sound`), and that
the key of every signed or delivered token is published and its user exists
(`Known`), which needs that keys are never withdrawn (`JwksGrows`) and users never
deleted (`UsersStay`). There is a lemma for each group of actions; `OneMoved` and
`NoneMoved` reduce it to the request that moved. `AccessCorrect` is the invariant;
`TokensAccepted`, `AccessTyped`, `RetiredStayOut`, `SecretsStayCurrent` and `RolesStayUp`
are the properties of the run `request_access`.

### Assumptions

All are named ASSUMEs that TLC evaluates on the runs' instances:

- `None` is none of the values it stands beside (`NoneAssumption`, `NoClientAssumption`,
  `NoServiceAssumption`): NULL is no id, hash or time.
- Ids of different kinds differ where a history keeps them in one set (`SortsAssumption`
  of `OAuthGrants`, `Accounts` and `SecondFactor`, `SubjectsAssumption`): they are UUIDs,
  and an access token is a JWT.
- Limits, durations and sizes are numbers of the kind the code has: `TimeAssumption`,
  `BoundAssumption` (a first password exists), `SizeAssumption` (batches, windows and
  allowances are not empty), `MaxKeysAssumption`, `MaxSecretsAssumption`,
  `CountingAssumption`. No proof needs a bound to be any particular number.
- `ReqAssumption`: finitely many requests are in progress at a time, where requests are
  counted.
- `AskedAssumption`, `TabAssumption`, `RolesAssumption`, `RolesWriteAssumption` and
  `RequestsAssumption` say what a constant is: scopes asked for are scopes, the tab is
  one of the requests, the system's role is a role and its permission a permission, and
  the three components of `RequestAccess` serve the same requests.
- `DelayAssumption`: two legs of a refresh in time fit into the grace period
  (`REFRESH_GRACE_PERIOD_SECONDS`, 10 s). This is what "in time" means there; a leg that
  takes longer sets `fault`.

### What the runs alone show

`EventuallyAdmitted` of `SignIn`, a liveness property under fairness, which is out of the
prover's reach. No module uses a recursive operator, so nothing rests on induction over
data. The three claims that the code breaks are counterexamples, which only TLC gives.

## Findings

1. `refresh-token.service.ts:87`: the UPDATE of a rotation does not ask for
   `revoked_at IS NULL`. A rotation that read the row before a revocation commits
   after it and leaves a live token in a revoked family (`RevokedFamilyIsDead`).
2. `oauth.authorize.ts:331`: withdrawal of consent leaves codes alone and is two
   statements without a transaction; a code issued before is redeemed after
   (`WithdrawalEndsAccess`).
3. `audit.service.ts:90`: two appends read the same predecessor and the honest log
   is called invalid (`HonestLogVerifies`).
Some behaviours contradict no line of the repository and are therefore not refuted
but named, as what comes after "unless" in a property: a recovery code or a PAR that two
requests read before either marks it is used twice (`CodesHold`,
`OnceUnlessOverlapped`); two deletions may take a user's last two passkeys
(`LastKeyKept`); a counter may be overwritten by a smaller one (`CounterNeverBack`);
an answer that was overtaken puts a token that has been rotated away back into the
cookie (`GraceAbsorbsConcurrency`), and a refresh under way during a logout, or one that
runs between the logout's look at the cookie and its revocation, leaves the family alive
(`LogoutEndsFamily`); two editors of a role, or an editor and the seed,
leave a mixture, and one that dies an empty role (`RolesStand`); a seed that dies after
inserting its user leaves him without roles for good, and so does one that finds the
address registered by somebody (`RolesStand`); of two secret
rotations that overlap one answers with a secret that is dead already
(`CurrentUnlessTouched`); a list of passkeys is shown up to a minute after a
registration, or after another account signed in, as it was before
(`ListCurrentUnlessBehind`); the account page shows one user's profile beside another's
cookie until the router has moved the tab, and for good when the last answer was cut off
after its cookie (`ProfileIsOwn`).

`IssuedAccepted` also says something the routes disagree about: `/userinfo` takes an access
token that is bound to a key as plain Bearer, without a proof (`oauth.routes.ts:334-345`
asks for one only under the DPoP scheme), while the preHandler of every other route
refuses exactly that (`auth.ts:99-107`). The tests use `/userinfo` so
(`oauth.routes.test.ts:805`, `e2e/src/06-oauth-flow.e2e.ts:126`), and no line of the
repository says otherwise of that endpoint, so it is modelled as it is and not counted
as a finding. Should the code come to ask for the proof there, the conjunct
`UserinfoAccepts(t, NoProof)` goes.

Others the modules show without a property: an account with a second factor cannot
finish a password login from the web front end, since the form of `/mfa` posts to
routes the server does not have, and `middleware.ts` takes a tab without a cookie from
`/mfa` back to `/login`; only a passkey lets it in. A session revoked on the server
leaves a cookie that keeps the tab off the login page until it expires
(`middleware.ts` looks at the cookie alone). The wait that a throttled login is told
does not look at the time of the last failure (`auth.service.ts:85`), so whoever
waits that long may be refused again.

## Plan

Done, in this order: `TokenFamilies` and `RefreshTokens`, `OAuthGrants`, `AuditChain`,
`Accounts`, `LoginThrottle`, `SecondFactor`, `Passkeys`, `AdminConsole`, `SigningKeys`,
`Clients`, `Roles`, `RequestAccess`, `SignIn` and consent that gathers over several
scopes; then the proofs of all of them. In order of weight, what is left:

1. Refinement where a module states only invariants: what `OAuthGrants` promises to a
   resource server, with `TokenFamilies` as its store, as an abstract specification of
   its own.
2. `OAuthGrants` and `RequestAccess` in one instance: the permissions of a user in the
   tokens a code is redeemed for.
