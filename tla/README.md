# TLA+ models of uppoint-cloud

uppoint-cloud is a control plane in Next.js and TypeScript: accounts with
two-step logins and one-time codes, JWT sessions, tenants, an API to request
instances, a notification outbox and an audit log, all over one PostgreSQL
database accessed through Prisma. This directory holds TLA+ models of it, the
TLC configurations that check them, and proofs that TLAPS checks.

Paths below are relative to the repository's root.

## What is hard in this code

The application keeps no state in memory that matters. All state is in database
rows, in cookies and in messages that are under way, and requests run
concurrently in several processes. PostgreSQL runs at READ COMMITTED, so

* a single statement is atomic, and an `updateMany` whose `where` repeats what
  was read is a compare-and-swap;
* between two statements of a request anything may happen, unless they are in a
  transaction, and even there only rows already written are protected;
* a request acts on what it read earlier, and it can stop between two statements.

The models take these statements as their steps: one action per statement, or
per transaction where its statements cannot be told apart by the properties.

## Inventory

| component | code | state | operations | what makes it correct |
|---|---|---|---|---|
| notification outbox | `modules/notifications/server/outbox.ts` | rows of `NotificationOutbox` with status, attempt count, next attempt, lock | enqueue; a batch run (cron each minute, or inline after an auth message): select due rows, lock, deliver, mark sent or failed, audit | no message is lost, given up early or reopened; duplicates only for a stated reason; nobody starves |
| login | `modules/auth/server/login-challenge.ts`, `db/repositories/auth-login-repository.ts` | `LoginChallenge` rows, `failedLoginAttempts`, `lockedUntil` | start by e-mail or phone, verify the code, consume the token | a token is used once; superseded challenges never grant; guesses are bounded |
| sessions | `auth.ts`, `lib/session-revocation.ts`, `modules/auth/server/session-policy.ts`, the logout routes | a cookie per browser, `User.tokenVersion`, `RevokedSessionToken` rows | issue, validate, refresh, logout, logout of all sessions | a revocation holds for every request that starts later |
| idempotency | `lib/http/idempotency.ts` | an `IdempotencyRecord` row per key | reserve, run, persist, replay, wait, expire | one run of the handler per reservation; one response for all; no key blocked for ever |
| password reset | `modules/auth/server/password-reset-challenge.ts` and its repository | `PasswordResetChallenge` rows, password, `tokenVersion` | start, verify e-mail code, verify SMS code, complete | two codes, one use, ends all sessions |
| account deletion | `modules/auth/server/account-delete-challenge.ts`, `user-lifecycle.ts` | `AccountDeleteChallenge` rows, `User.deletedAt`, tenants | the same shape, bound to a session | two codes, one use, nothing of the account stays usable |
| registration | `modules/auth/server/register-verification-challenge.ts` | `RegistrationVerificationChallenge` rows, users, the first tenant | start, restart, verify e-mail, verify SMS | one user per address; user, tenant and membership together or not at all |
| profile and contact change | `modules/auth/server/account-profile.ts` | `AccountContactChangeChallenge` rows, signed drafts, e-mail and phone columns | update profile, start and complete a contact change | the address changed is the address proved |
| rate limiting | `lib/rate-limit.ts` | a window per key in Redis, or rows in the database | count and admit, fall back, fail closed | at most the limit per window |
| audit log | `lib/audit-log.ts`, `scripts/verify-audit-integrity.mjs` | a hash chain of rows, a fallback file with a chain of its own | append, fall back, verify, retention | the chain has no fork or gap that an honest run creates; an event is in the log or the file, or it is known why not |
| tenants | `db/repositories/tenant-repository.ts`, `modules/tenant/server/*` | tenants, memberships | create, ensure a default one, soft delete with the last member | an account there never loses its tenant; what an erased one leaves is explained |
| instance requests | `modules/instances/server/wizard-service.ts`, `db/repositories/instance-control-plane-repository.ts` | resource groups, instances, jobs, events | validate, create with an idempotency key | one job per key, everything of one tenant |
| internal requests | `lib/security/internal-request-auth.ts`, the two routes under `app/api/internal` | signed requests, a replay counter | verify, dispatch, record a security event | a signed request runs once per window |
| authentication routes | `app/api/auth/**/route.ts`, `lib/security/route-guard.ts` | limits and stored answers | limit, check the session, parse, limit by identifier, act | limits hold however a thing is spelt; nothing runs for an ended session |
| proxy and pages | `proxy.ts`, `modules/auth/server/route-access.ts`, `modules/dashboard/server/page-loader.ts` | a cookie that two judge differently | redirect or show | no redirect loop; the way back is kept |
| dialogs of the browser | `modules/auth/components/*-form.tsx`, `forgot-password-modal.tsx`, `modules/dashboard/components/*.tsx` | a step, a challenge, a flag per dialog | start, verify, complete, back, close, expire | they ask for what the server expects, and lead to the end |
| nightly clean-up | `scripts/cleanup-db.sh` | – | deletes expired rows of every table | removes nothing still needed |
| dashboard, hypervisor interface, roles, mail and SMS transport, other UI, operations scripts | see `PROJECT.json` | none of their own | – | – |

How they interact: logins, resets, deletions and contact changes enqueue
messages in the outbox; a login grants what the sessions turn into a cookie; a
reset and a deletion revoke sessions through `tokenVersion` and delete
challenges of other kinds; API routes wrap their handlers in the idempotency
layer; almost everything is rate limited and audited; the nightly clean-up
deletes rows under the feet of all of them.

`PROJECT.json` lists the hazards, each at its line, with the properties that
would catch it.

## Modules

| module | stands for |
|---|---|
| `NotificationOutbox` | the outbox and its overlapping batch runs |
| `LoginGrant` | what a login promises: proved before it is granted, granted once, then exclusive |
| `LoginChallenge` | the login's three requests, statement by statement; implements `LoginGrant` |
| `LoginChallengeProofs` | theorems about it, the refinement among them |
| `ApprovalGrant` | what a sensitive change of an account promises: both codes before the work, the work once, obsolete approvals withdrawn |
| `AccountChallenges` | password reset, account deletion and phone change, statement by statement; implements `ApprovalGrant` |
| `AccountChallengesProofs` | theorems about it, the refinement among them |
| `AccountSessions` | cookies, `tokenVersion` and revocation rows of one account |
| `Idempotency` | one key of the idempotency layer and the requests that share it |
| `Tenancy` | accounts, tenants and memberships; the resolution of a request's tenant, its repair and the erasure of an account, statement by statement |
| `InstanceControl` | extends it with resource groups, instances and jobs, the wizard's requests and what pages show |
| `InstanceControlProofs` | theorems about it and about `Tenancy` |
| `RegistrationGrant` | what a registration promises |
| `Registration` | its four requests, statement by statement; implements `RegistrationGrant` |
| `RegistrationProofs` | theorems about it, the refinement among them, and about `NotificationOutbox` |
| `RateLimit` | one limiter: the window in Redis, the count in the database, the switch between them |
| `InternalRoutes` | extends it with signed requests, their replay guard and the two internal routes |
| `InternalRoutesProofs` | theorems about it and about `RateLimit` |
| `AuditChain` | writers of the audit log, its fallback file, archive and delete, rotation, the verifier's walk |
| `AuditChainProofs` | theorems about it |
| `ApiRoutes` | every route of `app/api/auth` as the sequence of its stages, with limits, sessions and stored answers |
| `Navigation` | extends it with tabs that follow the redirects of the proxy and of the pages, sign in and log out |
| `RequestsProofs` | theorems about `Idempotency`, `ApiRoutes` and `Navigation` |
| `AccountForms` | the five dialogs of the challenges with their requests under way |
| `BrowserProofs` | theorems about `AccountSessions` and `AccountForms`, as `MCBrowser` composes them |
| `MC*` | constants, symmetry and compositions for TLC |

Where one module of proofs speaks of two models that do not extend each other, the
initial predicate, the next-state relation and the type invariant of one of them
carry its name (`RegistrationNext`, `KeyNext`, `ApiInit`).

Operators whose comment begins with "Faulty:" are not part of a specification.
They are plausible mistakes, kept next to the definition they would replace;
each property is known to fail with one of them.

### NotificationOutbox

A row has `status`, `attemptCount`, `dueIn` (`nextAttemptAt` minus now),
`lockedBy` and `lockAge` (now minus `lockedAt`). A run has a control point, the
batch it read, the attempt counts as it read them, the row in hand and the age
of its single clock reading, against which the code computes every timestamp.
The actions follow `dispatchNotificationOutboxBatch`:
`StartBatch`, `AcquireLock` or `SkipRow`, `Send`, `MarkSent` or
`MarkSentThrows` or `MarkFailedAttempt`, `AuditTerminalFailure`, `EndBatch`;
`Abort` is a run that dies or an exception that leaves the loop. `Send` has
three outcomes: taken, refused, and taken although the call throws.

The order in which a run goes through its batch, and the choice among rows that
are equally due, are left open; the code's order by priority and age is one of them.

What the model shows that the code does not say:

* `lockedAt` is stamped with the clock reading of the run, not of the lock, so a
  run near the end of a long batch holds locks that are almost stale when taken.
  Runs that all outlast `LOCK_STALE_SECONDS` take rows from each other for ever;
  the liveness runs therefore bound a run by that time.
* `attemptCount` may go back, when a late run stores the count it read plus one.
  It never runs ahead of the calls made (`NoPrematureFailure`), so the only
  harm is extra attempts.
* `MAX_BACKOFF_SECONDS` (900) is never reached: the exponent is capped at 8.
* The terminal-failure audit line is written even when the update hit no row
  (`MCOutbox_audit.cfg`).

### LoginChallenge and LoginGrant

`rows` is the table; a challenge is absent, pending, verified, used or gone. A
request has a control point between any two statements:
start: `StartEmailLogin`/`StartPhoneLogin` (read the user, compare the
password), then `RegisterFailedPassword`, or `ClearFailedPasswords`,
`DeleteChallenges`, `CreateChallenge`; verify: `VerifyCode` (read and compare),
then `IncrementAttempts` or `MarkVerified`; consume: `FindToken`, then the
transaction `ConsumeToken`. `Fail` is a request that stops anywhere.
Soft delete, contact change, expiry, the end of an account lock and the nightly
clean-up happen in between.

Expiry is a step and not a clock. Every comparison uses the time at which the
request began, in the read and again in the conditional update, and no statement
moves an expiry, so the second comparison always agrees with the first.
Requests that are refused at once change nothing and are left out; so is the
code's `P2025`/deadlock handling, which ends in the same answer as `Fail`.

`LoginGrant` knows nothing of requests, modes, counters or expiry: a grant is
offered to a user, proved, granted once, or withdrawn; granting withdraws the
user's other ones. `GrantsAsPromised` is the refinement.

### AccountChallenges and ApprovalGrant

The three flows have a table each, with the same columns under different names
and the same statements; in the model a row has a kind instead, and every action
that differs between the kinds is there once for each. `rows[c].stage` says which
of the columns `emailCodeVerifiedAt`, `smsCodeVerifiedAt`, the token and its use
are set. A start reads the user, for a phone change asks whether the number is
free (`CheckPhoneFree`), then deletes and inserts (`DeleteChallenges`,
`CreateChallenge`); each code is a read and comparison (`Verify...`) followed by
a conditional update (`Increment...` or `Mark...`); a completion is a read
(`Find...Token`) followed by a transaction (`Complete...`). `Fail` is a request
that stops anywhere, or a transaction that is rolled back.

Two columns are added for an observer: the number the SMS code goes to, and how
many wrong codes were answered. What the model shows that the code does not say:

* the number is read together with the row, and only `MarkEmailVerified`, which
  needs the row to be there still, keeps it from being used after a change: a
  phone change deletes all challenges of the user (`PhoneProved`). Its mutant,
  a change that leaves the other kinds alone, breaks it;
* the transaction of a phone change does not ask whether the user is active. A
  challenge for a deleted user can exist, but it never gets past the mail code,
  as a deleted user has no number to send a code to (`DeletedStaysBare`);
* the nightly clean-up can delete the token of a password reset that is still
  valid if `AUTH_PASSWORD_RESET_TOKEN_TTL_MINUTES` is set above about an hour. The
  user has to start again; nothing else depends on it.

`ApprovalGrant` knows nothing of requests, phones, counters or expiry: an
approval is asked for, proved by mail, proved by SMS, carried out once or
withdrawn; carrying it out withdraws the pending ones it makes obsolete.
`ApprovesAsPromised` is the refinement.

### AccountSessions

One account, a few sessions. `jar` is the cookie in each browser, with its age
since `exp` was set and its idle time; a request carries a copy of the cookie it
came with. `LookUpRevocation`, `DropRevocation` and `CheckUser` are the three
database statements of the validation; `AnswerRefresh` is the session endpoint,
whose answer replaces the cookie whenever it arrives; `RevokeJti` and
`ConfirmLogout` are the two halves of a logout, the client dropping its cookie
only after the server has confirmed. `BumpVersion` is the effect that logout of
all sessions and password reset have on the User row.

The model is of the production configuration: the revalidation cache, which
other environments use, is off there.

### Idempotency

One row and the requests that carry its key. `LookUp`/`Replay`, `DropExpired`,
`Reserve`, the handler, `PersistPending`, `Upsert`, `PersistThrows`,
`ExtendReservation`, `Poll`, `WaitDrop` are the statements of `withIdempotency`
in order; `Crash` is a request that stops anywhere. How the key and the subject
are hashed is abstracted to the fact that these requests share a row.

### Tenancy and InstanceControl

`account`, `tenant` and `role` are the three tables. A request reads its session
once (`EnsureAuthorizedSession` and the page guards) and then works through its
statements while accounts are erased around it. `Erasing` starts the transaction
of `softDeleteUserWithCleanup`, `CountRemainingMembers` is its count per tenant,
which does not see what another erasure has not committed, and `CommitErasure`
makes its writes visible. The first statement of that transaction locks the row
of the user, so a membership inserted for that user waits (the guard on
`Erasing`). Memberships of a second user are only written outside this
repository, by an administrator; the model has them from the beginning (`Init`).
Two facts about names are assumptions (`NamesAssumption`): the slug of a
registration ends with eight hexadecimal digits and that of a default tenant with
the 25 characters of a user id, so that the one is never the other.
`TryNextSlug` is the loop over slug suffixes after a unique-key conflict.

`shown` holds the rows of the control plane a page has shown: groups, networks,
policies and instances. The dashboard also shows notification counts, the number of audit
failures and recent audit events, and these are left out: `getDashboardOverview` asks for
them with the tenant (`get-dashboard-overview.ts:245-292`), but its default
dependencies drop it (140-143), so that they are selected by user alone and are
those of all tenants of that user. `TenantIsolation` does not speak of them.

`InstanceControl` adds the control plane. A submission reads the group, the
network and the policy, and asks for an earlier job with its key, in statements
of their own (`CheckSubmission`, `FindProvisioningJob`), then writes instance,
job and event in one transaction that two unique keys may refuse
(`CreateProvisioningRequest`). No code moves a job on from there.

What the models show that the code does not say:

* two members erased at the same time each still count the other one: their
  tenant stays active without anyone active in it (`LeftoversExplained` names
  this excuse);
* a request authorised before an erasure repairs the missing default tenant after
  it: a deleted account has a live tenant (the other excuse);
* of two simultaneous submissions of one request the second can fail over the
  unique name of the instance the first one made, and is then not answered with
  its job (`MCWorkspaces_retry.cfg`).

### Registration and RegistrationGrant

The replacement of a challenge (`ReplaceRegistrationChallenge`, under an advisory lock per
address) and the completion (`CompleteRegistration`, which consumes the challenge
and writes user, tenant and membership) are transactions that others see whole;
everything between them is a statement of its own. `OwnerActs` is a person who
registers an address and does not give up; `AnyoneActs`, `SoftDeleteUser` and
`ChangePhone` are the others.

A mail or SMS that cannot be enqueued leaves a stored code that was never sent
(`sent` in a row): after the mail code is consumed only a restart helps, and
`EveryoneRegisters` says that it does. A unique-key conflict at completion rolls
back and leaves the challenge as it was.

### RateLimit and InternalRoutes

`attempts` holds every attempt counted, with the store that counted it and the
clock reading it was counted under, which is older than the moment by at most
`MaxDelay`: the clock is read before the script or the transaction runs. A lost
reply after the count sends the call to the other store. `AdmissionsBounded`
gives each store its limit separately; a switch inside a window therefore admits
up to twice the limit, and that is what the code does. Upstash is taken as not
configured.

In `InternalRoutes` the network delivers a signed request late, several times or
never; `VerifyInternalRequest` compares its timestamp, `CheckReplay` is a rate
limit of one attempt per request id, which is all that tells a replay.

### AuditChain

`ReadPrevious` and `CreateRow` are the halves of the transaction under the
advisory lock, `Abort` its failure, from which the event goes to the fallback
file in unlocked steps: the first call of a process makes the directory
(`EnsureAuditFallbackPath`), and each one reads the previous hash, appends its line
and stores the hash (`Fallback`, `AppendFallbackLine`,
`WriteAuditFallbackPreviousHash`). An append that fails ends the call like one that
succeeds (`audit-log.ts:306`), and `Accounted` is therefore about the step in which a call
returns: without its event in the log or in the file only where the file system
failed it in that step, or, its transaction having failed, where the process found
no directory, or another call is still making it. `ArchiveAuditLog` and `DeleteAuditLog` are the
two statements of the clean-up, each with its own NOW(). `log` holds every row
that ever was, in the order of ids, and `deleted` the ids that are gone: what a
deleted row said is still needed to say what the row after it links to. The
verifier walks in pages by id. `AuditLog.id` is a cuid: that the order of ids is the order of
insertion assumes one server process whose clock does not go back.

The directory of the state file is made in the same way; a call that is told
meanwhile that it is not there overlaps with the one that makes it, and
overlapping writers are an exception anyway.

In the clean-up, `cleanup-db.sh:109` and `:146` count with data-modifying CTEs in a sub-select, and
`retention_guard` (138) is not referred to; the model takes archive and delete as
statements that do what they say, and more interleavings than they may have.

A walk whose cursor row is deleted ends early and reports success; this is the
exception in `VerifierRight`. Two overlapping writers of the fallback file chain
to the same line; `FallbackChained` holds until then.

### ApiRoutes and Navigation

A route is a record with its stages, read off its handler, so that one set of
stage actions serves them all: `Receive` (the key), `LimitAddress`,
`CheckSession`, `ReadBody`, `ParseSchema`, `LimitIdentifier`, `Act`, `Answer`, and
`Die` anywhere. A limit counts per route: `Spent` is keyed by the route's
`rateLimitAction`, the kind of limit and the identifier, so that the logout of all
sessions that ends a session leaves the limits of the route alone whose late request is
looked at. `EndSession` ends sessions for any other reason. `Receive` also takes a retry under a stored key. Everything
happens within one window and one lifetime of a stored answer; windows and
lifetimes are the matter of `RateLimit` and `Idempotency`.

In `Navigation` a tab is at rest, at the edge, at a page or in one of the two
steps of a logout. The second one, next-auth's `signOut`, drops the cookie and goes to the login page,
fails, or is turned away by the limit of its route and goes to the login page with
the cookie kept (`SignOut`). The proxy judges the cookie by its signature and claims
(`IsAuthenticated`), the page asks `auth()`, which also asks the database
(`Auth`). Tabs share the cookie and the sessions with the requests of
`ApiRoutes`; they browse only when the route is the logout, whose requests they
send. Observed on the way: refusals, 429 included, are stored under the key and
given to a retry; a handler that throws leaves the key pending; answers of 401
are not audited; the limit on the target of a contact change counts the text as
it was sent; the draft token of a name change has no attempt counter.

### AccountForms

One dialog at a time: `dialog` says which. `form` is the component's state (step,
challenge, token, countdown, `isSubmitting`, whether an error is shown), `server`
what the server expects next of the open challenge of each mode, `flight` the
requests under way. A handler is cut at its await: `Sends` runs from the click to
the request, `Answered` from the answer to the last setState. In between a person
may go back, close the dialog or change the mode, the request may time out
(`TimesOut`, 15 seconds; the sign-in request of the login has no time-out of its
own and only fails with the connection) while the server still works on it, and answers may
cross. A step back that clears `isSubmitting` lets a second request out.

What it shows:

* the registration form that loses the answer to a restart holds a challenge the
  restart has deleted, and it has no way back: only a reload helps (`Stranded`,
  the exception in `GetsThrough`);
* `Back` in the forgot-password dialog tells the server nothing: from the SMS code it
  leads to the mail code, which the server has taken and refuses
  (`password-reset-challenge.ts:284`), and from the new password to the SMS code. The
  person has to go back to the address, or close the dialog, and start again.
  `form.back` is set by `RecoveryBack` until the next answer that is accepted, and an
  earlier step while it is set is the exception that `FormFits` states;
* a sign-in that fails after an accepted code leaves the login form at a code
  that is used up, until the person goes back;
* two handlers of a dialog that was reset under its requests can chase each other
  for ever, each answer moving the form on from under the other, if the person
  goes on while an older request is under way. Going on like that counts as a
  detour, of which there are finitely many.

## Runs

| run | instance | shows |
|---|---|---|
| `outbox_safety` | 1 message, 2 runs, 1 dead run, runs may outlast the lock | `TypeOK`, `NoPrematureFailure`, `SentWasDelivered`, `DuplicatesExplained`, `TerminalIsFinal` |
| `outbox_partition` | 2 messages of one tenant, partition of one, 2 runs, 1 dead run, runs end within the lock time | `EventuallySettled` when the rows compete |
| `login_safety` | 1 user, 2 challenges, 2 requests, both modes | `WrongCodesBounded`, `WrongPasswordsBounded`, `DeletedNeverEnters`, `GrantsAsPromised` |
| `account_safety` | 2 users, 3 phone numbers, 2 challenges, 2 requests, limit of 1 | `PhoneProved`, `DeletedStaysBare`, `WrongCodesBounded`, `ApprovesAsPromised` |
| `browser` | 1 session, 2 requests, age 5, idle 1, 1 revocation of all sessions; or one of 5 dialogs, 2 requests, 3 faults, 1 detour | `RevokeAllHolds`, `LogoutHolds`; `FormFits`, `GetsThrough` |
| `sessions_remember` | idle = age, no revocation of all sessions | finding: `LogoutHolds` is violated |
| `idempotency` | 3 requests, handler may outlast the reservation | `RunsExplained`, `OneResponse`, `EveryRequestAnswered` |
| `workspaces` | 2 users, their tenants and one more, 2 requests, 2 groups, 2 regions, 2 names, 1 key | `ActiveMembersKeepTenant`, `LeftoversExplained`, `TenantIsolation`, `OneJobPerKey` |
| `registration` | 2 addresses that want one number, 2 requests, 6 challenges, 2 troubles | `RegistersAsPromised`, `EveryoneRegisters` |
| `internal` | 2 signed requests, 2 deliveries, limits of 1, windows of 3, 1 switch or lost reply | `AdmissionsBounded`, `OneRunPerWindow`, `ReplayExplained` |
| `audit` | 3 events, pages of 1, retention of 2 ticks, transactions of up to 1, 1 failure | `Chained`, `Accounted`, `VerifierRight`, `FallbackChained`, `ArchivedUnlessCrossing` |
| `requests` | each of the 27 routes, 2 requests, 2 spellings, 1 key, 1 dead process; 2 tabs, 2 sign-ins, 1 logout | `RunsWithinLimits`, `LateRequestsDoNothing`, `WayBackKept`, `LogoutEndsBeforeDropping`, `NavigationEnds` |

Further configurations, kept beside these: `MCOutbox_liveness.cfg` (one message),
`MCLogin_limits.cfg` (three challenges, `OpenChallengesBounded`), and four that end in the counterexamples described
under Findings: `MCOutbox_audit.cfg`, `MCIdempotency_overlap.cfg`,
`MCAccount_newphone.cfg`, `MCWorkspaces_retry.cfg`.

`browser` is two independent parts in one run: the cookie and the dialogs share
no state.

`TypeOK` is in one run; that of the other modules was checked while they were written,
and where there are proofs it is a theorem (`TypeCorrect`).

### Bounds

Why small instances are enough: rows of different messages, challenges,
accounts and keys meet only where the runs put two of them (a partition, the
challenges of a user). A race needs two requests; three are used where a third
one changes the result (counters, and the row that is deleted twice). Bounds
that exist only in the models:

* `MaxSends`, `MaxAborts`, `MaxBatchAge` (outbox): provider calls per message
  after which no new batch takes it, dead runs, ticks a run may last;
* `MaxRequestAge`, `MaxVersion` (sessions): ticks a request may last,
  revocations of all sessions;
* `MaxTries` (tenancy) is the code's own number of slugs to try; `MaxChallenges`
  and `MaxTrouble` (registration): rows ever made, and failures, wrong codes,
  expiries and doings of others;
* `MaxTime`, `MaxDelay`, `MaxFaults`, `MaxDeliveries` (rate limit, internal
  routes, audit): ticks, how long a call is held up after it read the clock,
  failures, arrivals of signed requests. `MaxDelay` is an assumption on the
  deployment, smaller than every window;
* `MaxTransaction` (audit): how long the transaction of `logAudit` may last.
  Prisma ends it after seconds, and the retention is counted in days;
* `MaxDeaths`, `MaxSessions`, `MaxLogouts` (routes and pages): processes that die,
  sign-ins, logouts. Each request is sent once; a retry is another one;
* `MaxFaults`, `MaxDetours`, `Slots` (dialogs): time-outs, lost answers and wrong
  codes; moves of the person nothing called for; requests under way at once;
* `HandlerMax` (idempotency): ticks a handler may run;
* the sets of messages, challenges, sessions and requests. A challenge id is
  used once. A request slot of the login, the account challenges and the sessions is used again and
  again, so the number of requests is not bounded, only how many run at a time.

`CHECK_DEADLOCK FALSE` (not in `outbox_partition`): these systems stop when all
challenge ids, sends or sessions are used up or all requests are answered, and
that is no error.

### Fairness

* `NotificationOutbox!FairSpec`: cron starts a run every minute (weak fairness of
  `StartBatch`), a process that was started keeps executing (`RunStep`), time
  passes. Nothing is assumed of the provider, which may refuse every call, nor
  of runs that die.
* `Idempotency!FairSpec`: a request that has begun keeps executing, time passes,
  the nightly clean-up runs. No request is assumed to begin, and any of them may
  crash.
* `Registration!RegistrationSpec`: a request that does not fail goes on, and the owner of an
  address acts again (weak fairness of `OwnerActs`) until there is an account.
  Mails may fail and others may interfere, `MaxTrouble` times.
* `Navigation!Spec`: the proxy and the pages answer, a request to log out is
  answered or times out (the browser aborts it), and signOut resolves. Nobody is
  assumed to open a page or to sign in.
* `AccountForms`: the person goes on when the dialog offers it and goes back when
  it does not (`Persists`), the countdown runs, requests arrive or are lost. No
  answer is assumed to be a good one while faults are left.

## Findings

* `sessions_remember`: the row that revokes a session lives as long as the cookie
  that was sent to the logout. A refresh that is under way encodes the same `jti`
  with a later `exp`; with "remember me" the idle timeout equals the maximum age,
  so that cookie can still be accepted after the row has expired. For ordinary
  sessions the idle timeout is far below the maximum age and closes the gap
  (run `browser`, theorem `LogoutIsFinal`): it is enough that the maximum age is at
  least twice the idle timeout and the time of three requests, and
  `modules/auth/server/session-policy.ts:3` has 4 hours and 30 days. It needs a refresh answered after the logout, and a
  browser that then keeps that cookie without using it until the row has expired.

Disagreements that configurations outside the list of runs show:

* `MCOutbox_audit.cfg` (`AuditMeansFailed`): `notification_delivery_terminal_failed`
  is audited for a message that another run delivers, or has delivered.
* `MCIdempotency_overlap.cfg` (`OneHandlerAtATime`): an expired row is deleted by
  key and not by what was read, so it may be the fresh reservation of another
  request that is deleted.
* `MCAccount_newphone.cfg` (`NewPhoneProved`): the README of the application lists a
  code sent to the new number; since 2026-03-15 (`CHANGELOG.md:270`) the code goes
  to the number the account has, and the new one is stored unproved.
* `MCWorkspaces_retry.cfg` (`RetriesAreAnswered`): a simultaneous retry of a
  submission may be refused over the name of its own instance.

And some that a property names as its exception:

* `scripts/cleanup-db.sh:124` promises to archive before the delete; a row that crosses
  the limit between the two statements is deleted unarchived.
  `ArchivedUnlessCrossing` is what holds.
* "DB errors are captured via fallback sink" (`lib/audit-log.ts:511`):
  `auditFallbackPathChecked` is set before `mkdir` is awaited (155), so that of two
  calls whose transactions fail the second may be told that there is no directory
  while the first is making it, and returns with its event in neither place; only
  `console.error` has it. `Accounted` is what holds.
* `Back` in the forgot-password dialog (above, `FormFits`), and the counts and events on the
  dashboard that are of every tenant (`InstanceControl`, `TenantIsolation`).

## Proofs

The theorems hold for every value of the constants that the named assumptions
allow (`OutboxAssumption`, `LoginAssumption`, `IdempotencyAssumption`,
`AccountAssumption`, `SessionAssumption`, `TenancyAssumption`, `NamesAssumption`,
`ControlAssumption`, `AuditChainAssumption`, `RateLimitAssumption`,
`InternalRoutesAssumption`, `RegistrationAssumption`, `ApiRoutesAssumption`,
`NavigationAssumption`), which TLC evaluates in every run.
Nothing else is assumed, except where a theorem says so (`IdleGap`). The sets that
a definition or an invariant counts are finite there (workers, requests,
challenges); users, addresses, messages, tenants, instances, tabs and audited
events may be infinitely many. Every inductive invariant was checked by TLC, on the constants of
the run of its module, before it was proved.

`RegistrationProofs` proves every safety property of `outbox_safety`:

* `TypeCorrect`: `Spec => []TypeOK`.
* `GivenUpOnlyAfterMaxAttempts`, `SentIsDelivered`, `OutcomesAreFinal`. None of
  them is inductive. The invariant `IInv` adds what a run knows at its control
  point: the count it read is at most the calls made before the batch started,
  and strictly less once its own call was made; a run at `accepted` has
  delivered the row in hand; a row that has a lock owner is PENDING; a run holds
  a row only if the row in hand is it. The last two are why a late update,
  filtered by the lock owner alone, cannot touch a settled row.
* `DeliveredOnceUnlessExcused`: `DuplicatesExplained`. Its invariant `DupInv`
  gives every message a budget: deliveries, plus one for a run that owns the row
  and has not sent yet, never exceed what the excuses pay for.

and the refinement that `registration` checks:

* `RegistrationTypeCorrect`.
* `RegistrationImplementsGrant`: `RegistersAsPromised`. `RegistrationShape` first names
  what a step may do to the tables: an application is written and replaces those of
  its address, its mail code is accepted, it opens an account, it is withdrawn, an
  account goes or changes its number, or nothing that matters. Each maps to a step of
  `RegistrationGrant` or to a stutter. What it takes is that a request past its code
  still knows its row (`RequestKnows`): the row was inserted, and if it is still there
  it has the address and the number that the request has in hand. So what it
  opens is what was proved, although it read the challenge before its transaction,
  which tests the stage again.

`LoginChallengeProofs` proves every property of `login_safety` and of
`MCLogin_limits.cfg`:

* `TypeCorrect`, together with `HandInv`: a request has in hand the user, or the
  row, its control point needs.
* `TokensAreSingleUse`, `VoidStaysVoid`, `DeletedAccountsStayClosed`. `GrantInv`
  ties the observer's count to the stage of the row: a row grants when it turns
  from verified to used, and nothing turns it back. `VoidInv` says that a void
  challenge is a deleted row, and an id is not inserted twice. That a stale read
  is harmless follows from this: the update tests the stage again.
* `LoginImplementsGrant`. `StepCases` first reduces every action to one of five
  effects on the rows: nothing that matters, rows removed, one created, one
  marked verified, one granted. Each of these maps to a step of `LoginGrant` or
  to a stutter; only the fourth and fifth need the invariant.
* `OpenChallengesStayFew`. `OpenInv`: no two open rows have the same user, mode
  and inserting request, since a request deletes before it inserts. The bound is
  then an injection from open rows into requests.
* `WrongCodesStayFew`, `WrongPasswordsStayFew`. The invariants `CodesInv` and
  `PasswordsInv` add to the answers given those that are under way, which are at
  most one per request, and say that as long as the counter admits another
  answer it has counted every earlier one.

`RequestsProofs` proves the safety properties of `idempotency`:

* `KeyTypeCorrect`, with `TriesInv`: how often a request may still store.
* `OneRunUnlessExpired`: `RunsExplained`. `CountInv`: handler runs, plus requests
  that are about to delete an expired row, never exceed the expiries observed,
  plus one if the row is there.
* `SameResponseForAll`: `OneResponse`. `OriginInv`: every response in the row or
  in a client's hands is that of some run of the handler; with no expiry there
  has been only one.

and those of `requests`. `StepShapes` reduces every step of the routes to one thing
that happens to one request (it comes, passes a stage, is refused, is served, ends),
or to a session that begins or ends elsewhere. The stages of every route, as its file
lists them, are `Orderly`: none twice, the service last, the body before the limits that
count by what it holds.

* `NavigationTypeCorrect`.
* `LateDoNothing`: `LateRequestsDoNothing`. `LateInv`: a request of an ended session has,
  as long as it is open, its session still to show, before the service (`SessionFirst`),
  and sessions do not come back.
* `WithinLimits`: `RunsWithinLimits`. `LimitHolds`: the requests that are past a limit and
  hold the identifier in question are at most the attempts it has counted, and those
  are at most what it allows. `Identifier` is where different spellings of one address
  meet.
* `WayBack`: `WayBackKept`. `TabInv`: a tab on its way to a page it asked for is at that
  page, or at the login form with that page as its callback and without a session.
* `LogoutEndsFirst`: `LogoutEndsBeforeDropping`. `LeavingInv` and `LogoutInv`: the log-out a
  tab waits for was sent with the session of that tab, and an accepted one has
  ended the session it was sent with, so that `signOut` comes after the revocation.

`BrowserProofs` proves the two properties of the sessions in `browser`:

* `TypeCorrect`.
* `RevokedForAll`: `RevokeAllHolds`. `VersionInv`: a login holds a `tokenVersion`
  that is at most the one at which it was granted, which is at most the present
  one. Whatever cookie a login or a late refresh produces after a revocation, it
  carries a version that is too old.
* `LogoutIsFinal`: `LogoutHolds`, if `IdleGap`. The row that revokes a session lives
  as long as the cookie that was sent to the logout, and a refresh under way may
  bring a younger cookie back. `AgeInv`: while anything of a session could be
  accepted, every request of it came with a cookie not much older than an idle
  timeout, so that the row a logout writes still has most of the maximum age to
  live. `RevocationInv`: that row outlives all that could be accepted, and a
  request that finds it expired, and deletes it, leaves nothing alive behind.
  With "remember me" `IdleGap` is false and so is the property
  (`sessions_remember`).
* `CookiesBehave`: the browser of the run, which also has the dialogs, behaves as
  `AccountSessions` says, so these hold of it.

and the one of the dialogs:

* `DialogFits`: `FormFits`, which speaks of moments without a request. `FormInv` says
  what holds in between, as long as nothing is astray. At most one request is under way,
  sent from the form as the form still is (`OnlyOne`), because a click does nothing
  under `isSubmitting` and whatever clears the flag before the answer leaves the form
  astray. Until the server takes the request the form fits (`Undone`); from then on
  the answer says what the form has to become (`Taken`), and an error that hides it
  leaves the form astray. A step back in the forgotten-password dialog sets
  `form.back`, the exception the property states. The sign-in by token, which follows the code without a
  click, is a case of its own (`SigningIn`). `AloneInv` is why a later start mends a
  form: if nothing else was under way from its click to its answer, the challenge
  it names is the open one.

`AccountChallengesProofs` proves the properties of `account_safety`:

* `TypeCorrect`, with `HandInv` as for the login.
* `CodesGoToTheNumber`: `PhoneProved`. It is not inductive, as the number is read
  one statement before it is used. `NumberInv` says that a number in hand is
  still the user's while the challenge waits for its mail code, because whatever
  changes a number deletes the challenges of its user in the same transaction.
* `DeletedStayBare`, which needs that: a deleted user has no number, so no challenge
  of a deleted user gets past the mail code.
* `NumbersStayUnique`: `PhonesUnique`. Only the unique index ensures it, not the
  look that `CheckPhoneFree` takes.
* `WrongCodesStayFew`: `WrongCodesBounded`. `CodesInv` is that of the login for both
  sorts of codes, and one fact more (`NoSmsYet`): the counter of the SMS code
  begins anew when the mail code is accepted, and until then nobody can have
  answered one.
* `ChallengesImplementApprovals`: every statement of the three flows maps to a
  step of `ApprovalGrant` or to a stutter. `UsesInv` ties the observer's count of
  the work to the stage of the row.

`InstanceControlProofs` proves the properties of `workspaces`. A step of `InstanceControl`
is a step of `Tenancy`, which leaves the tables of instances alone, or one of its own,
which leaves the tenancy alone; so the invariant is two parts with one lemma for
each step:

* `TypeCorrect`; `TenancyInv` and `TablesOK` have the types.
* `MembersKeepTenants`, `LeftoversHaveReasons`. An erasure counts members of its
  tenants, and what it counted is old when it commits. `MembersInv`: nobody but the
  user joins the user's own tenant. `TodoInv`, `GoneInv` and `DoomedInv`: an erasure
  has every live tenant of its user on its list, and those it will delete have
  no other active member. `CountedInv`: each of the rest has one, or lost the last
  one to an erasure that committed in between, which is the excuse `crossed` of
  the property.
* `TenantsIsolated`. `AskerInv`: a request past its authorisation holds a role its
  user once had in that tenant. `FormInv`: what it read of group, network and
  policy belongs together, and nothing of that changes.
* `KeysHaveOneJob`. `JobInv` and `AnsweredInv`: job, instance and event appear
  together, and an answer names what the job of its key made.

`AuditChainProofs` proves every property of `audit`; `ChainInv` has two sides that
share no variable but the writers:

* `RowsStayChained`, `ArchivedBeforeDeleted`, `VerifierIsRight`. `LogInv`: the times
  of rows do not decrease with their ids, so that the clean-up always takes a
  beginning of the log, and each row links to the id before it or has nothing
  before it. `ReaderInv`: one writer holds the lock, its row may be appended, and
  it is at most `MaxTransaction` old. From the last follows `ArchiveInv`: no row
  commits that the archive should already have had. For the verifier: a page
  has no gap (`PageHasNoGap`) and is empty only at the end (`PageHasTheFirst`), so
  that the row before one it compares is the one it has seen last.
* `EventsAccountedFor`, `LinesStayChained`. `FallbackInv`: of two writers that
  overlap one knows of the other, so that without a trace in the file or in
  `unsaved` the state is the hash of the last line, also of one that was rotated
  away. `LinesInv`: a writer past its append has a line. `PathInv` and
  `OneCallMoves`: a step returns one call only, and a call that falls back once the
  directory is known to be there appends a line or is failed by the file system.
* `TypeCorrect`.

`InternalRoutesProofs` proves the properties of `internal`, for any limits, any windows
longer than the delay of a call and any number of deliveries; that the two replay limits
are of one attempt, as the routes pass them, is an assumption:

* `TypeCorrect`. `TypeInv` also dates what is there: an attempt is scored with the
  clock of its call, at most `MaxDelay` before it is counted, so that one which was
  trimmed is outside of every window that ends now, but for that delay.
* `LimitsAreKept`: `AdmissionsBounded`. It speaks of windows that begin with an attempt.
  `Bounded` speaks of the windows that begin at any time, which is what a step
  preserves: whoever counts has every attempt of a window that has not ended in
  sight (`InSightOfRedis`, `InSightOfDatabase`) and is refused if they fill the limit.
* `RunOncePerWindow`: `OneRunPerWindow`. `GuardInv`: a request past the replay guard,
  or a run it led to, has its attempt on record, and two of the same message
  are from different stores or a window apart. `NobodyInSight` is the case of a
  limit of one: who is admitted has seen nobody.
* `ReplaysAreExplained`: `ReplayExplained`. `ExplainInv`: without faults each recorded
  attempt of a dispatch belongs to a delivery that was let through or is on its
  way there. Two checks of one identifier are counted one after the other, so a
  delivery past the first cannot be refused by the second unless another
  one was let through.

Only model-checked:

* liveness (`EventuallySettled`, `EveryRequestAnswered`, `EveryoneRegisters`,
  `NavigationEnds`, `GetsThrough`): fairness and ENABLED are beyond the prover. Every
  other property of a passing run has a theorem;
* the value of the retry delay: the proofs use only that it is a natural number.
  No theorem is about data of unbounded size: the induction theorems of the
  library are out of this prover's reach, and so are RECURSIVE operators, which
  no module here uses.

## Not modelled

`PROJECT.json` gives the reason for every component. In short:

* texts, transport and encryption of messages, and how keys and hashes are
  derived, are data the properties do not tell apart;
* headers, hosts and origins in the proxy, and platform roles, decide on one
  request without state;
* the hypervisor interface has no implementation, and operations scripts have no
  protocol (`export-audit-anchor.mjs` writes what it reads);
* of the browser: the dialogs of the name change (a signed draft, no row), of the
  password and of ending all sessions, the warning before a session times out,
  languages and the theme;
* the clean-up of `RateLimitAttempt` and of settled outbox rows, which nothing
  reads any more;
* the Upstash backend of the limiter, and the revalidation cache, which is off in
  production;
* row locks: the database aborts one of two transactions that wait for each
  other, and both callers treat that as the failure the models have anyway.

## Plan

Every safety property of the passing runs is proved. Worth adding next:

1. Row locks. `consumeLoginTokenAndCleanupChallenges` locks the challenge, then the
   user; a soft delete the user, then the challenges. With a model of the locks that the two
   take, "nobody waits for ever" would replace the database's abort, which the
   models have as a failure.
2. The revalidation cache of the sessions, should production turn it on:
   `RevokeAllHolds` and `LogoutHolds` would hold only up to its lifetime, as an
   excuse that `VersionInv` and `RevocationInv` have to carry.
3. The hypervisor provider, once the interface has an implementation: jobs of
   `InstanceControl` that are taken, retried and finished.
