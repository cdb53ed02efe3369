# Verification of the revenue-share offering backend

This directory holds TLA+ models of the parts of the backend (an Express/TypeScript service over
PostgreSQL) in which concurrency, partial failure or arithmetic decides correctness; the TLC
configurations that check them on small instances; and proofs, checked by TLAPS, of the main
properties for all values of the constants. `src/` is the root of the repository; paths such as
`services/x.ts` are under `src/src/`.

To run: `tlc -config X.cfg M` for a row of the table of runs, `tlapm XProofs.tla` for a proof module.
`PROJECT.json` gives, for every definition, the lines of the source it stands for.

## 1. The system

One Node process (or several) answers HTTP requests. A handler runs without interruption between
two `await`s; handlers of different requests interleave at the `await`s. Persistent state is in
PostgreSQL, reached through a pool; most operations are single statements that commit on their own,
and only a few use a transaction. In-memory state (idempotency records, rate-limit windows, the
session map) is per process and is lost with it.

| Component | State | Operations | Interacts with | What is hard | What makes it correct |
|---|---|---|---|---|---|
| **Distribution engine** `services/distributionEngine.ts`, `routes/distributions.ts` | tables `distribution_runs`, `payouts`; locals of each call | trigger; fetch balances; create run; create payouts; each retried | offerings (owner of an offering), balance source | retried INSERTs whose first attempt was committed, a crash or failure half-way, rounding | exact split; what is recorded is a prefix of it, under its own run, complete when answered 200, once |
| **Sessions** `auth/login`, `auth/refresh`, `auth/logout`, `middleware/auth.ts`, `sessionRepository.ts` | table `sessions` (a forest by `parent_id`) | login, refresh, requireAuth, logout, change of password | accounts | look-up and INSERT in different steps; a logout or a revocation in between | nothing sent after a logout is accepted; revocation has a reason and reaches all but what raced it |
| **Idempotency** `middleware/idempotency.ts` | maps `inFlight`, `records` | reserve, save, release, expire | the route's handler, the HTTP response's events | the client hangs up while the handler runs; expiry; restart | one handler per key; replays are genuine; no key blocked for ever |
| **Password reset** `services/passwordReset*.ts`, `routes/passwordReset.ts` | tables `password_reset_tokens`, `password_reset_rate_limits`, `users` | forgot, reset, limiter | e-mail, pool | concurrent resets, COMMIT not acknowledged, leaked clients, limiter that fails open | a token works once; what is confirmed is committed; nothing is leaked; the limit holds |
| **Accounts** `auth/register`, `auth/changePassword`, `services/startupAuthService.ts` | table `users` | register (two ways), log in, change password | password reset, sessions | look-up then INSERT; two hash schemes in one column | one account per address; the last password set is the one accepted |
| **Milestone validation** `vaults/milestoneValidationRoute.ts` | milestones, validation events | validate | domain event publisher | status tested before it is written; event published after | validated once; every validation has its event |
| **Revenue reports** `services/revenueService.ts`, `handlers/`, `offerings/revenueReportsRoute.ts` | table `revenue_reports` | submit, list | offerings, reconciliation | overlap tested before the INSERT | periods of an offering do not overlap, unless their submissions race; a conflict is genuine |
| **Reconciliation** `services/revenueReconciliationService.ts`, `routes/reconciliationRoutes.ts` | none of its own | reconcile, quick balance check, verify | reports, runs, payouts, investments | reads several tables at different times; tolerances | says "balanced" only if it is |
| **Balance snapshots** `services/balanceSnapshotService.ts` | table `token_balance_snapshots` | snapshot a period | chain, investments, distribution | looks for a snapshot before it inserts | one snapshot per period and holder |
| **Offerings** `services/offeringSyncService.ts` | table `offerings` | sync one, sync all | chain | overwrites what changed after it read | a row follows its contract and goes back only in a race |
| **Investments** `services/investmentService.ts` | table `investments` | invest | offerings, snapshots | status read before the INSERT | nobody invests in an offering known to be closed |
| **Stellar submission** `services/stellarSubmissionService.ts` | sequence number of the account (external) | submit a payment | network | two payments with one number; lost answers | a payment is refused only when another was pending or came in between |
| **Webhook delivery** `services/webhookService.ts` | table of endpoints, deliveries in memory | emit, deliver with retries | external endpoints | time-outs of deliveries that arrived | success means handled; repeats have a reason; every delivery ends |
| **Webhook reception** `middleware/webhookAuth.ts`, `lib/webhookSignature.ts`, `routes/webhooks.ts` | none | verify | sender | five front ends that differ in order and edges | runs a handler only for what is signed, refuses nothing that is signed, complete and recent |
| **In-memory session store** `lib/sessionStore.ts`, `middleware/sessionAuth.ts` | map of sessions | create, get, touch, delete, sweep | limiters, preferences | lazy and periodic eviction, restart | no session is accepted once expired or logged out |
| **HTTP rate limiter** `middleware/rateLimit.ts` | map of windows | increment | all routes | windows, shared stores, restart | a burst is bounded; who is refused has used up some limit of the store |
| **Notification preferences** `routes/notificationPreferences.ts` | table `notification_preferences` | read, merge, upsert | session store | SELECT and UPSERT in different steps | a field nobody sent does not change |
| **Listings and paging** `handlers/`, `routes/`, `lib/pagination.ts` | none | eight paged GETs | every table | rows that come, go and change between two pages | a client that walks to the end has seen every row |
| **Authentication middlewares** `lib/jwt.ts`, `utils/jwt.ts`, `middleware/auth.ts`, ... | none | six guards, three verifiers | every route | edges of lifetimes, rules that differ | a guard that reads a token names only its bearer, while it is in force |
| **Offering statistics, status guard**, **Horizon client**, **Notifications and e-mail**, **Audit log** | one row per operation | read, append | - | - | - |
| **HTTP framework** (`app.ts`, `middleware/`, `lib/`), **database access and migrations** (`db/`) | - | plumbing | everything | - | - |

`PROJECT.json` lists the same components with their sources and status, and every hazard found while
reading the code at its line, with the properties that cover it or the reason why none does yet.

## 2. The models

Common conventions. A request, session, token or key is a model value or an identifier; an identifier
drawn by `randomUUID()`, or issued by the database, is named after the request (and attempt) that
draws it, so fresh identifiers never clash. A step is the code between two `await`s. A query that
rejects either had no effect or, where the module says so, was committed and lost its answer. A
`Crash` ends everything in flight. A variable marked "history" is written and never read by an action:
it lets a property refer to the past.

### Apportionment: the split

The arithmetic of `distribute` (`services/distributionEngine.ts:94-130`): proportional shares, each
rounded to a cent with `Math.round` (halves up), and the rounding difference added to the largest
share. Operators only, over integers: a share is kept as a numerator over a common denominator, and a
revenue is counted in `Unit` sub-units per cent, because the route accepts any positive number.
Balances and revenue are exact rationals here; JavaScript doubles are not modelled, so the results
say nothing of amounts near 2^53 cents.

### DistributionEngine

| Code | Model |
|---|---|
| `triggerDistribution`, its early returns in order | `Gate`, `Trigger`, `LookupFails` |
| `withRetry` around each awaited operation | `attempt`, `MayTry`, `GiveUp` |
| `balanceProvider.getBalances` | `FetchBalances` (empty list, zero total: throws), `FetchFails` |
| `createDistributionRun`, `createPayout` | `CreateRun`, `CreatePayout`: the row is inserted; the loop goes on or the call returns |
| a rejected INSERT | `CreateRunFails`, `CreatePayoutFails` with one of `Faults`: `reject` (no effect), `ackLost` (committed, answer lost) |
| the process ends | `Crash` |

The tables are sets of rows; nothing in the repository updates or resumes a run. Read-only queries of
the repository are not part of this module. `lost` (history) holds the calls one of whose INSERTs was
committed without its answer: those are the calls whose retries may record a row twice, and
`NoDuplicates` and `RecordedSumIsRevenue` speak of all others, whatever happens beside them. For the calls
in `lost` the sentence of the documentation that "the sum of all payouts matches the `revenueAmount`
exactly" (line 38 of the same document) fails: a payout whose INSERT was committed without an answer is
inserted again.

Noted while modelling: the documentation has the largest share adjusted by "up to 0.01 units"
(`docs/distribution-engine-retry-strategy.md:38`), where several shares that round the same way make
the correction larger; theorem `SplitCorrectionBounded` gives the bound the code does keep, half a cent
per investor and half a cent more.

### PayoutLedger: what the engine implements

The ledger without requests, attempts, refusals or rows of runs: a call is opened with shares that add up
to its total, enters them in order, and is sealed with the last; a line is entered again only by a call
that lost an answer, and before the next one. `DistributionEngine` implements it (`ImplementsLedger`) by
the mapping

| Ledger | Engine |
|---|---|
| `state` | idle until the run is acknowledged, open while `createPayout` is called, sealed when answered 200, closed after any other end |
| `total`, `due` | the revenue in cents; the shares computed from the balances it got |
| `ledger` | the rows of `payouts`, by call, line and attempt (`Copies`) |
| `excused` | `lost` |

### SessionRotation

| Code | Model |
|---|---|
| `LoginService.login` | `Login`, then `Create` |
| `RefreshService.refresh` | `Refresh`, `Find` (findById), `FindChild` (findSessionByParentId), `Revoke` or `Create` |
| `createRequireAuth` and what it guards | `Protected`, `Auth`, then `Delete` (logout) or `Update` (change of password) |
| refusals that need no query (token malformed, expired, of another kind of payload) | `Refuse` |
| a rejected query; a committed INSERT that lost its answer | `QueryFails` |

`sessions` is a function from the ids present to rows. `revokeSessionAndDescendants` follows
`parent_id` with a recursive query: `Descendants` is the least set closed under "child of", the same
thing without recursion, so that it can be used in proofs. `DELETE` cascades over the same set.

`recordsParent`, chosen at the start and never changed, says which repository the two services are given. `FALSE` is `SessionRepository` as shipped:
every caller gives an id, and the branch of `createSession` for that leaves `parent_id` out (`NewRow`).
`TRUE` is not a repair of it but the contract that `RefreshService` is written against,
`RefreshTokenRepository` in `auth/refresh/types.ts`, whose `createSession` makes "a new session linked to a
parent" (`LinkedRow`), with the foreign key of migration 011. No property assumes either. `DeniedAfterLogout`
says something of both; `RevokedForReuse` and `EscapeIsRace` of `RefreshService` over the contract only, as the
shipped repository never holds a child, so that nothing is ever revoked for reuse: that is the violation
`sessions_old_token`.

Noted while modelling: `requireAuth` never looks at `revoked_at`, and compares the hash of the token with that
of the session's refresh token, so an access token is answered 401 (section 3); a rejection of its
`findById` is not caught (Express 4) and is modelled as `Crash`; a refresh in flight can outlive the
logout of its session as shipped, since no foreign key stops the INSERT; over the contract, a logout of
the child makes its parent's token refreshable again, and a family revoked while a refresh of it is before its
INSERT gains a child that is not revoked (`EscapeIsRace` says that nothing else escapes a revocation; `late`,
history, holds the sessions inserted so). A change of password (`Update`) leaves every session as it is, so a
token held before it is accepted after it, although `docs/auth-session-hardening.md:7` wants stale tokens
refused after a "logout / password change".

### Idempotency

| Code | Model |
|---|---|
| the method or header is not covered: `next()` | `PassThrough` |
| `checkAndReserve`: cached, in flight, reserved | `Replay`, `Conflict`, `Reserve`, each after `Prune` |
| the client has left before the listeners are subscribed | `Leave`, `ReserveForNobody`: the key is reserved by a `stranded` request |
| the handler's effect and its response | `Respond` |
| `finish` listener: save below 500, or release | `Finish` (`Save`, `Release`) |
| `close` listener: release | `Close`; the handler runs on as an `orphan` |
| restart | `Crash` |

`RequestPromises` states what clients are promised, and declares the variables it speaks of; `Idempotency`
extends it. `records[k]` is the request whose response is stored. `MayExpire` is whether a TTL is configured. The
handler behind the middleware is the route's: it is modelled by an effect followed by a response below
500 or not. As Node does, a response whose connection closed emits `close` and never `finish`. A client
may be gone by the time the middleware subscribes, if something before it awaits; then neither event
comes any more, and the key stays in `inFlight` with nobody to release it: such requests are
`Stranded`, and `ReservationsEnd` names them as the one exception. The route a request is for is not
modelled, because the middleware never looks at it: a key reused on another endpoint is answered with
the first endpoint's response, although `idempotency.usage.md:23` speaks of "the same endpoint". No
route of the repository mounts the middleware yet.

### PasswordReset

| Code | Model |
|---|---|
| forgot-password: body test; the service | `AskMalformed`, `Ask` |
| `checkRateLimit`: its queries in order | `CheckIfBlocked`, `GetBlockExpiry`, `GetRequestCount`, `BlockIdentifier`, `RecordRequest`, `RecordRefused` |
| the `catch` that lets a request past a failing limiter, and past one that denies it | `LimiterFails`; `GetBlockExpiry` and `BlockIdentifier`, which go on after a denial |
| look-up, INSERT of the token, e-mail | `FindUser`, `InsertToken`, `SendEmail`, `ForgotFails` |
| reset-password: body test; the transaction | `SubmitInvalid`, `Submit`, `Connect`, `Select`, `UpdateUser`, `MarkUsed`, `Commit`, `Rollback` |
| `catch`/`finally` | `StatementFails`, `EndTransaction` |
| time | `WindowEnds`, `BlockEnds`, `Expire` |

`locks` holds the row locks of PostgreSQL (a transaction keeps them to its end), `clients` the pool's
clients in use. A write of a transaction is visible from its COMMIT; a COMMIT may be carried out and
lose its answer. `limits` is a function because `identifier` is the table's primary key (migration
011); `RecordRefused` is the INSERT that key refuses. `LimiterFaults` is whether the limiter's queries
may also fail for no reason of their own. `BlockedBefore` is the set of addresses blocked when the model
starts: with two requests of each kind, a block made by one of them is never met by another that then
goes on to a reset. `resetRateLimit`, which nothing calls, is left out. A request that is denied is
answered 200 like any other, although `docs/password-reset-rate-controls.md:20` promises 429: the refusal
is thrown inside the `try` that fails open, so `GetBlockExpiry` and `BlockIdentifier` go on as an allowed
request does.

### ResetTokens: what a reset implements

The same service without transactions, locks, connections and limits: a token is stored, sent and spent,
and it is spent in the one step that changes the password of the user it was asked for; a reset makes one
change at most, and is confirmed only by making it. Expiry is left out: the service may refuse a token
whatever its age, and commits one that expires between its SELECT and its COMMIT. `PasswordReset`
implements it (`ImplementsBook`) by the mapping

| ResetTokens | Service |
|---|---|
| `asked` | `email` |
| `token` | none without a row, spent if `used`, otherwise sent once it was e-mailed, else stored (`TokenState`) |
| `changed` | the committed resets, with their token and the row's user (`Changes`) |
| `told` | the answer (`Word`); a request that died was told nothing |

### RevenueReports

| Code | Model |
|---|---|
| schema, token and body tests; the service | `Refuse`, `Submit` |
| `submitReport` steps 1-3, as the handler answers what they throw | `FindOffering` (`Rejection`) |
| step 4, `findOverlappingReport` | `FindOverlap` (`Overlapping`) |
| step 5, the INSERT under `idx_revenue_reports_unique_period` | `Create`, `CreateRefused` (`PeriodTaken`) |
| the handler's `catch` | `SubmissionFails` |
| the engine's INSERT of a run; whoever settles it | `AddRun`, `SettleRun` (external) |
| `reconcile`, `quickBalanceCheck`: tests of the route | `Ask`, `Decline` |
| reports, then runs, then investors | `ListReports` (`Relevant`), `ListRuns` (`Balanced`), `FindInvestors`, `CheckFails` |
| the sums, `toFixed(2)`, `diff > tolerance` | `ReportedExactly`, `PaidExactly`; `Reported`, `Paid` (`ToFixed`); `Differences`, `Exceeds` |

A report is named after the submission that inserts it, so `reports` is a set of submissions and
`request[r]` its row. `runs` grows and changes while a check is between its two queries. An instant is a
natural number. A report's amount has up to ten decimals (`revenueService.ts:51`): it is counted in units of
the last one, `Cent` of which make a cent. The two sums are rounded to cents before they are compared, and
`Drift` is how far from the exact value floating point may leave a sum or a difference, in units: where two
outcomes are so close, either is taken. The tolerance is what the body of the request says, which nobody
examines: an integer, or `NaN`, by which every check is balanced. `BalancedCoversReported` speaks of
tolerances that are numbers, and allows for the two roundings (`Slack`); the documentation promises more
(section 3). Nothing in the repository ever sets a run to
`completed`, so `SettleRun` is an assumption about what would; without it every check of a period with a
run is unbalanced. Options of `reconcile` that can add no discrepancy are left out:
`checkInvestorAllocations` divides by a count of investors, and x/0 is `Infinity`, which is never <= 0;
`checkRoundingAdjustments` compares an amount of two decimals with itself rounded to two.

What the model shows or steps over: the "strict non-overlap policy" of
`docs/revenue-report-ingestion-validation.md:20` holds only between submissions that do not race, which is
what `OverlapsAreRaces` says; an offering that is not found is answered
400, where the document says 404; `POST /revenue-reports` uses the handler that reads `req.params.id`,
which that route does not have, so it always finds no offering; `datesOverlap` counts periods that
merely touch where `findOverlappingReport` does not, so a report that ends when the next begins is
counted in both periods' reconciliations, and adjacent periods that are paid in full are reported as a
mismatch; `verifyDistributionRun` lists the runs of the offering `''` and so finds none.

### Accounts

| Code | Model |
|---|---|
| early returns of the five handlers | `Refusal` (`RegisterHandlerRefusal`, `StartupRouteRefusal`, ...), in `Submit` |
| the rules for a new password; the two hashes and the two comparisons | `validatePasswordStrength`; `sha256`, `hashPassword`; `verifyPassword`, `comparePassword` |
| `findByEmail`, then INSERT under UNIQUE (two registrations) | `FindForRegistration`, `CreateUser` |
| log-in up to its session | `FindForLogin` |
| `findUserById` and comparison, then UPDATE | `FindForChange`, `UpdatePasswordHash` |
| look-up by mailbox, then the UPDATE of a reset | `FindForReset`, `UpdatePasswordHash` |
| a rejected call; a committed one without its answer | `DbFails`; the second code of each write |

A password is a value with a `Profile` (length, traits); a hash is the password with the scheme it was
hashed by, so that a hash of one scheme never equals one of the other. An address has a lower-case form
(`Lower`). `author`, `origin`, `replaced` and `overtaken` are history. `PasswordReset` has the token between
the two halves of a reset; here they are one request of two steps.

Noted while modelling: log-in accepts SHA-256 digests only, so who registered as a startup, or has changed a
password, cannot log in until a reset (`LogInNeedsDigest` says so of the code, and is no requirement). A change
of password accepts scrypt only, so an investor cannot change one. `docs/password-strength-policies.md:59` names
one scheme, by which every password in force would open a log-in. A reset, and a startup's registration, accept eight characters
where registration and change want twelve and more (`WeakIsExcused`). An investor's weak password of
twelve characters is answered 500. Two accounts whose addresses differ in capitals share a mailbox, and a
reset picks either.

### Webhooks and WebhookReceiver

`WebhookReceiver` holds the decisions of the five front ends as operators, one early return per line and in
the order of the code; the HMAC is ideal. `DeliveryPromises` declares what the safety properties speak of,
and states them. `Webhooks` extends both with the rest of the state:

| Code | Model |
|---|---|
| the repository of endpoints | `create`, `deactivate`, `delete` |
| `emit`: query, then deliveries nobody waits for | `emit`, `listActiveByEvent`, `ListFails`, `BeginDeliveries` |
| one round of `deliver`: answer, network error, abort; backoff | `Answered`, `Unanswered`, `AfterFailure`, `Retry` |
| the network and the receiver (external) | `Receive`, `Drop` |
| the sender's process stops | `Crash` |

An aborted request stays on the `wire` and may be handled after its successor. Noted while modelling: an
attempt that is aborted and then handled is repeated, so a receiver must expect an event twice, and events
overtake each other; deliveries in memory die with the process; an
endpoint deactivated after the query is still called; the routers of the repository refuse what its own
sender sends (the body has `payload` where they want `data`, and there is no timestamp header), so that a
handler only ever runs behind a middleware, configured without `requireTimestamp` (`HandledIsSigned`); the
multi-tenant router takes `requireTimestamp` and does not use it; a timestamp beyond the range of a `Date` has
age NaN and passes the middlewares' window. `WebhooksAreSigned` therefore claims of timestamps only that one
within the limit is never refused; `LetsThrough` lists what each front end lets through, for the proofs.

### Offerings and Snapshots

`Offerings` has three services on two tables, and `Snapshots` extends it with a fourth: they are composed by
the tables `offerings` and `investments` that they share, in one next-state relation.

| Code | Model |
|---|---|
| `syncOffering`, `syncAll` (all rows read at once) | `SyncOffering`, `SyncAll`, `Settle` |
| `syncFromChain`: contract, comparison, UPDATE by id | `GetOfferingState`, `UpdateState`, `JobFails` |
| `createInvestment`: offering and status, INSERT | `CheckInvestment`, `CreateInvestment` |
| `submitPayment`: `getAccount`, `sendTransaction`; its `setTimeout(30)` | `GetAccount`, `SendTransaction`; `PaymentExpires` |
| `snapshotBalances`: offering, existing rows, balances, one transaction | `FindOffering`, `LookForExisting`, `FetchBalances`, `InsertRow`, `Commit`, `SnapshotFails` |
| a rejected call | `CallFails` |
| the contract moves on; an investment is settled; a ledger closes (external) | `Advance`, `Complete`, `LedgerCloses` |

A contract passes through the states of `ChainState`; a row remembers, as history, the version it was
written from. The network enqueues an accepted payment (`pending`), and the account's `sequence`, which
`getAccount` reads, counts it only when a ledger closes; until then the network wants the number after the
pending ones, and the service builds with the one after the ledger's. So a payment that is sent after another
was answered may be refused as well, until the next ledger: `RefusalIsRace` names that case beside the race
between `getAccount` and `sendTransaction`. Noted while modelling: the column's CHECK knows no "completed", so the last state of a
contract can never be stored; no write of a status asks `lib/offeringStatusGuard.ts`, whose document has
an attempt to move backwards "throw an error" (`docs/offering-status-transition-guardrails.md:20-21`); a
payment whose acknowledgement was lost is
answered 500, and sent again it is paid twice; two snapshots of one period are both stored when they race,
since no constraint refuses the second, and a period written "2024-01", as a comment has it, does not fit
the column, a UUID.

### FrontDoor and Handlers

`FrontDoor` is what a request passes: the limiters before its authentication, the authentication, the
limiters behind it, all in the memory of one process; `Handlers` extends it with two handlers that wait.
The composition matters: a session may expire, or the process restart, while a request that passed the
door is under way.

| Code | Model |
|---|---|
| `InMemoryRateLimitStore.increment`; one limiter; a chain of them | `increment`, `Limit`, `Passing` (`LimitAll` at its end) |
| 429, 401 | `TooMany`, `Unauthorized` |
| `SessionStore` create, get, touch, delete, sweep | operators and actions of these names |
| log-in, log-out, me | `Login`, `Logout`, `Me` |
| `shutdown` of `index.ts`, or a crash | `Restart` |
| validation of a milestone, await by await | `Validate`, `IsVerifierAssigned`, `GetMilestone`, `CreateEvent`, `MarkValidated`, `Publish` |
| PATCH of the preferences | `Patch`, `ReadExisting`, `Upsert` |
| a call that rejects | `HandlerFails` |

Everything in memory is per process, so `Restart` also ends the histories of its windows and sessions. Time
is a clock that ticks to `MaxTime`. Noted while modelling: a limiter per user takes its key from `user.sub`,
which `sessionAuth` does not set, and so lets everything through (`rateLimit.ts:116-121`); limiters that are
given no store share one (`StoreOf`), and count each other's requests, so that a limit is not one of the limiter's
own requests, and `RefusalIsDue` says what a refusal does mean (`Against`); windows are never evicted; `index.ts` mounts
neither a limiter nor the session routes; `docs/graceful-shutdown-completeness.md` has the server closed
and ten seconds granted, where `index.ts:219-224` closes the pool and exits; the milestone's event is published by the
handler itself and lost when that rejects, where `docs/milestone-event-publishing-reliability.md:18-19` has
a queue accept it; an update of preferences writes all fields, and so undoes what another update stored after it had read
(`docs/notification-preferences-validation.md:20` says that only provided fields are updated: that is
`StaleFieldIsRace`, with the race as its exception); `routes/notificationPreferences.ts` does not compile
as committed.

### Paging, TokenChecks

`Paging` has the query parameters of eight listings (JavaScript's `Number` and `parseInt` on what clients
send), their refusals in order, and a client that walks from page to page while rows are inserted and
change their status. `Listed` is the answer of a query without LIMIT and OFFSET: of the rows that are kept
(`Kept`), in the table's order, the k-th is the one with `Rank` k. Rows with equal `created_at` have no
defined order in PostgreSQL; the model gives them one. `TokenChecks` has the three verifiers and six guards as functions of a request, a session row and the
clock. One of the guards, `requireIssuerAuth`, is a stand-in (its comment calls it a mock) that believes the
header X-Issuer-Id: it names whoever the header names, reads no token, and is in no claim of the module, which
all speak of the other five (`TokenGuards`). Log-in and refresh issue two tokens and store the hash of the
refresh token (`StoredHash`); `createRequireAuth` compares the bearer with that hash, so it never takes an access
token, and `TokensAreTheirBearers` asks it to take only the other one. `MCCalculations` runs both, and `WebhookReceiver`, over all inputs of a small instance.

Noted while modelling: a row that leaves a status filter during the walk shifts the others, and one of them
is missed (`shrank`); a client must advance by the limit that the answer names, not by the one it asked
for; the home-made verifiers accept a token in the second it expires, lib/jwt does not, and of lib/jwt's
tolerance only that on `iat` is effective; `requireInvestor` accepts a token without a subject;
`createRequireAuth` ignores `revoked_at`, its sibling ignores the session's user and the token's hash;
`routes/users.ts` passes `authMiddleware` where it should be called, so its route never answers (it is not
mounted).

## 3. Runs

Requests are made once each and the system then stops, so no run checks for deadlock
(`CHECK_DEADLOCK FALSE`); that every request ends is checked as liveness where code must wait for
something. Symmetry is used only in runs without a liveness property.

| Run | Configuration and bounds | Shows |
|---|---|---|
| `distribution` | 2 calls (startup, admin, a foreign startup), 2 attempts, balances none or two equal, INSERTs refused or without answer, crash; fair | the engine implements the payout ledger; every call ends |
| `sessions` | 4 requests, 2 users, the shipped repository and the contract of `auth/refresh/types.ts` | nothing sent after a logout is let through, whatever was in flight; over the contract, `RefreshService` raises no false alarm, and nothing escapes a revocation but what raced with it |
| `idempotency` | 3 requests, 2 keys, clients that leave at any time, expiry, restart; fair | agreeing replies, the exact list of excuses for a repeated effect; each reservation ends unless its request is stranded |
| `reset` | 2 forgots, 2 resets, 1 user blocked at first, pool of 2; fair | a token works once, nothing is leaked; a reset takes effect in one step of `ResetTokens`; resets that wait for a lock are answered |
| `revenue` | 2 submissions out of 7 requests (periods that touch, overlap, are empty; another offering; not owned, not found), amounts beside whole cents, 2 runs, 1 check of one of 5 queries, with the default tolerance, one below zero and one that is no number | overlaps come of races only, genuine conflicts; "balanced" covers what had been reported, but for the tolerance and rounding |
| `accounts` | 3 requests of any kind, one address in two spellings and a malformed one, 4 passwords | which accounts share a mailbox, what a change may overwrite, where weak passwords come from |
| `webhooks` | 2 emissions, 1 endpoint, 2 tries, 4 kinds of receiver; fair | what is sent is processed behind a middleware with the secret only, success means handled, repeats were unseen, every delivery ends |
| `offerings` | 3 requests of any kind, 1 offering with 4 states of its contract, 1 earlier investment | each anomaly (a row that goes back, a late investment, a refused payment, a second snapshot) has its race; snapshots are whole |
| `front_door` | 3 requests, and a fourth when none of them has been let in; limiters of limit 3, 2 and, per user, 1 in the default store, windows and sessions of 2 ticks, one of limit 2 and window 3 in a store of its own, clock to 3, 1 restart | bursts below twice the limit, refusals only for what counts in the store; live sessions only, a milestone validated once but for a race, announced, no field changed but by its own request |
| `calculations` | tables of up to 4 rows and all walks; all webhook messages; all tokens around the edges | complete walks, signed webhooks, named bearers |

The bounds are the least at which the interesting cases happen. Two calls or requests race; the third
and fourth session request are needed for *login, refresh, reuse of the same token, use of the child*, and
for a refresh that waits while another two have the family revoked;
a third request with a key meets what the first two left (a record, an orphan, a stranded key); a third
request on accounts or offerings is needed for *register, look up, overtake*, and for a sync that overtakes
a sync whose row an investment has read; a second attempt is all a retry needs to duplicate; two resets
contend for the row of a token and for that of the user. With two resets the pool of two is never
exhausted: that no client is kept is the safety property `NothingLeaked`, proved for any number of resets
and any pool. In `distribution` the pairs of requests left out (`MCInit`) are mirror images, or pairs with a
refused call, which touches no table; in `reset` the first request is for a user, and the others are its
mirror images, or ask for strangers alone. In `front_door` windows and sessions last two ticks and the
clock reaches three: a window ends and another starts, and a session expires, while a request is under way.
A burst that straddles two windows needs four requests at a limit of 2 (one that opens the first window, one
at its end, two at the start of the next): with the fourth request of `front_door` the bound `2 * limit - 1` is
reached, and TLC refutes `limit` itself as a bound. Four are affordable when the first three are over at the
door, which is all a burst needs (`MayCome`).
Of the four contract states three can be stored, enough for an older one to overwrite a newer, and the
fourth, completed, cannot. The one
offering is enough, since rows of different offerings share nothing but a `syncAll`. Four rows, read in
pages of one, two or three, leave room for an insertion before, between and behind two pages.

The remaining runs are counterexamples, each to one sentence of the documentation:

| Run | Sentence | Counterexample |
|---|---|---|
| `sessions_old_token` | "The old refresh token is then invalidated" | the shipped INSERT stores no parent, so the reuse test never finds a child |
| `reset_limit` | "Maximum reset requests per window" | one row per address: the count never exceeds 1, and the refused INSERT fails open |

The quotations with their places are in `PROJECT.json` under "findings". Where the documentation claims
what only a race breaks, the property states the race as its exception, and section 2 quotes the sentence;
`idempotency.usage.md:24`, which answers 409 while a request is running, is one of them: the key of a
client that hung up is released and its handler runs on (`EffectTwiceIsExcused`).

Other sentences that the code does not keep have no run: what the code does is in the definition named, no
property claims the sentence, and the properties beside it are worded so as not to.

| Sentence | What the code does |
|---|---|
| `docs/password-strength-policies.md:59` "Password storage uses SHA-256 hashing", by `src/utils/password.ts` | that file is scrypt; a startup's registration and a change of password store scrypt, which log-in, comparing SHA-256 digests, never accepts (`HashFor`, `verifyPassword`) |
| `middleware/rateLimit.ts:4` "Maximum number of requests allowed within the window", `:78` 429 "when the limit is exceeded" | limiters without a store count in one, under keys that do not name the limiter: one of limit 2 refuses its second request when another has counted two (`StoreOf`) |
| `docs/revenue-reconciliation-checks.md:182` "Differences exceeding tolerance trigger `REVENUE_MISMATCH`" | the sum of a period's reports, of up to ten decimals, is rounded to cents first: up to half a cent beyond the tolerance passes (`ToFixed`) |
| `docs/revenue-reconciliation-checks.md:49` "All inputs are validated before processing" | the tolerance is not: by one that is no number nothing exceeds, and every check is balanced (`Exceeds`) |
| `docs/webhook-signature-verification.md:183` "Require timestamp header for replay protection" | the multi-tenant router passes any timestamp, and none (`LetsThrough`) |
| `docs/webhook-signature-verification.md:207` 403 for "Webhook timestamp is outside acceptable window" | a number beyond a `Date` has age NaN, which is outside of no window (`LetsThrough`) |
| `auth/session.ts:4` "Session lifetime for access tokens managed by login service" | the session holds the hash of the refresh token, and `createRequireAuth` answers an access token 401 (`createRequireAuth`) |

### Fairness

Only what the event loop and the database must do is fair; clients, faults, time and crashes never are.

- `MCDistributionEngine!MCSpec`: weak fairness of each call's own next step. Every awaited operation
  settles (resolves or rejects) and its continuation is run. Which of the two, the fairness leaves open.
- `Idempotency!FairSpec`: weak fairness of `Settle(r)`: the handler responds, and the response is
  flushed. This is an assumption about the route's handler; the middleware has no time-out of its own.
- `PasswordReset!FairSpec`: weak fairness of `Proceed(r)`, the steps that do not fail. A step is enabled
  only if the lock or client it needs is free, and weak fairness suffices as the holder's own steps are
  enabled throughout.
- `Webhooks!Fairness`: weak fairness of `DeliveryStep` and `EmissionStep`: timers fire, so an attempt is
  answered or aborted and a waiting delivery goes on. Neither network nor receiver is assumed to do
  anything; it is the timeout that ends an attempt.

Each liveness property allows a crash as an end.

## 4. Proofs

Each module `XProofs` extends `X`, and with it the modules `X` extends, and TLAPS: `DistributionEngineProofs`
also proves the theorems of `Apportionment` and the refinement of `PayoutLedger`, `HandlersProofs` those of
`FrontDoor`, `SnapshotsProofs` those of `Offerings`. The exception is `RequestsProofs`: it extends
`MCCalculations`, and so `Paging` and `TokenChecks`, and has instances of `Webhooks` (`Hook`) and
`Idempotency` (`Idem`), about whose behaviours it proves the predicates of `DeliveryPromises` and
`RequestPromises`, which it and they extend. What the two assume of their constants is there a
hypothesis of each theorem about them (`WebhooksAssumption`, `IdempotencyAssumption`), word for word what
TLC evaluates as assumptions in the runs `webhooks` and `idempotency`. `PasswordResetProofs` also proves
the refinement of `ResetTokens`. Proofs hold for all values of the constants that satisfy
the module's named assumptions (`UnitAssumption`, `RequestsAssumption`, `DistinctAssumption`, ...), which
say no more than that sentinels differ from the values they stand in for, that flags are Boolean, that
records have their fields, and that bounds are natural numbers. Two theorems about limiters have a further
hypothesis, explained there. A theorem that names a property of a run is listed with it in
`PROJECT.json`; the properties proved and not run again (`NoDuplicates`, `ReplayIsGenuine`, `OneHolder`, ...)
are stated in the model's module beside those of the runs, and so is the type invariant of a proved module.

Four modules need induction over numbers, which the library states with an operator as parameter. It is
done with the least-number principle instead: `LeastNumber` (from the well-foundedness of < on the naturals)
and `BoundedInduction`, the set of numbers up to N at which a claim holds being all of them
(`IntervalInduction` where the numbers are those of an interval). A family of
sessions is handled without induction: `Descendants` is the least set closed under "child of", so what is
claimed of all descendants is shown to hold of such a set.

**DistributionEngineProofs.** Three parts. *The split*, for every non-empty list of natural balances with a
positive sum, and every natural revenue: `SplitExact`, `SplitOthersNear`, `SplitCorrectionBounded`,
`SplitNonNegative`. A sum is a recursive function, and facts about it need induction on the length;
rounding moves each share by at most half a cent, so the sum moves by at most n/2; the correction is
therefore at most (n+1)/2; and the largest share is at least revenue/n.

*The tables.* Their properties are not inductive: that an answered call is complete depends on where its
loop is. `IInv` adds to `TypeOK` what a call remembers at each place
(`CallsConsistent`: a run acknowledged, the lines before the current one recorded), that each row was
written by the call its id names, from that call's own request and balances (`RowsConsistent`), and, for
every call that is not in `lost`, that a row of an INSERT still being attempted does not exist yet
(`RowsUnique`). One lemma per action, one step per conjunct. Proved from it: `TypeCorrect`, `PrefixCorrect`,
`CompleteCorrect`, `ReferencesCorrect`, `UniquenessCorrect`, `AuthorisationCorrect`, and
`RecordedSumCorrect`, which joins uniqueness with `SplitExact`. The last two speak of calls outside `lost`.

*The refinement.* `LedgerImplemented` is `Spec => ImplementsLedger`: the initial states map to initial
states, and every step of the engine, from a state in `IInv`, to a step of the ledger or to a stutter. The
acknowledgement of the run is `Open`, where `SplitExact` gives the sum; a payout's INSERT, answered or not,
is `Enter`; a lost answer about the run is `LoseAnswer`; every refusal and every end, also that of all calls
at a crash, is `Abandon`.

**SessionRotationProofs.** `IInv` says that ids are used once (`Fresh`), that tokens in clients' hands
were stored, what each place of a request implies (`RequestConsistent`), that the snapshot of history a
request carries is of the past, and that a request which was let through was let through in time
(`LetThroughConsistent`); the last is what makes "denied after logout" inductive across the `await`s of
a refresh. Proved, for the shipped repository and for the contract alike: `TypeCorrect`, `IssuedAreStored`,
`DeletionIsFinal`, `LoggedOutIsDenied`, `RevokedIsDenied`, `FamiliesHaveOneUser`, `RevocationHasReason`,
`EscapesAreRaces`, and the action property `RevocationIsFinal`; as shipped, those about revocation hold of
families of one.
`RevocationHasReason` (`RevokedForReuse`) has an invariant of its own, `ReuseInv`: whoever is about to revoke a
session that is still in the table can blame it, or an ancestor, for having been presented twice; the work
is to show that an ancestor stays in the table as long as its descendants do, because a deletion takes them
along (`AncestorsStay`, `AncestorsSurvive`). `EscapesAreRaces` rests on `EscapeInv`, which speaks of one edge of
the tree: a row that is not revoked while its parent is was stored after the revocation, by a refresh sent
before it; `EscapeOnTheWay` carries it from the edge to the path from a revoked ancestor down.

**RequestsProofs.** Five parts.

*Walks.* What LIMIT and OFFSET cut out of a listing is said in ranks: the rank of a place is the number of
kept rows up to it, every rank up to the length of the listing has exactly one row (`RankOfMembers`, by
induction), and a page is an interval of ranks (`PageRows`). `WalkInv` is the inductive invariant behind
`WalkSeesAll`: the rows that were there at the start have been seen or are `Ahead`, at a rank the client
has not come to, unless the listing has shrunk; and nothing seen is ahead, unless it has grown. An
INSERT moves ranks up (`RanksAfterInsert`), so it can bring a seen row ahead again and can never bring one
back behind the client; a change of status can do the one or the other. The client's own step has to go
on by exactly the page that it read, which is a fact about the parsers and the routes: whatever the
client asks for, the route reads from the position it was sent and answers with the size it used
(`QueryShape`). Proved: `WalksSeeAll`, for any table, any page size, any default and maximum.

*Front ends.* `FirstRefusal` takes the first of a list of checks; a front end passes exactly if none of
its checks fails (`RefusalOfList`), and from there each verdict is a conjunction (`AuthVerdict`, ...,
`TenantVerdict`), which `PassesExactly` compares with `LetsThrough`. *Guards.* `TokensNameBearers` and
`OwnTokensAccepted` go through the five guards that read a token. In `MCCalculations` the question asked stays what it was
(`QuestionStays`), hence `WebhooksSigned` and `TokensNameTheirBearers`, for all its questions at any time.

*Deliveries.* `IInv` of `Webhooks` says where the attempts of a delivery are. A request on the wire is of an
attempt that is under way or was given up without an answer (`WireConsistent`); what has been handled is
not on the wire any more, and was not answered with 2xx or a final 4xx unless the sender missed the answer
or is looking at it (`HandledConsistent`); an answer that waits to be read belongs to the attempt in
progress (`DeliveryConsistent`), because a late answer to an aborted attempt is dropped. Proved:
`DeliveriesTypeCorrect`, `SuccessMeansHandled`, `RepeatsOnlyUnseen`, and `HandledOnlySigned`, which takes the
verdict on what `deliver` posts from `PassesExactly`.

*Idempotency.* `IInv` relates the two maps to the requests: reserved keys to their holders, stored
responses to requests that ended well, a replayed answer to a stored one. A key is never both reserved
and recorded, which is what makes `OneHolder` and `RepliesAgree` inductive together. All safety
properties are theorems; `ReservationsAreHeld` is the one the liveness property rests on.

**PasswordResetProofs.** `IInv` says which lock a transaction holds at each of its statements, and that the
token it holds is unused until it commits; two resets with one token would hold the same lock. Proved:
`TypeCorrect`, `TokensAreSingleUse`, `ConfirmationsAreTrue`, `ChangesWereAsked`, `NothingStaysBehind`.

*The refinement.* `BookImplemented` is `Spec => ImplementsBook`. From `IInv`, and because a reset that was
answered is over (`AnsweredIsOver`, an invariant of its own), every step is one of `ResetTokens` or a
stutter: the INSERT is `Store` (`InsertStores`), the e-mail `Send` (`EmailSends`), every 400 without a COMMIT
`Refuse` (`RefusalRefuses`), and the COMMIT `Change` (`CommitChanges`), which needs that the token found
unspent by the SELECT is unspent still: that is what the lock is for.

**RevenueReportsProofs.** `IInv` adds to `TypeOK` that whoever has passed `findOverlappingReport` overlaps
no report that had been answered when it was sent (`SubmissionConsistent`: the snapshot is part of the
table, and the table only grows). `OverlapIsCommonTime` shows that the test of the query,
`start < end' and end > start'`, is the existence of a shared instant, for periods that are not empty.
Proved: `TypeCorrect`, `OverlapsOnlyInRaces`, `PeriodsAreUnique`, `ConflictsAreGenuine`. `BalancedMeansCovered`
(`BalancedCoversReported`) has the invariant `BalanceInv`: what was due when a check was sent is among what it
counts, since periods with time in common also touch, and once the verdict is "balanced" by a tolerance that
is a number, the completed runs cover it within the tolerance and `Slack`, whatever `Cent` and `Drift` are: each
`toFixed` moves a sum by half a cent and the drift, and the difference by the drift again. It compares sums over sets that differ. `SumFunctionOnSet` of the
community modules adds in an order that is chosen anew for every set; `SumExists`, `SumsAgree` and
`SumWithout` show by induction on the cardinality that the order does not matter, and `SumMonotone` that the
sum over a part is no more than that over the whole. Afterwards runs are added and settled, and what is
paid only grows (`PaidGrows`).

**AccountsProofs.** `IInv` says what a request under way remembers (`RequestConsistent`: it is past its early
returns, and the hash a change compared with is still in the row unless it was overtaken), that a row holds
the address its registration stored and the hash its last writer computed (`RowConsistent`), and that
addresses are unique (`EmailsUnique`, which the refused INSERT keeps). Four frame lemmas say what a step
that leaves the rows, a request, or the other requests alone preserves. Proved: `TypeCorrect`,
`TwinsAreStartupsAlways`, `ChangeKnewTheOldAlways`, `WeakIsExcusedAlways`, and `LogInNeedsDigestAlways`, which says
how far the code is from the one scheme of the documentation.

**HandlersProofs.** Three parts. *Chains of limiters*: what one limiter keeps, a chain of them keeps, by
induction on the place in the chain (`PassingDef` gives the recursion of `Passing` its equation). *Sessions,
milestone, preferences*: `IInv`, which holds however stores are shared, says that every session in the map
expires a lifetime after it was last seen, and was not logged out (`SessionInv`); which of two validations had read the milestone before the other marked it (`MilestoneInv`);
and that what a PATCH has read is the row, unless it is in `raced` (`PreferenceInv`). Proved:
`TypeCorrect`, `OnlyLiveSessionsPass`, `TwiceOnlyByRace`, `AnnouncedOrRejected`, and the action property
`StaleOnlyByRace`.

*What limiters promise* depends on the stores. `BurstsAreBounded` assumes `OneWindowPerStore`: limiters that
share a store have windows of one length. It is what `rateLimit.ts:24-25` asks for, one store per policy if windows
differ, and it is needed: in the default store (`rateLimit.ts:63`) a short window begun by one limiter would
end that of another early. `BurstInv` relates the count of a window to the requests let through in it: in the
current window at most `count` and at most the limit (`CurrentInv`), and fewer, or none, without the instant
at which the window began, since a window begins with a request that counts. A span as long as a window
that reaches back behind the start of the current one misses the first instant of the window before it, so
it has fewer than the limit from there (`PastInv`), and fewer than twice the limit in all. `RefusalsAreDue` assumes
`OneWindowPerStore` too, and `MountedOnce`: no route has one instance of the middleware twice, which would
count a request twice. Limiters may share stores as they like, the default one included. `RefusalInv` says, of
each limiter and each window of its store, that the count is not above its limit, or as many requests as the
limit were let through, or refused by a limiter with a lower limit, since the window began (`WindowTold`): a
request that a limiter refuses has been counted, so it counts against the limiters with a higher limit, but
those with the same or a lower one were past their limit already. Either hypothesis is about how an application
mounts its limiters (this one mounts none yet); the instances that TLC runs satisfy both, which `MCFrontDoor`
assumes and TLC evaluates.

**SnapshotsProofs.** `IInv` has one conjunct for each thing a service remembers across an `await`: the copy of a
row that a sync compares with (`JobInv`: it is the row, unless the job is in `moved`), the status an
investment has seen (`FundInv`), the sequence number a payment was built with (`PayInv`: the one the network
wants while no other is pending, unless the payment is in `crossed`), and the rows a snapshot looked for
(`LookInv`: there are none, unless it is in `raced`), with
`BatchInv`, that no row of a transaction is visible before its COMMIT. A step of one service leaves the
conjuncts of the others alone, which frame lemmas say once. Proved: `TypeCorrect`, `LateOnlyByRace`,
`RefusedOnlyByRace`, `SnapshotsAreWhole`, `SecondOnlyByRace`, and the action properties `RegressionOnlyByRace`
and `SuccessFreshOrRace`.

**Model-checked only.** The liveness properties (`EveryCallSettles`, `ReservationsEnd`, `EveryResetSettles`,
`EveryDeliveryEnds`): TLAPS does not prove liveness under fairness or reason about ENABLED. And the counterexamples.
Every safety property of a passing run is a theorem, and so are both refinements.

## 5. Not modelled, and the plan

Divergences of the repository from itself that the models step over: the tables `distribution_runs` and
`payouts` which the repository writes have no migration (the migrations create `distributions` and
`distribution_payouts`); the migration of `sessions` names its column `token_ref` where the code writes
`token_hash`; the first migration of `users` has neither `name` nor `updated_at`, and that of `offerings`
neither `contract_address` nor `total_raised`; `index.ts` and `sessionRepository.ts` (a method declared
twice) do not compile as they are. In each case the model follows the TypeScript that would run.

Left out, with the reason:

- **Offering statistics and the status guard**: two read-only aggregates, and a table of transitions that no
  write consults; a model of it would have no step.
- **Horizon client, asset codes, notifications, e-mail, audit log**: single calls or single rows that no
  other part depends on. (`markRead` updates without looking at the user, and `markReadBulk` is not there.)
- **HTTP framework, pool, migration runner**: plumbing; what a handler's outcome depends on is modelled
  where the handler is.
- Parts of modelled components without a caller in the repository, named in `PROJECT.json` with their
  component (`resetRateLimit`, `updateUser`, `createSession` without an id, the status updates of
  offerings), and read-only endpoints.
- Doubles: amounts are integers in the models (in `RevenueReports`, within a drift); the length of a backoff; the bytes of tokens and signatures.

What would add most from here, in this order: that the `Idempotency` middleware implements an abstract
table of replies; the routes of the distribution engine behind the limiters and the sessions of
`FrontDoor`.
