# Barestash, specified in TLA+

Barestash captures webhooks: a client creates an endpoint, anybody may POST to
it, the request is stored (metadata in D1, body and envelope in R2) and can be
listed, tailed or streamed. These modules specify the program's own logic,
TLC checks them on small instances and TLAPS proves theorems about them for
every instance. Paths below are relative to `src/`; `api/` abbreviates
`apps/api/src/`.

## 1. The system

| Component | State it keeps | Operations | Hard parts |
|---|---|---|---|
| Webhook ingest (`api/application/ingest*`) | none of its own: locals and a compensation stack per request | lookup, reserve a slot, verify the secret, read the body, two parallel puts, guarded INSERT, publish | every call is a point of interleaving; compensation on error; a lost isolate loses the stack |
| D1 tables (`api/infrastructure/d1`) | `endpoints`, `events`, `endpoint_secrets` | single statements with guards in their WHERE; no transaction spans two of them | counters that are read and written by several handlers; foreign keys |
| R2 bucket (`api/infrastructure/r2`) | objects with an upload time | put, delete (batches), list | not transactional with D1 |
| Endpoint management (`api/application/endpoints.ts`) | - | create, disable and delete, create and revoke secrets | acts on what an earlier statement read |
| Deletion of endpoint data (`api/application/delete-private-endpoint-data.ts`) | a cursor | pages of keys, batches of objects, rows, secrets, endpoint | may stop anywhere and be retried |
| Retention cleanup (`api/application/cleanup.ts`, cron in `api/worker.ts`) | locals of a run | expired endpoints, old private events, recount, orphan objects | races with ingest; any error ends the run |
| Live stream (`api/application/event-stream.ts`, `EndpointStream` Durable Object) | subscribers with their sequence numbers; buffer, delivered ids and catch-up page per connection | subscribe, catch up, buffer, flush, probe, publish, expire | order of catch-up and live events, gaps, a replaced object |
| Device authorization (`api/application/device-authorization.ts`, `apps/web` device approval) | `device_authorizations` | create, poll, approve, deny, expire, exchange | exactly one session, although polls overlap and fail after the commit |
| CLI sessions (`api/application/cli-session.ts`, `auth.ts`) | `cli_sessions`, `access_tokens`, `refresh_tokens` | refresh, detect reuse, revoke, authenticate | reads that are stale by the time of the batch |
| Access tokens (`api/application/tokens.ts`) | `personal_access_tokens`, `pat_idempotency_records` | create with replay, revoke | a key used at once, after its retention, after a lost answer |
| CLI credentials (`apps/cli/src/application/auth.ts`, `infrastructure/credentials`) | keyring, credential file, lock file | login, refresh, logout | several processes, stale locks, lost answers, a keyring that fails |
| CLI tail and stream (`apps/cli/src/application/events.ts`, `event-stream.ts`) | a cursor and what was printed | poll, reconnect at Last-Event-ID | bursts larger than a page, lost connections |
| Web provisioning (`apps/web/src/worker`) | Better Auth's `user`, `account`, `session`; `accounts`, `identities`, `better_auth_account_mappings` | sign in, provision, rebind, compensate | no transactions, concurrent first sign-ins, leftovers of broken ones |
| Rate limiting, routes, MCP, user interface | none, or external | - | - |

Ingest, owners' requests and the cron run at the same time, in different
isolates, and meet only in D1 and R2: what each does between two storage calls
is atomic, nothing larger is. Ingest calls the stream's Durable Object after the
row is stored. The CLI talks to the API over HTTP, the web worker shares the
D1 database of accounts and device codes.

What makes each component correct:

- ingest: an answer tells the truth, a refusal leaves nothing behind, an
  endpoint is neither overfilled nor closed early by leaked slots, and a stored
  event satisfied the endpoint's secrets at the moment it was stored;
- stores and deletion: a readable event has its objects, an interrupted deletion
  can be resumed, rows never refer to a missing endpoint;
- cleanup: nothing is removed before its time, everything is in the end;
- stream: a connection sends no event twice, and a follower's cursor passes no
  event except where the design gives it up;
- authorization: one session per device code, final decisions, one chain of
  refresh tokens, reuse ends the session, nothing works once it was revoked, an
  idempotency key mints once;
- CLI credentials: processes never cause reuse of their own token, what was
  logged out of stays out, no live session is left that nobody can revoke;
- provisioning: a session has its account, a subject has one account, and a
  broken sign-in locks nobody out.

`PROJECT.json` lists the components with their status, and the hazards with the
line where each bites and the properties that cover it.

## 2. Modules

`StashStore` holds the tables and the bucket and one operator per SQL statement
or bucket call. `Ingest` EXTENDS it with the handlers of deliveries,
`EndpointPurge` with the deletion of one endpoint's data, `EndpointAdmin` and
`Retention` EXTEND `EndpointPurge` with the two that start such a deletion.
`Stash` composes all of them; `EventLedger` is the abstract promise `Stash`
implements; `MCStash` adds the symmetry set for TLC; `StashProofs`,
`StashCapacityProofs` and `StashSafetyProofs` hold the theorems.

The identity side is built the same way: `AuthStore` holds the tables and one
operator per statement or batch, `DeviceGrant`, `CliSession` and `AccessTokens`
the calls, `Auth` composes them; `AuthProofs` and `AuthSafetyProofs` hold its
theorems.
`AuthMemory` is the abstract specification: the in-memory repository that the
code's own tests use, each method one step. `Auth` implements it, and `CliAuth`,
which composes `FileLock` and `CredentialStore` into the commands of the CLI,
talks to an instance of it: what is checked of the CLI holds against every
server that behaves like `AuthMemory`. `CliAuthProofs` holds its theorems.

`EventFeed` is a narrower view of the same events as `Stash`, reduced to what a
follower can tell apart: rows named by their sequence, whether a body can still
be loaded, and how far the request of each has come. `EventStream` EXTENDS it
with the Durable Object and the Worker's connections, `CliEvents` with the two
commands that follow, `EventFlow` composes them; `EventFlowProofs` and
`ProvisioningProofs` hold the theorems of `EventFlow` and `Provisioning`.

| Module | Code | State |
|---|---|---|
| `StashStore` | D1 repositories, R2 store, schema | `endpoints`, `events`, `next_sequence` (AUTOINCREMENT), `secrets`, `objects`, `clock`, `failures` |
| `Ingest` | `ingest.ts`, `phases.ts`, `compensation.ts`, `create-event-guard.ts`, `event-insert.ts` | `req[r]`: the phase, the locals and the compensation stack of each handler |
| `EndpointPurge` | `delete-private-endpoint-data.ts` and the loop of `cleanup.ts` over temporary endpoints | `job[p]`: endpoint, cursor and keys, for each owner's request and for the cron |
| `EndpointAdmin` | `endpoints.ts`, `endpoint-secret-repository.ts` | as above |
| `Retention` | `cleanup.ts`, `worker.ts` (`scheduled`) | `cron`: the phase of the run and its locals |
| `Stash` | all of these together | - |
| `EventLedger` | what the service promises about events | `life`, `kept`, `aged` |
| `AuthStore` | `auth-domain-repository.ts`, `device-approval-repository.ts`, migration 0003 | the identity tables, `clock`, `errors` |
| `DeviceGrant` | `device-authorization.ts`, `routes/device-approval.tsx`, the continuation cookie and CSRF token | `attempts`, `poll[p]`, `decision[b]` |
| `CliSession` | `cli-session.ts`, `auth.ts`, revocation in `tokens.ts` | `refreshing[r]`, `bearer[c]` |
| `AccessTokens` | `tokens.ts` | `creation[c]` |
| `Auth` | these together, and an operator who disables accounts | - |
| `AuthMemory` | `in-memory/auth-domain-repository.ts` | the tables |
| `FileLock` | `credentials/file-lock.ts` | `lockFile`, `waiting`, `dead` |
| `CredentialStore` | `credentials/credential-store.ts`, the plaintext file and the keyring | `keyring`, `plaintext`, `call[p]`, `faults` |
| `CliAuth` | `apps/cli/src/application/auth.ts`, `infrastructure/api/client.ts` | `proc[p]`, and the server's tables |
| `EventFeed` | the pages of `event-repository.ts`, `publishLive`, retention | `held`, `request` of each event |
| `EventStream` | `event-stream.ts`, `event-stream-coordinator.ts`, `worker.ts`, `shared/src/sse.ts` | subscribers and sequence number of the object, `conn[f]` |
| `CliEvents` | the CLI's `events.ts`, `event-stream.ts`, `sse.ts` | `cli[f]` |
| `EventFlow` | these together | history: `since`, `excused` |
| `Provisioning` | `provision-account.ts`, `provision-browser-session.ts`, `d1-compensating-adapter.ts` and their repositories | Better Auth's rows, the domain's rows, `browser[s]` |

One action is the code between two storage calls, the call that ends it
included. `ingestRequest` becomes, in order, `ValidateEndpoint`,
`ReserveTemporary` or `ReservePrivate` (`ExplainRefusal` is the second lookup),
`VerifySecret`, `ReadBody` or `BodyTooLarge`, `PersistObject` twice in either
order, `CheckExpiry`, `RecordMetadata` (`ClassifyRefusal` is the lookup after a
refused INSERT), `PublishLive`. `req[r].undo` is the compensation stack: the
slot and the parts whose put answered; `Compensate` pops it, the slot last,
before the refusal is answered. The catch blocks are `PersistObjectFails`,
`StorageCallFails`, `CompensationFails` and `OwnerRequestFails`; `IsolateLost`
ends a handler with its stack unrun; `CleanupFails` ends a run of the cron.
`ReserveAckLost` takes the slot and rejects, before there is a compensation for it.
`InsertAckLost` commits the row and rejects; it exists only when the constant
`AmbiguousInsert` is TRUE, because it depends on D1 and not on this code.
`req[r].left` is a history variable that no guard reads: what the request took or
stored and its stack could not undo, because the call that took it threw, the call
that was to undo it threw, or the isolate was lost.

Abstractions:

- a request id is also its event's id, as event ids are random and unique;
- a header either carries one known secret or none; hashing and the constant-time
  comparison are equality;
- `received_at` and upload times are ticks of the one clock every `Date` reads;
- an absent row is the status `none` (never created) or `deleted`; status
  `expired` is declared in `domain/endpoint.ts` but no statement writes it;
- the orphan scan lists the bucket page by page (`cron.listed` is what lies before
  the cursor). A page holds any non-empty part of the old objects not listed yet:
  keys are in the order of random ids, and young objects fill pages too. Pages
  without an old object change nothing and are left out;
- authentication and scopes of owners, `last_used_at`, names, headers and bodies
  are left out; so is the rejection of the first lookup, which leaves nothing;
- a put that rejects may have stored the object or not.
- a delete or a release that rejects after it took effect is the successful call
  followed by a failure of the next one, and has no action of its own;
- one run of the cleanup goes on at a time; the cron fires hourly and nothing in
  the code keeps two runs apart, so overlapping runs are outside the model;
- the compensations of the two objects run in either order, as their puts answer
  in either order;
- an id of a secret may be used again after its endpoint's deletion, which the
  code's random ids rule out: the model has more behaviours, not fewer.

Identity side:

- hashes and secrets are equality of ids; a call that presents an unknown code or
  token changes nothing and is left out; so are scopes and `last_used_at`;
- the rows a call creates carry the call's name, so a refresh token is named by
  the poll or refresh it came of;
- a call reads the clock once, when it starts, as the code passes one `now` on. A
  poll may take its `now` up to `CallTime` before it reads the row, so that an
  approval in between lies in its future and is answered with 500 (`Proceed`);
- the session and the account that explain a refused rotation are read in one
  step; they only choose the wording of a refusal;
- disabling an account is an operator's edit, there is no such operation;
- a read of the credential file may throw (`ReadFails`, and in `replace` and `write`
  an error of the file before the keyring is tried): the command ends, a login gives
  up its session (`ReadThrows`);
- the CLI's rename of a temporary file over the credential file is one step, and
  the legacy token of the configuration file and personal access tokens, which
  never change, are left out.

Event flow:

- an event is named by the sequence of its row; objects and rows are removed event
  by event, by whatever deletes them, also while the event's request is still about
  to publish; disconnecting tears down both ends
  at once; the byte limit of payloads in flight only narrows the window of loads
  and is left out;
- the sequence number of the Durable Object starts again when no publication is
  under way, to keep `MaxTop` small;
- `events list`, `show` and `latest` read once and keep no state.

Provisioning:

- Better Auth finds the provider account, then a user by address, then inserts;
  the code in `src/` only wraps it, and these steps are external;
- accounts are never deleted, so that `requireAccount` always passes;
- a user is young for at least as long as the sign-in that creates it needs
  (`ORPHAN_GRACE_PERIOD_MS`, one minute);
- users are removed by hand only; `crossed` notes that it happened in the middle
  of a sign-in of that user, where a later rebinding may find the wrong user.

## 3. Properties

Properties are stated in `Stash`, `Auth`, `CliAuth`, `EventFlow` and
`Provisioning`, each with the code it is about. The ones that need several actors
to break:

- `TemporaryCapacity`: stored events plus held slots are covered by
  `event_count`, which stays within the limit. `NoSlotLeak` is the other
  direction, whatever calls throw: the count is at most the events, the slots still
  held and the slots in `left`.
- `ReadableEventsHaveObjects`: it relies on the objects being stored before the
  row, on `disableEndpoint` before a deletion, and on the orphans' minimum age.
- `AnswersAreTrue`: the answer agrees with the row. `RefusalsLeaveNoObject`: after a
  refusal an object is left only if its own put or its own deletion threw, so the
  object of the other put, and both after a later error, are gone.
- `SecretsGuardEvents`: the secrets are read in `verifySecret`, the INSERT's WHERE
  decides later.
- `ObjectsGoFirst`: every step that removes a row.
- `LedgerPromise`: `Stash` implements `EventLedger`. `life` is read off the
  endpoint's status and expiry, `kept` is the events table, `aged` the private
  events in it that are past their retention. Nothing is discarded of an open
  endpoint unless it has aged. In the code an event's retention is as long as its
  endpoint's lifetime (7 days) and expired endpoints are purged first, so that no
  event ages before its endpoint; `stash_retention` makes the retention shorter.
- `OrphansRemoved`, `ExpiredEndpointsRemoved`, `PrivateCountsRecover`: liveness of
  the cleanup. The first says that the bucket is free of orphans again and again,
  whichever pages of the listing they are on.
- `OneSessionPerGrant`, `DecisionsAreFinal`: polls, decisions and expiry of one
  code against each other, with batches that throw after their commit.
- `RefreshTokensFormAChain`, `EndedSessionsHoldNothing`, `ReuseEndsTheSession`:
  rotations in flight against revocation and reuse. `NoAdmissionOnceRevoked`: a
  bearer call reads three rows, one after the other.
- `KeyMintsOnce`, `ReplayIsOfTheSameRequest`: calls with one idempotency key.
- `AgreesWithMemory`: `Auth` implements `AuthMemory`. The tests of the use cases
  run against that repository; this is what makes them say something about D1. The
  poll interval is part of it: a poll is recorded only when the double would, too.
- `LockSharedOnlyAfterACrash`: the lock excludes until a process dies, however long
  a living one holds it.
  After a crash it may not: two processes judge the same file stale, the first
  removes it and takes the lock, the second removes the new one. The README of the
  CLI (`apps/cli/README.md:229`) says without this condition that processes cannot
  rotate the same refresh token concurrently.
- `NoSelfInflictedReuse`, `LoggedOutStaysOut`, `SessionsStayManageable`: refresh,
  login and logout of three processes with a failing keyring and file. The last is
  about sessions the server still honours (`Live`); one that lapsed owes nothing.
- `SentOncePerConnection`, `GapsHaveACause`, `EverythingArrives`: below.
- `OneAccountPerSubject`, `SessionsAreProvisioned`, `NobodyIsLockedOut`: sign-ins
  of one person that overlap or break off.

What the design of the stream gives up, and `excused` therefore records: an event
whose publication a later row overtakes before the connection drops; one whose
publication fails; what lies behind the page of a catch-up (100 events) and, for
`tail` without cursor, behind its first page; and everything after a cursor whose
row is gone while later ones are not, where `sequence > NULL` finds nothing for
ever after (the deployed retention, as long as the endpoint's life, never does
this). A stream without a cursor also loses what came between two connections.
Outside these cases `GapsHaveACause` leaves no hole and `EverythingArrives` delivers.
Across connections an event may come twice, as a late publication moves the
cursor back. Any answer but success to a reconnection ends `events stream`, and
any failed call ends `tail`.

## 4. Runs

| Run | Configuration | What it shows |
|---|---|---|
| `stash_temporary` | one temporary endpoint, limit 2, three deliveries, one failure anywhere, expiry and the orphans' age inside the clock's range | capacity, exact counts, objects, answers, refinement |
| `stash_secrets` | one private endpoint, two secrets, two owners, one delivery | the guarded INSERT against creation and revocation of secrets and deletion |
| `stash_purge` | one private endpoint, two deliveries, two requests of its owner, one failure, pages of one event | deletion, its retry and the cleanup against ingest |
| `stash_cleanup` | one private endpoint, one delivery, one owner, one secret, one failure, fairness | orphans and expired endpoints go in the end |
| `stash_retention` | two deliveries, `PrivRetention` 1 of 3 ticks so that events age before their endpoint, one failure, `AmbiguousInsert`, fairness | rows go after their objects, refinement with ageing, orphans of two requests on several pages of the listing; counts recover |
| `stash_private_limit` | one private endpoint, limit 1, two deliveries | expected violation, section 6 |
| `auth_grant` | two accounts, codes, polls and visits, one throwing call | device grants, and that they implement `AuthMemory` |
| `auth_session` | one grant, three refreshes, one bearer call, one throwing call | rotation, reuse, revocation, admission |
| `auth_pat` | three creations with one key, one bearer call that revokes | idempotent creation around the end of the retention |
| `cli_credentials` | three processes, two sessions, any commands; two faults: a crash, a lost answer, a failing keyring or file | lock, store and refresh against the abstract server |
| `event_flow` | four events, one follower with any command, one fault, one removal, pages of two | gaps, duplicates and arrival, with fairness |
| `provisioning` | two browsers of one person, one of another with the same address, one fault, one removal, three user ids | provisioning, with fairness |

Bounds. Two requests are enough to race for a slot or to have one insert behind
a deletion of the other's row; three with a limit of two let two hold slots while
the third is refused and one is given back. One failure reaches every catch block;
a second one only ends a handler that is already compensating. Pages of one event
and batches of two objects make each loop turn twice. `MaxTime` lets an endpoint
expire and an object become old enough for the orphan scan. `StoreBy` and
`CreateBy` stop new work early so that the clock, which stops at `MaxTime`, leaves
the cleanup time for what is already there: they are bounds of the instances,
not of the code. Requests, owners' requests and secrets are symmetric; symmetry
is off in the runs with liveness properties. The system never deadlocks: the
cron may always run.

`Tick` waits while a request between its first put and its INSERT has an object
that would become old enough for the orphan scan. This is the one assumption
about time the code makes (`ORPHAN_CLEANUP_MIN_AGE_MS`, one hour): a request
that stayed that long between its puts and its INSERT would lose its objects.

Identity side: a call ends within `CallTime` of its start (an isolate does not
outlive its request by more), and twice that is less than `Retention`
(`CallTimeAssumption`; in the code seconds against a day). `LastTick` lets codes,
access tokens, sessions and idempotency records expire, `GrantBy` keeps new codes
out of the last ticks, `MaxErrors` bounds calls that throw, `CodeAttempts` is the
code's own bound of tries for a user code. With three refreshes a token can be
rotated, presented again and its successor rotated meanwhile; with three creations
one finds the record swept that another had found. `CHECK_DEADLOCK` is off: the
clock stops, and calls are made once.

CLI: `faults` counts crashes, lost answers and failures of keyring and file,
`MaxFaults` bounds their sum; a process runs one command. The constraint
`FirstFaultCrashes` follows a crash only when it is the first fault and no other
comes after it: every property of the run speaks of the time before the first
crash, so that nothing it could say is cut off. `SessionIdle` and `DeviceLifetime`
are as long as the run (`LastTick`): a session that nobody refreshes lapses.
`Keeping` blocks the clock while a process holds what it was just issued: a tick
stands for minutes, the steps between are local. A process that is alive writes its pid into the lock long
before the file is old enough to be judged.

Event flow: with four events and pages of two, a catch-up and a tail each have a
page before and a page after; `MaxLive` bounds the connection's buffer, `MaxTop`
the object's sequence, `MaxFaults` lost connections, expiries, failed calls and
restarts together, `MaxRemovals` retention. Provisioning: three user ids are
enough because at most one is a leftover, one mapped and removed, one in use;
which unused id is taken makes no difference. Both are symmetric in nothing that
liveness would allow to use, and may stop only where their actors are done.

Fairness: weak fairness of the clock, of every request that has started
(`RequestStep`: the runtime goes on with it until it answers or is lost) and of
the cron's steps (hourly, `apps/api/wrangler.toml`). Nobody has to send a request,
no owner has to come back, no failure has to happen. Failures are bounded by
`MaxFailures`: the liveness properties say that the cleanup recovers once storage
works again. In `event_flow` a request goes on to probe and publish, the Worker reads
its streams, a command that sleeps wakes up, and the deletion of a row whose object
is gone is taken up again, which `Stash` shows of the cleanup; inserts and faults owe
nothing. In `provisioning` a handler runs on, a browser that was refused tries again,
and leftovers grow old; nobody has to end a session or remove a user.

## 5. Proofs

Every safety property that a run checks, invariant or action property, and both
refinements are theorems: TLC shows them on a small instance, TLAPS for all sets of
actors, finite or not, and all limits and times that the `ASSUME`s of the modules
allow. The runs' bounds stay in the guards (`MaxFailures`, `LastTick`, `StoreBy`
and so on); as constants without an upper limit they restrict nothing.

What the proofs assume of the constants: limits and lifetimes are positive
(`LimitAssumption`, `TimeAssumption`, `LifetimeAssumption`, `PurgeAssumption`,
`StreamAssumption` and others); the two modes of an endpoint, owners and cron,
polls and refreshes, processes and sessions have different ids, and none of them is
the value that stands for nothing (`ModeAssumption`, `CallAssumption`,
`NullAssumption`, `RowAssumption`); two call times are shorter than the retention of
idempotency records (`CallTimeAssumption`); an access token lives at all
(`AccessLifetime > 0`, without which a token could lapse in the step that issues it).
TLC evaluates each of them on the runs' constants.

**One hypothesis beside them.** Four theorems have `AmbiguousInsert = FALSE`:
`TemporaryCapacityHolds`, `ReadableEventsHaveObjectsHolds`, `AnswersAreTrueHolds`
and `LedgerPromiseHolds`. If D1 commits an INSERT and its call rejects, the handler
gives back the slot and the objects of a row that is there, answers 500, and the
first three are false; the fourth needs the first for the ledger's limit. The other
theorems about `Stash` hold in both cases.

### Ingest, deletion and cleanup

`StashProofs`. `TypeOK` is not inductive: the INSERT of an event writes the endpoint
the handler remembers, and the recount writes a cardinality. `HandlerInv` adds that
the events are finitely many, that a running handler knows its endpoint (`Bound`),
and that a request holds its slot from the reservation to the INSERT (`Slotted`).

`StashCapacityProofs`. `CapacityInv` adds that the slots held for an endpoint are
finitely many and that an endpoint that was never created has neither slots nor
events. `RequestStepShape` shows that every step of a request keeps, takes, gives
back or uses up exactly one slot; `RequestCapacity` counts each of the four cases;
`Shrinks` describes everybody else, who stores no events and leaves the counts of
temporary endpoints alone.

`StashSafetyProofs` has one invariant for the properties that relate rows, objects
and answers, because each of them needs the others. Its parts:

- `Shaped`, `Rows`: what is on a request's stack in each phase; a request has at
  most one row, its last act, and a row has its endpoint's row.
- `JobCauses`, `CronCauses`: whoever deletes has a cause that lasts, since nothing
  that expired or was disabled is ever readable again.
- `JobListed`, `CronListed`: what a handler listed and acts on some steps later.
  A key is of a request that is past its INSERT, so that no row can still come
  for it; a listed row is still of the endpoint it was listed for.
- `Young`: an object whose row may still come is younger than the orphan scan's age,
  and every part on a storing request's stack is in the bucket.
- `JobSwept`, `CronSwept`: up to the cursor, the objects of an endpoint that has not
  expired are gone or about to go.
- `Kept`, `Complete`, `Tidy`: the accepted event is there, it has its objects, and
  every object that is stored is of an accepted event or a lost request, on a
  request's stack or in its `left`.

From it follow `ReadableEventsHaveObjects`, `AnswersAreTrue`,
`RefusalsLeaveNoObject`, and, step by step, `SecretsGuardEvents` and `ObjectsGoFirst`.
`NoSlotLeak` is inductive beside it with `Slots`, the finiteness of what is held and
of what leaked (`ExactInv`). `LedgerPromiseHolds` is the refinement: it
takes `HandlerInv`, `SafetyInv` and `CapacityInv` and maps every step to one of the
ledger, the INSERT to `Accept`, a purge's and the cron's statements to `Discard` and
`Vanish`, the clock to `Lapse`; all that only moves slots, objects or handlers is a
stutter.

### Identity

`AuthProofs` shows first that a step, whoever takes it, does one of a few things
to the tables (`TableStep`, `NextTakesTableStep`): nothing, disable an account,
decide a code, file or expire one, exchange, rotate, end a session, or write a
personal access token. Each theorem then argues about these instead of every
handler. `AuthInv` strengthens `TypeOK`, which is not inductive: a row that was
issued names a session that was created (`TokensHaveSessions`), and a running
call has found the row it goes on with. From it follow `AuthTypeCorrect`,
`DecisionsStand` and `EndedSessionsStayEmpty`; the last is inductive beside
`AuthInv` because a rotation asks in its own statement whether the session is
still active.

`AuthSafetyProofs` stacks five invariants on it.

- `GrantInv` (`OneSessionPerGrantHolds`): a poll that has not come to its exchange
  owns no session, and a session's code is consumed on its account; without the
  first a poll could overwrite its own session.
- `KeyInv` (`KeysMintOnce`, `ReplaysMatch`): the record of a token may be swept by
  any later creation, so it says how long it is kept (`RecordsKept`) and that a token
  which a waiting creation did not see had lapsed when it started or was minted
  during the call (`OverlapOrLapsed`). This is where `2 * CallTime < Retention` is
  needed.
- `ChainInv` (`RefreshTokensChain`, `ReuseEnds`): a refresh that has not rotated owns
  no row, hence a rotation links to a new one; `parent` and `replaced_by` are inverse;
  an active token is not replaced; a live session has one active token; and the
  answers given so far are still true.
- `BearerInv` (`NoDeadAdmission`): what killed a credential stays in the tables
  (`AuthorityStays`: no statement reopens a session, enables an account or gives a
  token another session, which needs the freshness of rows above), and `Refusing`
  says that of the three reads of a request one that is still to come meets it.
- `SeenInv` (`ImplementsMemory`): what a call read still describes the row it is about
  to write (`GrantsSeen`), and its time is not in the future. `ImplementsMemory` is the
  step simulation of `AuthMemory`: one lemma per statement or batch shows that
  `Auth`'s is the double's with the same arguments (`MemoryExchange`,
  `MemoryRotation`, `MemoryMint`, ...), one per call that its steps are such
  statements or change no row.

### Credentials of the CLI

`CliAuthProofs` first says of each step what it does to the process, the store, the
lock and the server (`ResolveDoes`, `RefreshDoes`, `StartLoginDoes`, ...), then
argues with four invariants.

- `BaseInv`: types, which tokens and sessions exist, and that every credential held
  anywhere was issued as it stands (`Genuine`); it holds through crashes and faults.
- `LockInv` (`LockSharedOnlyAfterACrashHolds`): until a crash a process is in its
  section exactly while the lock file is its own.
- `OutInv` (`LoggedOutStaysOutHolds`): until a crash the session the store shows was
  not forgotten, because a process that clears or replaces holds the lock and knows
  exactly what is visible.
- `DueInv`, `HoldInv` (`NoSelfInflictedReuseHolds`, `SessionsStayManageableHolds`):
  while no answer is lost either, what a process was issued is unused, a used token
  is visible only until it is replaced, and every live session is visible, in some
  process's hands, or was displaced by its user. `DueInv` is the time that `Keeping`
  gives for this: a session whose tokens a process was just issued has not lapsed.

### Event flow

`EventFlowProofs`. `FlowInv` follows every event to every follower through wire,
buffer, page, what was sent and what was printed (`Good`, `CliGood`): each of these
carries its events in order, where a gap is owed by something earlier on the way, by
what is given up, or by rows that are gone (`InOrder`); and what will not be
published to a member any more is listed, carried or given up (`Spares`). With that
no cursor passes an event, and no connection sends one twice. The library's
induction theorems take an operator and cannot be instantiated, so the lemmas on
sorted sequences and on folds of pages use `UpTo`: a set that holds 0 and with each
number the next holds all of them, shown by a least counterexample.

### Provisioning

`ProvisioningProofs`. `ProvisioningInv` says that a user never claims two subjects,
by link, sign-in or mapping (`OneSubject`); that addresses are unique and linked users
have their subject's (`AddressesUnique`, `Linked`); that nobody else knows of a user
while it is being created (`CreatedAlone`); and that what a sign-in read of the
domain still holds when it acts on it (`ReadsHold`), since identities are never
rebound and mappings only after a removal by hand. `OneAccountPerSubject` and
`SessionsAreProvisioned` are parts of it.

### Only model-checked

Liveness under fairness is out of the prover's reach: `OrphansRemoved`,
`ExpiredEndpointsRemoved`, `PrivateCountsRecover`, `EverythingArrives` and
`NobodyIsLockedOut` stay with TLC. `PrivateStoredWithinLimit` is false (section 6).

## 6. A disagreement

`stash_private_limit` violates `PrivateStoredWithinLimit`. The requirements
(`requirements/barestash-backend.spec.md:134`) limit a private endpoint to 1000
stored events. `reservePrivateEventSlot` enforces it through `event_count`, but
`reconcilePrivateEndpointEventCounts` (`endpoint-repository.ts:267`, run by every
cleanup) overwrites that count with the number of rows. A request that has
reserved and not inserted yet is forgotten: the run reserves the last slot,
recounts, reserves it again for a second request, and both insert. The excess is
at most the number of requests in flight during the recount. Temporary endpoints
are never recounted and keep their limit.

## 7. Not modelled, and the plan

- Rate limiting (`api/application/rate-limit.ts`): a call of the platform's limiter,
  whose state and algorithm are not in the repository.
- Routes and the MCP server (`api/presentation`): parsing and formatting; every
  state change goes through a use case that is modelled.
- The web user interface, and the rest of the shared package (schemas, ids,
  headers): data without state.
- `last_used_at`, `updated_at` and names: columns no decision reads.
- In the CLI, personal access tokens and the legacy token of the configuration
  file, which are read and never refreshed; selection of endpoints, output.
- Overlapping runs of the cleanup; several Durable Objects, which share nothing.

Next: the safety properties and both refinements are proved, so what is left is
width. In the model: one cleanup overtaking another, device page and sign-in as one
flow, the rest of the D1 repositories' statements. In the proofs: the frame lemmas
of the Stash and the CLI modules, which are stated handler by handler, could share
one form.
